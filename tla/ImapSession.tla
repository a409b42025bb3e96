----------------------------- MODULE ImapSession -----------------------------
(***************************************************************************)
(* IMAPEmailProvider reading a folder: list_messages gives locators and    *)
(* get_message follows them.  The connection may break at any point; a     *)
(* reading operation is begun once more on a new one.  Between the two,    *)
(* the folder may be deleted and made again, and then its UIDs name other  *)
(* mails, as the changed UIDVALIDITY tells.                                *)
(***************************************************************************)
EXTENDS Naturals, FiniteSets

CONSTANTS Uids, MaxEpoch, ListLimit

VARIABLES epoch,     \* UIDVALIDITY of the folder on the server
          mails,     \* UIDs in it
          selected,  \* UIDVALIDITY of the folder the connection selected
          op,        \* the operation that runs
          locators,  \* what list_messages has returned
          fetched    \* what get_message has returned: the locator asked for, and
                     \* the UIDVALIDITY and UID the mail has on the server

vars == <<epoch, mails, selected, op, locators, fetched>>

Locator  == [uidvalidity : 1..MaxEpoch, uid : Uids]
Broken   == 0              \* there is no connection,
NoFolder == MaxEpoch + 1   \* or it has not selected a folder
Nowhere  == [uidvalidity |-> NoFolder, uid |-> 0]

Init == /\ epoch = 1
        /\ mails \in SUBSET Uids
        /\ selected = Broken
        /\ op = [kind |-> "list", about |-> Nowhere, attempt |-> 0, step |-> "end"]
        /\ locators = {} /\ fetched = {}

Connected   == selected # Broken
Doing(step) == op.step = step /\ Connected
End         == op' = [op EXCEPT !.step = "end"]

-----------------------------------------------------------------------------
\* The server deletes the folder and makes it again, which ends the session that
\* has it selected.
Recreate ==
    /\ epoch < MaxEpoch
    /\ epoch' = epoch + 1
    /\ mails' \in SUBSET Uids
    /\ selected' = IF selected = epoch THEN Broken ELSE selected
    /\ UNCHANGED <<op, locators, fetched>>

\* Somebody moves a mail out of the folder.
Expunge(uid) ==
    /\ uid \in mails
    /\ mails' = mails \ {uid}
    /\ UNCHANGED <<epoch, selected, op, locators, fetched>>

-----------------------------------------------------------------------------
Begin(kind, about) ==
    /\ op.step = "end"
    /\ op' = [kind |-> kind, about |-> about, attempt |-> 0, step |-> "select"]
    /\ UNCHANGED <<epoch, mails, selected, locators, fetched>>

\* _connect, which keeps the connection it has.
Connect ==
    /\ op.step = "select"
    /\ ~Connected
    /\ selected' = NoFolder
    /\ UNCHANGED <<epoch, mails, op, locators, fetched>>

\* Mutant of Accepted: the second attempt does not compare the UIDVALIDITY.
AcceptedOnce == op.kind = "list" \/ op.attempt > 0 \/ epoch = op.about.uidvalidity

\* get_message goes on only in the folder its locator is of.
Accepted == op.kind = "list" \/ epoch = op.about.uidvalidity

Select ==
    /\ Doing("select")
    /\ selected' = epoch
    /\ op' = [op EXCEPT !.step = IF Accepted THEN "command" ELSE "end"]
    /\ UNCHANGED <<epoch, mails, locators, fetched>>

\* list_messages: the last UIDs, with the UIDVALIDITY the selection reported.
Search ==
    /\ Doing("command")
    /\ op.kind = "list"
    /\ locators' = [uidvalidity : {selected},
                    uid : {u \in mails : Cardinality({v \in mails : v > u}) < ListLimit}]
    /\ End
    /\ UNCHANGED <<epoch, mails, selected, fetched>>

\* get_message: the mail of that UID, if there is one still.
Fetch ==
    /\ Doing("command")
    /\ op.kind = "get"
    /\ fetched' = fetched \cup
          {[asked |-> op.about, got |-> [uidvalidity |-> epoch, uid |-> u]] :
              u \in mails \cap {op.about.uid}}
    /\ End
    /\ UNCHANGED <<epoch, mails, selected, locators>>

\* _read_operation meets a broken connection: it resets, and begins anew once.
Reconnect ==
    /\ op.step \in {"select", "command"}
    /\ selected' = Broken
    /\ op' = IF op.attempt = 0 THEN [op EXCEPT !.attempt = 1, !.step = "select"]
                               ELSE [op EXCEPT !.step = "end"]
    /\ UNCHANGED <<epoch, mails, locators, fetched>>

-----------------------------------------------------------------------------
Next == \/ Recreate \/ Connect \/ Select \/ Search \/ Fetch \/ Reconnect
        \/ \E uid \in Uids : Expunge(uid)
        \/ Begin("list", Nowhere)
        \/ \E l \in locators : Begin("get", l)

Spec == Init /\ [][Next]_vars

-----------------------------------------------------------------------------
(* Properties.                                                             *)

Assumption == /\ MaxEpoch \in Nat \ {0} /\ ListLimit \in Nat \ {0}
              /\ Uids \subseteq Nat \ {0}

Operation == [kind : {"list", "get"}, about : Locator \cup {Nowhere}, attempt : 0..1,
              step : {"select", "command", "end"}]

TypeOK == /\ epoch \in 1..MaxEpoch
          /\ mails \subseteq Uids
          /\ selected \in 0..NoFolder
          /\ op \in Operation
          /\ locators \subseteq Locator

\* A mail that get_message returns is the one its locator was listed for, although
\* the connection breaks between selection and fetch and the folder is made anew.
RightMail == \A f \in fetched : f.got = f.asked

\* Why: a command runs only in the folder as it is now, which is the one that get_message
\* compared its locator with.
FolderInv ==
    Doing("command") => /\ selected = epoch
                        /\ op.kind = "get" => op.about.uidvalidity = epoch

IInv == TypeOK /\ FolderInv /\ RightMail
=============================================================================
