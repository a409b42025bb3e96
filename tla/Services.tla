------------------------------- MODULE Services -------------------------------
(***************************************************************************)
(* The services that share no state with the pipeline or with each other:  *)
(* the file storage, the accounts, the AI calls and the reading of a       *)
(* mailbox.  Every behaviour is one of a single part, chosen at the start: *)
(* interleaving parts that do not meet would only multiply their states.   *)
(***************************************************************************)
EXTENDS Integers, FiniteSets

CONSTANTS Objects, Requests, NoOne, Lifetime, Calls, Prices, NoPrice, Horizon,
          MaxRounds, MaxToolCalls, Uids, MaxEpoch, ListLimit, MaxFaults

VARIABLES part,
          dir, disk, store, delete, owed, faults,
          users, sessions, bootstrap, call, answered, today, failures,
          windows, adding, pricing, run, now,
          epoch, mails, selected, op, locators, fetched

storageVars == <<dir, disk, store, delete, owed, faults>>
accessVars  == <<users, sessions, bootstrap, call, answered, today, failures>>
aiVars      == <<windows, adding, pricing, run, now>>
mailVars    == <<epoch, mails, selected, op, locators, fetched>>
vars        == <<part, storageVars, accessVars, aiVars, mailVars>>

Storage == INSTANCE LocalStorage
Access  == INSTANCE Access WITH now <- today, faults <- failures
AI      == INSTANCE AIExecution
Mail    == INSTANCE ImapSession

ASSUME ServicesAssumption ==
    Storage!Assumption /\ Access!Assumption /\ AI!Assumption /\ Mail!Assumption

\* In the last one nothing happens: it leaves room for Operators.
Parts == {"storage", "access", "ai", "mail", "operators"}

-----------------------------------------------------------------------------
Init == /\ part \in Parts
        /\ Storage!Init /\ Access!Init /\ AI!Init
        /\ Mail!Init /\ (part # "mail" => mails = {})

Step(p, A, others) == part = p /\ A /\ UNCHANGED <<part, others>>

Next ==
    \/ Step("storage", Storage!Next, <<accessVars, aiVars, mailVars>>)
    \/ Step("access", Access!Next, <<storageVars, aiVars, mailVars>>)
    \/ Step("ai", AI!Next, <<storageVars, accessVars, mailVars>>)
    \/ Step("mail", Mail!Next, <<storageVars, accessVars, aiVars>>)

Spec == Init /\ [][Next]_vars

-----------------------------------------------------------------------------
(* Properties.                                                             *)

\* The types of every part; that of AI has the bound generate promises, that no
\* more tools are run in one call than the request allows.
ServicesTypeOK == Storage!TypeOK /\ Access!TypeOK /\ AI!TypeOK /\ Mail!TypeOK

\* Through process deaths and power failures the directories of LocalStorage are
\* an ObjectStore: what was stored and returned is whole until it is deleted, and
\* nothing is readable before it is complete.
ImplementsObjectStore == Storage!ImplementsObjectStore

\* However many first visitors bootstrap at once, one administrator is made; and a
\* session lets in only while its login is committed, no logout of it is, and it is
\* not expired: after a logout was answered, only before its commit or if that failed.
AccessStaysClosed == Access!AccessStaysClosed

\* The price a call was recorded with is for ever the only one in force when it
\* started, whichever prices are added meanwhile or later for that time.
CostsStayTrue == AI!CostsStayTrue

\* A mail that get_message returns is the one its locator was listed for, although
\* the connection breaks between selection and fetch and the folder is made anew.
RightMail == Mail!RightMail

-----------------------------------------------------------------------------
\* The inductive invariants behind the properties.
IInv == Storage!IInv /\ Access!IInv /\ AI!IInv /\ Mail!IInv
=============================================================================
