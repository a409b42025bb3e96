-------------------------- MODULE ThreadResolution --------------------------
(***************************************************************************)
(* resolve_thread_context: of the candidate mails, the related history of  *)
(* the current one within a number of messages and of characters.          *)
(*                                                                         *)
(* A mail has an id or none (0), the ids it refers to, a normalised        *)
(* subject or none, participants, a time, and a size in characters.        *)
(***************************************************************************)
LOCAL INSTANCE Naturals
LOCAL INSTANCE Sequences
LOCAL INSTANCE SequencesExt
LOCAL INSTANCE FiniteSets

NoId      == 0
NoSubject == "none"

\* _related: by the candidate's id, by the current id, by subject and people.
Related(current, m) ==
    \/ m.id # NoId /\ m.id \in current.refs
    \/ current.id # NoId /\ current.id \in m.refs
    \/ /\ current.subject # NoSubject
       /\ current.subject = m.subject
       /\ current.people \cap m.people # {}

\* sorted by time, latest first, and stable: mails of one time keep their order.
LatestFirst(mails) ==
    LET Before(i, j) == mails[i].time > mails[j].time \/ (mails[i].time = mails[j].time /\ i < j)
        place(i)     == 1 + Cardinality({j \in DOMAIN mails : Before(j, i)})
    IN  [k \in DOMAIN mails |-> mails[CHOOSE i \in DOMAIN mails : place(i) = k]]

RelatedTo(current, candidates) ==
    LatestFirst(SelectSeq(candidates, LAMBDA m : m.locator # current.locator /\ Related(current, m)))

\* Mutant of Taken: a mail that does not fit is passed over.
TakenOrSkipped(state, m, maxCharacters) ==
    IF state.total + m.size > maxCharacters THEN [state EXCEPT !.full = TRUE]
    ELSE [state EXCEPT !.total = @ + m.size, !.history = <<m>> \o @]

\* One turn of the loop: the first mail that does not fit ends it.
Taken(state, m, maxCharacters) ==
    IF state.full THEN state
    ELSE IF state.total + m.size > maxCharacters THEN [state EXCEPT !.full = TRUE]
    ELSE [state EXCEPT !.total = @ + m.size, !.history = <<m>> \o @]

Resolve(current, candidates, maxMessages, maxCharacters) ==
    LET related == RelatedTo(current, candidates)
        looked  == SubSeq(related, 1, IF Len(related) < maxMessages THEN Len(related) ELSE maxMessages)
        state   == FoldLeft(LAMBDA s, m : Taken(s, m, maxCharacters),
                            [history |-> <<>>, total |-> 0, full |-> FALSE], looked)
    IN  [history |-> state.history, total |-> state.total,
         truncated |-> state.full \/ Len(related) > maxMessages]

-----------------------------------------------------------------------------
Sizes(mails) == FoldLeft(LAMBDA n, m : n + m.size, 0, mails)

\* Two mails agree whether they are related.  The history reads forward in time without a hole: it ends with the latest
\* related mail, leaves out only mails that are not later, respects both bounds,
\* could take no more, and says so exactly when it leaves something out.
ThreadAgrees(current, candidates, maxMessages, maxCharacters) ==
    LET r       == Resolve(current, candidates, maxMessages, maxCharacters)
        related == RelatedTo(current, candidates)
        n       == Len(r.history)
    IN  /\ \A m \in Range(candidates) : Related(current, m) = Related(m, current)
        /\ \A i \in 1..n-1 : r.history[i].time <= r.history[i + 1].time
        /\ n <= maxMessages /\ r.total = Sizes(r.history) /\ r.total <= maxCharacters
        /\ r.history = Reverse(SubSeq(related, 1, n))
        /\ r.truncated = (n < Len(related))
        /\ n < Len(related) => \/ n = maxMessages
                               \/ r.total + related[n + 1].size > maxCharacters
=============================================================================
