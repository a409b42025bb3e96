---------------------------- MODULE LedgerProofs ----------------------------
(***************************************************************************)
(* What Ledger promises follows from its steps, for any askers, keys and   *)
(* contents.                                                               *)
(***************************************************************************)
EXTENDS Ledger, TLAPS

AskType == [stage : Stages, wish : Entry \cup {<<>>},
            verdict : Verdicts, told : Contents \cup {"none"}]

\* What Wishes and ToldTheTruth say of one asker that became r.
SoundIn(r, table, jobs) ==
    /\ r.stage \in {"asked", "decided", "answered"} => r.wish \in Entry
    /\ r.stage \notin {"decided", "answered"} => r.verdict = "none"
    /\ r.verdict = "created" => r.wish \in table
    /\ r.verdict \in {"created", "duplicate"} =>
          /\ \E e \in table : Same(e, r.wish) /\ e[2] = r.told
          /\ r.stage = "answered" => r.told \in jobs

\* No other asker was told that it created something like the wish of r.
FirstOf(a, r) == r.verdict = "created" =>
                    \A b \in Askers \ {a} : ask[b].verdict = "created" => ~Alike(ask[b].wish, r.wish)

\* One asker changes and the tables grow: the invariant holds if it does for
\* that asker.
LEMMA OneMoves ==
    ASSUME LedgerInv, NEW a \in Askers, NEW r \in AskType, Become(a, r),
           entries \subseteq entries', entries' \subseteq Entry, UniqueEntries',
           handed \subseteq handed', handed' \subseteq Contents,
           SoundIn(r, entries', handed'), FirstOf(a, r)
    PROVE  LedgerInv'
<1>0. ask \in [Askers -> AskType]
  BY DEF LedgerInv, LedgerTypeOK, AskType
<1>1. /\ ask' \in [Askers -> AskType]
      /\ ask'[a] = r
      /\ \A b \in Askers \ {a} : ask'[b] = ask[b]
  BY <1>0 DEF Become
<1>2. LedgerTypeOK'
  BY <1>1 DEF LedgerTypeOK, AskType
<1>3. \A b \in Askers : SoundIn(ask'[b], entries', handed')
  <2> SUFFICES ASSUME NEW b \in Askers PROVE SoundIn(ask'[b], entries', handed')
    OBVIOUS
  <2>1. CASE b = a
    BY <2>1, <1>1
  <2>2. CASE b # a
    <3>1. SoundIn(ask[b], entries, handed)
      BY DEF LedgerInv, Wishes, ToldTheTruth, SoundIn
    <3>2. SoundIn(ask[b], entries', handed')
      BY <3>1 DEF SoundIn
    <3> QED  BY <3>2, <2>2, <1>1
  <2> QED  BY <2>1, <2>2
<1>4. Wishes' /\ ToldTheTruth'
  BY <1>3 DEF Wishes, ToldTheTruth, SoundIn
<1>5. OneCreator'
  <2> SUFFICES ASSUME NEW b \in Askers, NEW c \in Askers, b # c,
                      ask'[b].verdict = "created", ask'[c].verdict = "created"
               PROVE  ~Alike(ask'[b].wish, ask'[c].wish)
    BY DEF OneCreator
  <2>1. CASE b = a
    BY <2>1, <1>1 DEF FirstOf, Alike
  <2>2. CASE c = a
    BY <2>2, <1>1 DEF FirstOf, Alike
  <2>3. CASE b # a /\ c # a
    BY <2>3, <1>1 DEF LedgerInv, OneCreator
  <2> QED  BY <2>1, <2>2, <2>3
<1> QED  BY <1>2, <1>4, <1>5 DEF LedgerInv

\* What is new is like nothing that was in the ledger.
LEMMA Entered ==
    ASSUME UniqueEntries, NEW e, \A f \in entries : ~Alike(f, e), entries' = entries \cup {e}
    PROVE  UniqueEntries'
BY DEF UniqueEntries, Alike

\* Every step keeps the invariant of the ledger.
LEMMA LedgerStep == ASSUME LedgerInv, [Next]_vars PROVE LedgerInv'
<1>0. /\ ask \in [Askers -> AskType]
      /\ entries \subseteq Entry /\ handed \subseteq Contents /\ UniqueEntries
      /\ \A a \in Askers : SoundIn(ask[a], entries, handed)
  BY DEF LedgerInv, LedgerTypeOK, AskType, Wishes, ToldTheTruth, SoundIn
<1>1. ASSUME NEW a \in Askers, Ask(a) PROVE LedgerInv'
  <2> DEFINE r == Place("asked", ask'[a].wish, "none", "none")
  <2>1. r \in AskType /\ r.verdict = "none" /\ r.wish \in Entry
    BY <1>1 DEF Ask, Place, AskType, Stages, Verdicts
  <2>2. SoundIn(r, entries, handed) /\ FirstOf(a, r)
    BY <2>1 DEF SoundIn, FirstOf
  <2>3. Become(a, r) /\ entries' = entries /\ handed' = handed
    BY <1>1 DEF Ask
  <2> HIDE DEF r
  <2> QED  BY <1>0, <2>1, <2>2, <2>3, OneMoves DEF UniqueEntries
<1>2. ASSUME NEW a \in Askers, Enter(a) PROVE LedgerInv'
  <2> DEFINE wish == ask[a].wish
  <2>1. wish \in Entry /\ ask[a].stage = "asked" /\ ask[a] \in AskType
    BY <1>0, <1>2 DEF Enter, SoundIn
  <2>2. entries' = entries \cup {wish} /\ handed' = handed
    BY <1>2 DEF Enter
  <2>3. UniqueEntries' /\ entries' \subseteq Entry
    BY <1>0, <1>2, <2>1, <2>2, Entered DEF Enter
  <2>4. CASE Decide(a, "created", wish[2])
    <3> DEFINE r == Place("decided", wish, "created", wish[2])
    <3>1. /\ r \in AskType /\ r.wish = wish /\ r.told = wish[2]
          /\ r.stage = "decided" /\ r.verdict = "created"
      BY <2>1 DEF Place, AskType, Stages, Verdicts, Entry
    <3>2. SoundIn(r, entries', handed')
      BY <3>1, <2>1, <2>2 DEF SoundIn, Same
    <3>3. FirstOf(a, r)
      <4> SUFFICES ASSUME NEW b \in Askers \ {a}, ask[b].verdict = "created"
                   PROVE  ~Alike(ask[b].wish, wish)
        BY <3>1 DEF FirstOf
      <4>1. ask[b].wish \in entries
        BY <1>0 DEF SoundIn
      <4> QED  BY <4>1, <1>2 DEF Enter
    <3>4. Become(a, r)
      BY <2>4 DEF Decide
    <3> HIDE DEF r
    <3> QED  BY <1>0, <2>2, <2>3, <3>1, <3>2, <3>3, <3>4, OneMoves
  <2>5. ASSUME NEW r \in AskType, Become(a, r), r.verdict \in {"none", "refused"},
               r.stage = "decided" => r.wish = wish,
               r.stage \in {"decided", "failed"}, r.verdict = "refused" => r.stage = "decided"
        PROVE  LedgerInv'
    <3>1. SoundIn(r, entries', handed') /\ FirstOf(a, r)
      BY <2>5, <2>1 DEF SoundIn, FirstOf
    <3> QED  BY <1>0, <2>2, <2>3, <2>5, <3>1, OneMoves
  <2>6. CASE Decide(a, "refused", "none")
    <3> DEFINE r == Place("decided", wish, "refused", "none")
    <3>1. r \in AskType /\ r.wish = wish /\ r.stage = "decided" /\ r.verdict = "refused"
      BY <2>1 DEF Place, AskType, Stages, Verdicts
    <3>2. Become(a, r)
      BY <2>6 DEF Decide
    <3> HIDE DEF r
    <3> QED  BY <3>1, <3>2, <2>5
  <2>7. CASE Become(a, GivenUp)
    <3>1. GivenUp \in AskType /\ GivenUp.stage = "failed" /\ GivenUp.verdict = "none"
      BY DEF GivenUp, Resting, Place, AskType, Stages, Verdicts
    <3> QED  BY <3>1, <2>7, <2>5
  <2> QED  BY <1>2, <2>4, <2>6, <2>7 DEF Enter
\* A verdict that leaves the tables alone.
<1>3. ASSUME NEW a \in Askers, ask[a].stage = "asked", entries' = entries, handed' = handed,
             NEW v \in {"duplicate", "conflict", "refused"}, NEW told \in Contents \cup {"none"},
             v = "duplicate" => \E e \in entries : Same(e, ask[a].wish) /\ e[2] = told,
             Decide(a, v, told)
      PROVE  LedgerInv'
  <2> DEFINE r == Place("decided", ask[a].wish, v, told)
  <2>0. ask[a] \in AskType /\ ask[a].wish \in Entry
    BY <1>0, <1>3 DEF SoundIn
  <2>1. /\ r \in AskType /\ r.wish = ask[a].wish /\ r.told = told
        /\ r.stage = "decided" /\ r.verdict = v
    BY <2>0 DEF Place, AskType, Stages, Verdicts
  <2>2. SoundIn(r, entries, handed) /\ FirstOf(a, r)
    BY <1>3, <2>0, <2>1 DEF SoundIn, FirstOf
  <2>3. Become(a, r)
    BY <1>3 DEF Decide
  <2> HIDE DEF r
  <2> QED  BY <1>0, <1>3, <2>1, <2>2, <2>3, OneMoves DEF UniqueEntries
<1>4. ASSUME NEW a \in Askers, Recognise(a) PROVE LedgerInv'
  <2>1. PICK e \in entries : Same(e, ask[a].wish) /\ Decide(a, "duplicate", e[2])
    BY <1>4 DEF Recognise
  <2>2. e[2] \in Contents
    BY <1>0 DEF Entry
  <2> QED  BY <1>3, <1>4, <2>1, <2>2 DEF Recognise
<1>5. ASSUME NEW a \in Askers, Object(a) PROVE LedgerInv'
  BY <1>3, <1>5 DEF Object
<1>6. ASSUME NEW a \in Askers, Refuse(a) PROVE LedgerInv'
  BY <1>3, <1>6 DEF Refuse
\* The stage moves on, with the verdict that was given.
<1>7. ASSUME NEW a \in Askers, ask[a].stage = "decided", NEW s \in {"decided", "answered"},
             Become(a, [ask[a] EXCEPT !.stage = s]),
             entries' = entries, handed \subseteq handed', handed' \subseteq Contents,
             ask[a].verdict \in {"created", "duplicate"} => ask[a].told \in handed'
      PROVE  LedgerInv'
  <2> DEFINE r == [ask[a] EXCEPT !.stage = s]
  <2>1. /\ r \in AskType /\ r.stage = s
        /\ r.wish = ask[a].wish /\ r.told = ask[a].told /\ r.verdict = ask[a].verdict
    BY <1>0 DEF AskType, Stages
  <2>2. SoundIn(r, entries', handed')
    BY <1>0, <1>7, <2>1 DEF SoundIn
  <2>3. FirstOf(a, r)
    BY <2>1 DEF LedgerInv, OneCreator, FirstOf
  <2>4. Become(a, r)
    BY <1>7
  <2> HIDE DEF r
  <2> QED  BY <1>0, <1>7, <2>1, <2>2, <2>3, <2>4, OneMoves DEF UniqueEntries
<1>8. ASSUME NEW a \in Askers, HandOn(a) PROVE LedgerInv'
  <2>1. ask[a].told \in Contents
    <3>1. PICK e \in entries : e[2] = ask[a].told
      BY <1>0, <1>8 DEF HandOn, SoundIn
    <3> QED  BY <3>1, <1>0 DEF Entry
  <2> QED  BY <1>0, <1>7, <1>8, <2>1 DEF HandOn
<1>9. ASSUME NEW a \in Askers, Answer(a) PROVE LedgerInv'
  BY <1>0, <1>7, <1>9 DEF Answer
<1>10. ASSUME NEW a \in Askers, GiveUp(a) PROVE LedgerInv'
  <2>1. PICK r \in {Resting, GivenUp} : Become(a, r)
    BY <1>10 DEF GiveUp
  <2>2. r \in AskType /\ r.verdict = "none" /\ r.stage \in {"idle", "failed"}
    BY DEF GivenUp, Resting, Place, AskType, Stages, Verdicts
  <2>3. SoundIn(r, entries, handed) /\ FirstOf(a, r)
    BY <2>2 DEF SoundIn, FirstOf
  <2> QED  BY <1>0, <1>10, <2>1, <2>2, <2>3, OneMoves DEF GiveUp, UniqueEntries
<1>11. CASE UNCHANGED vars
  BY <1>11 DEF vars, LedgerInv, LedgerTypeOK, Wishes, UniqueEntries, OneCreator, ToldTheTruth,
               Alike, Same, Entry
<1> QED  BY <1>1, <1>2, <1>4, <1>5, <1>6, <1>8, <1>9, <1>10, <1>11 DEF Next

LEMMA LedgerInit == ASSUME Init PROVE LedgerInv
<1>1. Resting \in AskType
  BY DEF Resting, Place, AskType, Stages, Verdicts
<1>2. LedgerTypeOK
  BY <1>1 DEF Init, LedgerTypeOK, AskType
<1> QED  BY <1>2 DEF Init, LedgerInv, Wishes, UniqueEntries, OneCreator, ToldTheTruth,
                    Resting, Place

\* Nothing is in the ledger twice, no two askers are told that they brought the
\* same thing first, and everybody is told the truth.
THEOREM LedgerIsSound == Spec => [](UniqueEntries /\ OneCreator /\ ToldTheTruth)
<1>1. Init => LedgerInv
  BY LedgerInit
<1>2. LedgerInv /\ [Next]_vars => LedgerInv'
  BY LedgerStep
<1>3. LedgerInv => UniqueEntries /\ OneCreator /\ ToldTheTruth
  BY DEF LedgerInv
<1> QED  BY <1>1, <1>2, <1>3, PTL DEF Spec

\* Nothing leaves the ledger, no follow-up work is forgotten and no answer
\* changes.
THEOREM LedgerOnlyGrows == Spec => NothingIsTakenBack
<1>1. Init => LedgerInv
  BY LedgerInit
<1>2. LedgerInv /\ [Next]_vars => LedgerInv'
  BY LedgerStep
<1>3. LedgerInv /\ [Next]_vars =>
         [/\ entries \subseteq entries' /\ handed \subseteq handed'
          /\ \A a \in Askers : ask[a].stage = "answered" => ask'[a] = ask[a]]_vars
  <2> SUFFICES ASSUME LedgerInv, Next
               PROVE  /\ entries \subseteq entries' /\ handed \subseteq handed'
                      /\ \A a \in Askers : ask[a].stage = "answered" => ask'[a] = ask[a]
    OBVIOUS
  <2>1. ask \in [Askers -> AskType]
    BY DEF LedgerInv, LedgerTypeOK, AskType
  <2>2. PICK a \in Askers : \/ Ask(a) \/ Enter(a) \/ Recognise(a) \/ Object(a)
                            \/ Refuse(a) \/ HandOn(a) \/ Answer(a) \/ GiveUp(a)
    BY DEF Next
  <2>3. ask[a].stage # "answered" /\ \E r : Become(a, r)
    BY <2>2 DEF Ask, Enter, Recognise, Object, Refuse, HandOn, Answer, GiveUp, Decide
  <2>4. entries \subseteq entries' /\ handed \subseteq handed'
    BY <2>2 DEF Ask, Enter, Recognise, Object, Refuse, HandOn, Answer, GiveUp
  <2> QED  BY <2>1, <2>3, <2>4 DEF Become
<1> QED  BY <1>1, <1>2, <1>3, PTL DEF Spec, NothingIsTakenBack
=============================================================================
