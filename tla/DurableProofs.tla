--------------------------- MODULE DurableProofs ---------------------------
(***************************************************************************)
(* Proofs about DurableOps, for any calls, keys, forms and counts: what is *)
(* reported a success is durable, a failure is reported for a reason only, *)
(* and every call is answered as often as its form says.                   *)
(***************************************************************************)
EXTENDS DurableOps, FiniteSetTheorems, TLAPS

\* The inductive invariant.  The CAS of an item and its durability are what
\* the history says; nobody changes the key "null", so that a poll for it
\* cannot succeed; and a poll that has succeeded means what it should.
Grounded ==
  /\ item[NullKey].by = NoCall
  /\ \A k \in Keys : item[k].durable => <<item[k].by, k>> \in durable
  /\ \A c \in Calls, k \in Keys : stage[c][k] = "met" => <<c, k>> \in durable

DurableInv == TypeOK /\ Grounded /\ SuccessMeansDurable

\* What a call of the spooled callback leaves: types, and success only for
\* keys whose poll has succeeded.
LEMMA CallSpooledTyped ==
  ASSUME TypeOK, NEW c \in Calls, NEW st \in [Keys -> Stages], CallSpooled(c, st)
  PROVE  /\ told' \in [Calls -> [calls: Nat, err: BOOLEAN]]
         /\ said' \in [Calls -> [Keys -> {"none", "ok", "error"}]]
         /\ \A d \in Calls, k \in Keys :
              said'[d][k] = "ok" => said[d][k] = "ok" \/ (d = c /\ st[k] = "met")
<1>1. SpooledError(st) \in BOOLEAN
  BY Zenon DEF SpooledError
<1>2. told' \in [Calls -> [calls: Nat, err: BOOLEAN]]
  <2> DEFINE e == SpooledError(st)
  <2>1. e \in BOOLEAN
    BY <1>1
  <2>2. told' = [told EXCEPT ![c] = [calls |-> @.calls + 1, err |-> e]]
    BY DEF CallSpooled
  <2> HIDE DEF e
  <2> QED
    BY <2>1, <2>2 DEF TypeOK
<1>3. \A k \in Keys : Good(st[k]) <=> st[k] = "met"
  BY DEF Good
<1>4. said' = [said EXCEPT ![c] = [k \in Keys |-> IF st[k] = "none" THEN "none"
                                   ELSE IF st[k] = "met" THEN "ok" ELSE "error"]]
  BY DEF CallSpooled, Good
<1>5. said' \in [Calls -> [Keys -> {"none", "ok", "error"}]]
  BY <1>4 DEF TypeOK
<1>6. \A d \in Calls, k \in Keys :
        said'[d][k] = "ok" => said[d][k] = "ok" \/ (d = c /\ st[k] = "met")
  BY <1>4 DEF TypeOK
<1> QED
  BY <1>2, <1>5, <1>6

\* What every answer keeps of the invariant, as long as `durable` stays.
AnswersKept ==
  /\ stage' \in [Calls -> [Keys -> Stages]]
  /\ told' \in [Calls -> [calls: Nat, err: BOOLEAN]]
  /\ said' \in [Calls -> [Keys -> {"none", "ok", "error"}]]
  /\ cause' \in [Calls -> SUBSET Keys]
  /\ \A c \in Calls, k \in Keys : stage'[c][k] = "met" => <<c, k>> \in durable
  /\ \A c \in Calls, k \in Keys : said'[c][k] = "ok" => <<c, k>> \in durable

\* The keys of a call move to stages st, of which those that are "met" are
\* durable, and the callback is not called, ...
LEMMA QuietKeeps ==
  ASSUME DurableInv, NEW c \in Calls, NEW st \in [Keys -> Stages],
         \A k \in Keys : st[k] = "met" => <<c, k>> \in durable,
         stage' = [stage EXCEPT ![c] = st],
         cause' \in [Calls -> SUBSET Keys], UNCHANGED <<told, said>>
  PROVE  AnswersKept
BY DEF AnswersKept, DurableInv, TypeOK, Grounded, SuccessMeansDurable

\* ... or called for all keys, ...
LEMMA SpooledKeeps ==
  ASSUME DurableInv, NEW c \in Calls, NEW st \in [Keys -> Stages],
         \A k \in Keys : st[k] = "met" => <<c, k>> \in durable,
         stage' = [stage EXCEPT ![c] = st],
         cause' \in [Calls -> SUBSET Keys], CallSpooled(c, st)
  PROVE  AnswersKept
<1>1. /\ told' \in [Calls -> [calls: Nat, err: BOOLEAN]]
      /\ said' \in [Calls -> [Keys -> {"none", "ok", "error"}]]
      /\ \A d \in Calls, k \in Keys :
           said'[d][k] = "ok" => said[d][k] = "ok" \/ (d = c /\ st[k] = "met")
  BY CallSpooledTyped DEF DurableInv
<1>2. \A d \in Calls, k \in Keys : said'[d][k] = "ok" => <<d, k>> \in durable
  BY <1>1 DEF DurableInv, SuccessMeansDurable
<1>3. /\ stage' \in [Calls -> [Keys -> Stages]]
      /\ \A d \in Calls, k \in Keys : stage'[d][k] = "met" => <<d, k>> \in durable
  BY DEF DurableInv, TypeOK, Grounded
<1> QED
  BY <1>1, <1>2, <1>3 DEF AnswersKept

\* ... or called for some.
LEMMA EachKeeps ==
  ASSUME DurableInv, NEW c \in Calls, NEW st \in [Keys -> Stages],
         \A k \in Keys : st[k] = "met" => <<c, k>> \in durable,
         stage' = [stage EXCEPT ![c] = st],
         cause' \in [Calls -> SUBSET Keys],
         NEW ks \in SUBSET Keys, NEW ok \in BOOLEAN, CallEach(c, ks, ok),
         ok => \A k \in ks : <<c, k>> \in durable
  PROVE  AnswersKept
<1>1. Cardinality(ks) \in Nat
  BY FS_CardinalityType, FS_Subset, DurableAssumption
<1> DEFINE n == Cardinality(ks)
<1>2. /\ told' = [told EXCEPT ![c] = [calls |-> @.calls + n, err |-> @.err \/ ~ok]]
      /\ n \in Nat
  BY <1>1 DEF CallEach
<1> HIDE DEF n
<1>3. told' \in [Calls -> [calls: Nat, err: BOOLEAN]]
  BY <1>2 DEF DurableInv, TypeOK
<1>4. said' = [said EXCEPT ![c] =
                [k \in Keys |-> IF k \in ks THEN IF ok THEN "ok" ELSE "error" ELSE @[k]]]
  BY DEF CallEach
<1>5. said' \in [Calls -> [Keys -> {"none", "ok", "error"}]]
  BY <1>4 DEF DurableInv, TypeOK
<1>6. \A d \in Calls, k \in Keys :
        said'[d][k] = "ok" => said[d][k] = "ok" \/ (d = c /\ k \in ks /\ ok)
  BY <1>4 DEF DurableInv, TypeOK
<1>7. \A d \in Calls, k \in Keys : said'[d][k] = "ok" => <<d, k>> \in durable
  BY <1>6 DEF DurableInv, SuccessMeansDurable
<1>8. /\ stage' \in [Calls -> [Keys -> Stages]]
      /\ \A d \in Calls, k \in Keys : stage'[d][k] = "met" => <<d, k>> \in durable
  BY DEF DurableInv, TypeOK, Grounded
<1> QED
  BY <1>3, <1>5, <1>7, <1>8 DEF AnswersKept

\* A poll is scheduled or refused.
LEMMA PollKeeps ==
  ASSUME DurableInv, NEW c \in Calls, NEW ks \in SUBSET Keys, NEW st \in [Keys -> Stages],
         \A k \in Keys : st[k] = "met" => <<c, k>> \in durable,
         Poll(c, ks, st)
  PROVE  AnswersKept
<1> DEFINE After(name) == [k \in Keys |-> IF k \in ks THEN name ELSE st[k]]
<1>1. CASE /\ stage' = [stage EXCEPT ![c] = After("polling")]
           /\ UNCHANGED <<told, said, cause>>
  <2>1. /\ After("polling") \in [Keys -> Stages]
        /\ \A k \in Keys : After("polling")[k] = "met" => <<c, k>> \in durable
    BY DEF Stages
  <2>2. cause' \in [Calls -> SUBSET Keys]
    BY <1>1 DEF DurableInv, TypeOK
  <2> QED
    BY <1>1, <2>1, <2>2, QuietKeeps
<1>2. CASE /\ stage' = [stage EXCEPT ![c] = After("unmet")]
           /\ cause' = [cause EXCEPT ![c] = @ \cup ks]
           /\ IF Spooled(c) THEN CallSpooled(c, After("unmet")) ELSE CallEach(c, ks, FALSE)
  <2>1. /\ After("unmet") \in [Keys -> Stages]
        /\ \A k \in Keys : After("unmet")[k] = "met" => <<c, k>> \in durable
    BY DEF Stages
  <2>2. cause' \in [Calls -> SUBSET Keys]
    BY <1>2 DEF DurableInv, TypeOK
  <2>3. CASE Spooled(c)
    BY <1>2, <2>1, <2>2, <2>3, SpooledKeeps
  <2>4. CASE ~Spooled(c)
    <3>1. CallEach(c, ks, FALSE)
      BY <1>2, <2>4
    <3>2. FALSE \in BOOLEAN /\ (FALSE => \A k \in ks : <<c, k>> \in durable)
      OBVIOUS
    <3> QED
      BY <1>2, <2>1, <2>2, <3>1, <3>2, EachKeeps
  <2> QED
    BY <2>3, <2>4
<1> QED
  BY <1>1, <1>2 DEF Poll

\* The rest of the invariant, when the cluster and the forms stay as they are.
LEMMA AnswersEnough ==
  ASSUME DurableInv, AnswersKept, form' \in [Calls -> AllForms], UNCHANGED <<item, durable>>
  PROVE  DurableInv'
BY DEF DurableInv, TypeOK, Grounded, SuccessMeansDurable, AnswersKept

-----------------------------------------------------------------------------
(* One lemma for each action. *)

\* A call that starts is of one of the forms.
LEMMA FormTyped ==
  ASSUME TypeOK, NEW c \in Calls, NEW f \in Forms, NEW ks, MayStart(c, f, ks)
  PROVE  form' \in [Calls -> AllForms]
BY DurableAssumption DEF TypeOK, MayStart

\* The stages of a call's keys after a Move.
Moved(c, ks, name) == [k \in Keys |-> IF k \in ks THEN name ELSE stage[c][k]]

\* What a Move does to the stages of a call.
LEMMA MoveTyped ==
  ASSUME DurableInv, NEW c \in Calls, NEW ks, NEW name \in Stages
  PROVE  /\ Moved(c, ks, name) \in [Keys -> Stages]
         /\ Move(c, ks, name) = [stage EXCEPT ![c] = Moved(c, ks, name)]
         /\ Move(c, ks, name)[c] = Moved(c, ks, name)
         /\ \A k \in Keys : Moved(c, ks, name)[k] = "met" =>
                             <<c, k>> \in durable \/ (k \in ks /\ name = "met")
<1> DEFINE st == Moved(c, ks, name)
<1>1. stage \in [Calls -> [Keys -> Stages]]
  BY DEF DurableInv, TypeOK
<1>2. st \in [Keys -> Stages]
  BY <1>1 DEF Moved
<1>3. Move(c, ks, name) = [stage EXCEPT ![c] = st]
  BY DEF Move, Moved
<1>4. Move(c, ks, name)[c] = st
  BY <1>1, <1>3
<1>5. \A k \in Keys : st[k] = "met" => <<c, k>> \in durable \/ (k \in ks /\ name = "met")
  BY DEF DurableInv, Grounded, Moved
<1> QED
  BY <1>2, <1>3, <1>4, <1>5

\* A call whose keys are all accepted.
LEMMA StartKeeps ==
  ASSUME DurableInv, NEW c \in Calls, NEW f \in Forms, NEW ks \in SUBSET Keys,
         Start(c, f, ks)
  PROVE  DurableInv'
<1>1. form' \in [Calls -> AllForms]
  BY FormTyped DEF Start, DurableInv
<1> DEFINE st == Moved(c, ks, "sent")
<1>2. /\ st \in [Keys -> Stages]
      /\ \A k \in Keys : st[k] = "met" => <<c, k>> \in durable
      /\ Move(c, ks, "sent") = [stage EXCEPT ![c] = st]
      /\ Move(c, ks, "sent")[c] = st
  BY MoveTyped DEF Stages
<1> HIDE DEF st
<1>3. AnswersKept
  BY <1>2, QuietKeeps DEF Start, DurableInv, TypeOK
<1> QED
  BY <1>1, <1>3, AnswersEnough DEF Start

\* A call with keys libcouchbase refuses.
LEMMA StartRefusedKeeps ==
  ASSUME DurableInv, NEW c \in Calls, NEW f \in Forms, NEW ks \in SUBSET Keys,
         StartRefused(c, f, ks)
  PROVE  DurableInv'
<1>1. form' \in [Calls -> AllForms]
  BY FormTyped DEF StartRefused, DurableInv
<1> DEFINE st == Moved(c, ks, "failed")
<1>2. /\ st \in [Keys -> Stages]
      /\ \A k \in Keys : st[k] = "met" => <<c, k>> \in durable
      /\ Move(c, ks, "failed") = [stage EXCEPT ![c] = st]
      /\ Move(c, ks, "failed")[c] = st
  BY MoveTyped DEF Stages
<1> HIDE DEF st
<1>3. stage' = [stage EXCEPT ![c] = st] /\ stage'[c] = st
  BY <1>2 DEF StartRefused
<1>4. cause' \in [Calls -> SUBSET Keys]
  BY DEF StartRefused, DurableInv, TypeOK
<1>5. AnswersKept
  <2>1. CASE f.spooled
    <3>1. CallSpooled(c, st)
      BY <2>1, <1>3 DEF StartRefused
    <3> QED
      BY <3>1, <1>2, <1>3, <1>4, SpooledKeeps
  <2>2. CASE ~f.spooled
    <3>1. CallEach(c, ks, FALSE)
      BY <2>2 DEF StartRefused
    <3>2. FALSE \in BOOLEAN /\ (FALSE => \A k \in ks : <<c, k>> \in durable)
      OBVIOUS
    <3> QED
      BY <3>1, <3>2, <1>2, <1>3, <1>4, EachKeeps
  <2> QED
    BY <2>1, <2>2
<1> QED
  BY <1>1, <1>5, AnswersEnough DEF StartRefused

\* A call that is refused as a whole.
LEMMA StartBailKeeps ==
  ASSUME DurableInv, NEW c \in Calls, NEW f \in Forms, NEW ks \in SUBSET Keys,
         StartBail(c, f, ks)
  PROVE  DurableInv'
<1>1. form' \in [Calls -> AllForms]
  BY FormTyped DEF StartBail, DurableInv
<1>2. AnswersKept
  BY DEF StartBail, AnswersKept, DurableInv, TypeOK, Grounded, SuccessMeansDurable
<1> QED
  BY <1>1, <1>2, AnswersEnough DEF StartBail

\* The cluster changes the item of a key.
LEMMA ChangeKeeps ==
  ASSUME DurableInv, NEW c \in Calls, NEW k \in Keys, Change(c, k)
  PROVE  DurableInv'
<1>1. /\ item' \in [Keys \cup {NullKey} -> [by: Calls \cup {NoCall}, deleted: BOOLEAN,
                                            durable: BOOLEAN]]
      /\ item'[NullKey].by = NoCall
      /\ \A j \in Keys : item'[j].durable => <<item'[j].by, j>> \in durable
  <2>1. CASE item' = [item EXCEPT ![k] = [by |-> c, deleted |-> form[c].delete, durable |-> FALSE]]
    <3>1. form[c].delete \in BOOLEAN
      BY DEF DurableInv, TypeOK, AllForms
    <3>2. NullKey # k
      BY DurableAssumption
    <3> QED
      BY <2>1, <3>1, <3>2 DEF DurableInv, TypeOK, Grounded
  <2>2. CASE UNCHANGED item
    BY <2>2 DEF DurableInv, TypeOK, Grounded
  <2> QED
    BY <2>1, <2>2 DEF Change
<1>2. /\ stage' \in [Calls -> [Keys -> Stages]]
      /\ \A d \in Calls, j \in Keys : stage'[d][j] = "met" => <<d, j>> \in durable
  <2>1. PICK name \in {"changed", "refused"} : stage' = Move(c, {k}, name)
    BY DEF Change
  <2> DEFINE st == Moved(c, {k}, name)
  <2>2. name \in Stages /\ name # "met"
    BY DEF Stages
  <2>3. /\ st \in [Keys -> Stages]
        /\ \A j \in Keys : st[j] = "met" => <<c, j>> \in durable
        /\ stage' = [stage EXCEPT ![c] = st]
    BY <2>1, <2>2, MoveTyped
  <2> HIDE DEF st
  <2> QED
    BY <2>3 DEF DurableInv, TypeOK, Grounded
<1>3. cause' \in [Calls -> SUBSET Keys]
  <2>1. cause' = cause \/ cause' = [cause EXCEPT ![c] = @ \cup {k}]
    BY DEF Change
  <2> QED
    BY <2>1 DEF DurableInv, TypeOK
<1>4. UNCHANGED <<form, told, said, durable>>
  BY DEF Change
<1> QED
  BY <1>1, <1>2, <1>3, <1>4 DEF DurableInv, TypeOK, Grounded, SuccessMeansDurable

\* The cluster makes a change durable.
LEMMA PersistKeeps ==
  ASSUME DurableInv, NEW k \in Keys, Persist(k)
  PROVE  DurableInv'
<1>1. item[k].by \in Calls /\ NullKey # k
  BY DurableAssumption DEF Persist, DurableInv, TypeOK
<1>2. /\ item' \in [Keys \cup {NullKey} -> [by: Calls \cup {NoCall}, deleted: BOOLEAN,
                                            durable: BOOLEAN]]
      /\ item'[NullKey].by = NoCall
      /\ durable' \subseteq Calls \X Keys /\ durable \subseteq durable'
      /\ \A j \in Keys : item'[j].durable => <<item'[j].by, j>> \in durable'
  <2>1. /\ item' = [item EXCEPT ![k].durable = TRUE]
        /\ durable' = durable \cup {<<item[k].by, k>>}
    BY DEF Persist
  <2>2. item \in [Keys \cup {NullKey} -> [by: Calls \cup {NoCall}, deleted: BOOLEAN,
                                         durable: BOOLEAN]]
    BY DEF DurableInv, TypeOK
  <2>3. \A j \in Keys \cup {NullKey} :
          /\ item'[j].by = item[j].by
          /\ j # k => item'[j] = item[j]
    BY <2>1, <2>2
  <2>4. durable' \subseteq Calls \X Keys /\ durable \subseteq durable'
    BY <2>1, <1>1 DEF DurableInv, TypeOK
  <2>5. \A j \in Keys : item'[j].durable => <<item'[j].by, j>> \in durable'
    BY <2>1, <2>3 DEF DurableInv, Grounded
  <2>6. item' \in [Keys \cup {NullKey} -> [by: Calls \cup {NoCall}, deleted: BOOLEAN,
                                          durable: BOOLEAN]]
    BY <2>1, <2>2
  <2>7. item'[NullKey].by = NoCall
    BY <2>3 DEF DurableInv, Grounded
  <2> QED
    BY <2>4, <2>5, <2>6, <2>7
<1>3. UNCHANGED <<form, stage, told, said, cause>>
  BY DEF Persist
<1> QED
  BY <1>2, <1>3 DEF DurableInv, TypeOK, Grounded, SuccessMeansDurable

\* The first operation on a key is answered.
LEMMA AnswerKeeps ==
  ASSUME DurableInv, NEW c \in Calls, NEW k \in Keys, Answer(c, k)
  PROVE  DurableInv'
<1> DEFINE st == [stage[c] EXCEPT ![k] = IF stage[c][k] = "changed" THEN "stored" ELSE "failed"]
<1>1. /\ st \in [Keys -> Stages]
      /\ \A j \in Keys : st[j] = "met" => <<c, j>> \in durable
  BY DEF DurableInv, TypeOK, Grounded, Stages
<1>2. UNCHANGED <<item, form, durable>> /\ form' \in [Calls -> AllForms]
  BY DEF Answer, DurableInv, TypeOK
<1>3. cause \in [Calls -> SUBSET Keys]
  BY DEF DurableInv, TypeOK
<1>4. \/ stage' = [stage EXCEPT ![c] = st] /\ UNCHANGED <<told, said, cause>>
      \/ InterceptSpooled(c, st)
      \/ stage[c][k] = "changed" /\ InterceptOne(c, k, TRUE)
      \/ stage[c][k] = "refused" /\ InterceptOne(c, k, FALSE)
  BY DEF Answer
<1> HIDE DEF st
<1>5. CASE stage' = [stage EXCEPT ![c] = st] /\ UNCHANGED <<told, said, cause>>
  <2>1. AnswersKept
    BY <1>1, <1>3, <1>5, QuietKeeps
  <2> QED
    BY <1>2, <2>1, AnswersEnough
<1>6. CASE InterceptSpooled(c, st)
  <2> DEFINE ks == {j \in Keys : st[j] = "stored"}
  <2>1. CASE ks # {}
    <3>1. Poll(c, ks, st)
      BY <1>6, <2>1 DEF InterceptSpooled
    <3>2. ks \in SUBSET Keys
      OBVIOUS
    <3> HIDE DEF ks
    <3>3. AnswersKept
      BY <1>1, <3>1, <3>2, PollKeeps
    <3> QED
      BY <1>2, <3>3, AnswersEnough
  <2>2. CASE ks = {}
    <3>1. stage' = [stage EXCEPT ![c] = st] /\ CallSpooled(c, st) /\ UNCHANGED cause
      BY <1>6, <2>2 DEF InterceptSpooled
    <3>2. AnswersKept
      BY <1>1, <1>3, <3>1, SpooledKeeps
    <3> QED
      BY <1>2, <3>2, AnswersEnough
  <2> QED
    BY <2>1, <2>2
<1>7. CASE stage[c][k] = "changed" /\ InterceptOne(c, k, TRUE)
  <2> DEFINE s0 == stage[c]
             ks == {k}
  <2>1. Poll(c, ks, s0)
    BY <1>7 DEF InterceptOne
  <2>2. /\ s0 \in [Keys -> Stages] /\ ks \in SUBSET Keys
        /\ \A j \in Keys : s0[j] = "met" => <<c, j>> \in durable
    BY DEF DurableInv, TypeOK, Grounded
  <2> HIDE DEF s0, ks
  <2>3. AnswersKept
    BY <2>1, <2>2, PollKeeps
  <2> QED
    BY <1>2, <2>3, AnswersEnough
<1>8. CASE stage[c][k] = "refused" /\ InterceptOne(c, k, FALSE)
  <2> DEFINE ks == {k}
             s1 == Moved(c, ks, "failed")
  <2>1. stage' = Move(c, ks, "failed") /\ CallEach(c, ks, FALSE) /\ UNCHANGED cause
    BY <1>8 DEF InterceptOne
  <2>2. ks \in SUBSET Keys
    OBVIOUS
  <2> HIDE DEF ks
  <2>3. /\ s1 \in [Keys -> Stages] /\ stage' = [stage EXCEPT ![c] = s1]
        /\ \A j \in Keys : s1[j] = "met" => <<c, j>> \in durable
    BY <2>1, MoveTyped DEF Stages
  <2>4. FALSE \in BOOLEAN /\ (FALSE => \A j \in ks : <<c, j>> \in durable)
    OBVIOUS
  <2> HIDE DEF s1
  <2>5. AnswersKept
    BY <1>3, <2>1, <2>2, <2>3, <2>4, EachKeeps
  <2> QED
    BY <1>2, <2>5, AnswersEnough
<1> QED
  BY <1>4, <1>5, <1>6, <1>7, <1>8

\* A poll that succeeds has found the change of this call, and it durable.
LEMMA PollTells ==
  ASSUME DurableInv, NEW c \in Calls, NEW k \in Keys, Found(c, k),
         item[PolledKey(c, k)].durable
  PROVE  <<c, k>> \in durable
<1>1. PolledKey(c, k) \in {k, NullKey}
  BY DEF PolledKey
<1>2. item[PolledKey(c, k)].by = c
  BY DEF Found
<1>3. item[NullKey].by # c
  BY DurableAssumption DEF DurableInv, Grounded
<1>4. PolledKey(c, k) = k
  BY <1>1, <1>2, <1>3
<1> QED
  BY <1>2, <1>4 DEF DurableInv, Grounded

\* The poll for a key is answered.
LEMMA PollAnswerKeeps ==
  ASSUME DurableInv, NEW c \in Calls, NEW k \in Keys, NEW ok \in BOOLEAN, PollAnswer(c, k, ok)
  PROVE  DurableInv'
<1> DEFINE name == IF ok THEN "met" ELSE "unmet"
           ks == {k}
           st == Moved(c, ks, name)
<1>1. stage' = Move(c, ks, name) /\ UNCHANGED <<item, form, durable>>
  BY DEF PollAnswer
<1>2. ok => <<c, k>> \in durable
  BY PollTells, Zenon DEF PollAnswer
<1>3. ks \in SUBSET Keys /\ (ok => \A j \in ks : <<c, j>> \in durable)
  BY <1>2
<1>4. name \in Stages /\ (name = "met" => ok)
  BY DEF Stages
<1>5. cause' \in [Calls -> SUBSET Keys]
  <2>1. cause' = cause \/ cause' = [cause EXCEPT ![c] = @ \cup {k}]
    BY DEF PollAnswer
  <2> QED
    BY <2>1 DEF DurableInv, TypeOK
<1>6. \/ CallEach(c, ks, ok)
      \/ UNCHANGED <<told, said>>
      \/ CallSpooled(c, stage'[c])
  BY Zenon DEF PollAnswer
<1> HIDE DEF name, ks
<1>7. /\ st \in [Keys -> Stages]
      /\ stage' = [stage EXCEPT ![c] = st] /\ stage'[c] = st
      /\ \A j \in Keys : st[j] = "met" => <<c, j>> \in durable
  <2>1. /\ st \in [Keys -> Stages]
        /\ Move(c, ks, name) = [stage EXCEPT ![c] = st]
        /\ Move(c, ks, name)[c] = st
        /\ \A j \in Keys : st[j] = "met" =>
                            <<c, j>> \in durable \/ (j \in ks /\ name = "met")
    BY <1>4, MoveTyped
  <2> HIDE DEF st
  <2> QED
    BY <1>1, <1>3, <1>4, <2>1
<1> HIDE DEF st
<1>8. AnswersKept
  BY <1>3, <1>5, <1>6, <1>7, QuietKeeps, SpooledKeeps, EachKeeps
<1>9. form' \in [Calls -> AllForms]
  BY <1>1 DEF DurableInv, TypeOK
<1> QED
  BY <1>1, <1>8, <1>9, AnswersEnough

-----------------------------------------------------------------------------

\* The invariant holds at the start, ...
LEMMA DurableInit == Init => DurableInv
<1> SUFFICES ASSUME Init
             PROVE  DurableInv
  OBVIOUS
<1>1. TypeOK
  BY DEF Init, TypeOK, NoForm, AllForms, Stages
<1>2. Grounded /\ SuccessMeansDurable
  BY DEF Init, Grounded, SuccessMeansDurable
<1> QED
  BY <1>1, <1>2 DEF DurableInv

\* ... and every step keeps it.
LEMMA DurableStep == DurableInv /\ [Next]_vars => DurableInv'
<1> SUFFICES ASSUME DurableInv, [Next]_vars
             PROVE  DurableInv'
  OBVIOUS
<1>1. ASSUME NEW c \in Calls, NEW f \in Forms, NEW ks \in SUBSET Keys,
             Start(c, f, ks) \/ StartRefused(c, f, ks) \/ StartBail(c, f, ks)
      PROVE  DurableInv'
  BY <1>1, StartKeeps, StartRefusedKeeps, StartBailKeeps
<1>2. ASSUME NEW c \in Calls, NEW k \in Keys,
             Change(c, k) \/ Answer(c, k)
      PROVE  DurableInv'
  BY <1>2, ChangeKeeps, AnswerKeeps
<1>3. ASSUME NEW c \in Calls, NEW k \in Keys, NEW ok \in BOOLEAN, PollAnswer(c, k, ok)
      PROVE  DurableInv'
  BY <1>3, PollAnswerKeeps
<1>4. ASSUME NEW k \in Keys, Persist(k)
      PROVE  DurableInv'
  BY <1>4, PersistKeeps
<1>5. CASE UNCHANGED vars
  BY <1>5 DEF vars, DurableInv, TypeOK, Grounded, SuccessMeansDurable
<1> QED
  BY <1>1, <1>2, <1>3, <1>4, <1>5, Zenon DEF Next, Application, Cluster

\* Every variable of DurableOps keeps its type, for any calls, keys and forms.
THEOREM DurableTypeCorrect == Spec => []TypeOK
<1>1. DurableInv => TypeOK
  BY DEF DurableInv
<1> QED
  BY <1>1, DurableInit, DurableStep, PTL DEF Spec

\* However many calls of whatever form run side by side on the same keys, a
\* key is reported a success only if this call's change of it was durable.
THEOREM SuccessMeansDurableCorrect == Spec => []SuccessMeansDurable
<1>1. DurableInv => SuccessMeansDurable
  BY DEF DurableInv
<1> QED
  BY <1>1, DurableInit, DurableStep, PTL DEF Spec

-----------------------------------------------------------------------------
(* What is said of a key is said for a reason.                              *)

\* The cluster's last change of a key is that of its call's form; a stage that
\* ends badly has a reason; and an error is said only of such a key.
Blame ==
  /\ \A c \in Calls, k \in Keys :
       item[k].by = c => stage[c][k] # "none" /\ item[k].deleted = form[c].delete
  /\ \A c \in Calls, k \in Keys :
       PollsRight(c) /\ stage[c][k] \in {"refused", "failed", "unmet"} => k \in cause[c]

Asked(st) == {k \in Keys : st[k] # "none"}
Finished(st) == {k \in Keys : st[k] \in {"failed", "met", "unmet"}}

\* What the callback has to be told of a key.
Word(name) == IF name = "met" THEN "ok"
              ELSE IF name \in {"failed", "unmet"} THEN "error" ELSE "none"

\* A call is polled for when its first operation has answered for all keys.
InPhase(st) ==
  \/ /\ \A k \in Keys : st[k] \in {"none", "sent", "changed", "refused", "stored", "failed"}
     /\ \E k \in Keys : st[k] \in {"sent", "changed", "refused"}
  \/ \A k \in Keys : st[k] \in {"none", "failed", "polling", "met", "unmet"}

\* The callback was told n times of a call whose keys are at stages st, with an
\* error if e, and of the keys what sd says.
AllTold(st, n, e, sd, m) ==
  /\ n = m /\ (e <=> SpooledError(st))
  /\ \A k \in Keys : sd[k] = Word(st[k])

NoneTold(n, e, sd) == n = 0 /\ ~e /\ \A k \in Keys : sd[k] = "none"

Agree(spooled, st, n, e, sd) ==
  IF Asked(st) = {} THEN n \in 0..1 /\ (e <=> n = 1) /\ \A k \in Keys : sd[k] = "none"
  ELSE IF ~spooled THEN /\ \A k \in Keys : st[k] # "stored"
                        /\ AllTold(st, n, e, sd, Cardinality(Finished(st)))
  ELSE /\ InPhase(st)
       /\ IF Asked(st) = Finished(st) THEN AllTold(st, n, e, sd, 1) ELSE NoneTold(n, e, sd)

\* Every call was told what its form wants, so far.
Answers ==
  \A c \in Calls : Agree(Spooled(c), stage[c], told[c].calls, told[c].err, said[c])

\* The keys of a call are those at some stage.
LEMMA MineIs ==
  ASSUME TypeOK, NEW c \in Calls
  PROVE  /\ Mine(c) = Asked(stage[c])
         /\ Started(c) <=> Asked(stage[c]) # {}
BY DEF Mine, Started, InStage, Asked

\* What a call was told, as AnswerInv has it.
AnswerOf(c) == Agree(Spooled(c), stage[c], told[c].calls, told[c].err, said[c])

\* The inductive invariant of what is said.
AnswerInv == DurableInv /\ Blame /\ Answers

\* A step that concerns one call leaves the others as they were.
OthersKept(c) ==
  \A d \in Calls \ {c} : /\ form'[d] = form[d] /\ stage'[d] = stage[d]
                         /\ told'[d] = told[d] /\ said'[d] = said[d]

\* A step that keeps to one call has only that call to account for.
LEMMA OneAnswers ==
  ASSUME Answers, NEW c \in Calls, OthersKept(c), AnswerOf(c)'
  PROVE  Answers'
<1> SUFFICES ASSUME NEW d \in Calls
             PROVE  AnswerOf(d)'
  BY DEF Answers, AnswerOf
<1>1. CASE d = c
  BY <1>1
<1>2. CASE d # c
  <2>1. AnswerOf(d)
    BY DEF Answers, AnswerOf
  <2> QED
    BY <1>2, <2>1 DEF OthersKept, AnswerOf, Spooled
<1> QED
  BY <1>1, <1>2

\* The reasons to fail stay, and a stage that has become bad has got one.
LEMMA BlameKeeps ==
  ASSUME DurableInv, Blame, NEW c \in Calls, NEW st \in [Keys -> Stages],
         stage' = [stage EXCEPT ![c] = st],
         UNCHANGED item,
         \A d \in Calls : form'[d] = form[d] \/ (d = c /\ ~Started(c)),
         \A d \in Calls : cause[d] \subseteq cause'[d] \/ (d = c /\ ~Started(c)),
         \A k \in Keys : st[k] = "none" => stage[c][k] = "none",
         \A k \in Keys : PollsRight(c)' /\ st[k] \in {"refused", "failed", "unmet"} =>
                         k \in cause'[c] \/ stage[c][k] \in {"refused", "failed", "unmet"}
  PROVE  Blame'
<1>0. stage \in [Calls -> [Keys -> Stages]]
  BY DEF DurableInv, TypeOK
<1>1. \A d \in Calls, k \in Keys : stage'[d][k] = IF d = c THEN st[k] ELSE stage[d][k]
  BY <1>0
<1>2. ~Started(c) => \A k \in Keys : stage[c][k] = "none"
  BY DEF Started, Mine, InStage
<1>3. ASSUME NEW d \in Calls, NEW k \in Keys, item'[k].by = d
      PROVE  stage'[d][k] # "none" /\ item'[k].deleted = form'[d].delete
  <2>1. stage[d][k] # "none" /\ item[k].deleted = form[d].delete
    BY <1>3 DEF Blame
  <2>2. form'[d] = form[d]
    BY <1>2, <2>1
  <2> QED
    BY <1>1, <2>1, <2>2
<1>4. ASSUME NEW d \in Calls, NEW k \in Keys, PollsRight(d)',
             stage'[d][k] \in {"refused", "failed", "unmet"}
      PROVE  k \in cause'[d]
  <2>1. CASE stage[d][k] \in {"refused", "failed", "unmet"}
    <3>1. form'[d] = form[d]
      BY <1>2, <2>1
    <3>2. PollsRight(d)
      BY <1>4, <3>1 DEF PollsRight, Spooled
    <3>3. k \in cause[d]
      BY <2>1, <3>2 DEF Blame
    <3> QED
      BY <1>2, <2>1, <3>3
  <2>2. CASE stage[d][k] \notin {"refused", "failed", "unmet"}
    <3>1. d = c /\ st[k] \in {"refused", "failed", "unmet"}
      BY <1>1, <1>4, <2>2
    <3> QED
      BY <1>4, <2>2, <3>1
  <2> QED
    BY <2>1, <2>2
<1> QED
  BY <1>3, <1>4 DEF Blame

\* Nothing is heard of a call whose keys are not all finished.
LEMMA QuietAnswers ==
  ASSUME NEW c \in Calls, NEW st \in [Keys -> Stages],
         stage \in [Calls -> [Keys -> Stages]],
         NoneTold(told[c].calls, told[c].err, said[c]),
         stage' = [stage EXCEPT ![c] = st],
         UNCHANGED <<told, said>>, form'[c].spooled, InPhase(st),
         Asked(st) # {}, Asked(st) # Finished(st)
  PROVE  AnswerOf(c)'
<1>1. stage'[c] = st
  OBVIOUS
<1> QED
  BY <1>1 DEF AnswerOf, Agree, Spooled

\* The callback of a spooled call is called when they are, ...
LEMMA SpooledAnswers ==
  ASSUME TypeOK, NEW c \in Calls, NEW st \in [Keys -> Stages],
         told[c].calls = 0, stage' = [stage EXCEPT ![c] = st],
         CallSpooled(c, st), form'[c].spooled,
         Asked(st) # {}, \A k \in Keys : st[k] \in {"none", "failed", "met", "unmet"}
  PROVE  AnswerOf(c)'
<1>1. stage'[c] = st
  BY DEF TypeOK
<1>2. Asked(st) = Finished(st) /\ InPhase(st)
  BY DEF Asked, Finished, InPhase
<1>3. told'[c].calls = 1 /\ (told'[c].err <=> SpooledError(st))
  <2>1. PICK e : e = SpooledError(st)
    OBVIOUS
  <2>2. told' = [told EXCEPT ![c] = [calls |-> @.calls + 1, err |-> e]]
    BY <2>1 DEF CallSpooled
  <2>3. told'[c] = [calls |-> told[c].calls + 1, err |-> e]
    BY <2>2 DEF TypeOK
  <2>4. told'[c].calls = 1 /\ told'[c].err = e
    BY <2>3
  <2> QED
    BY <2>1, <2>4
<1>4. \A k \in Keys : said'[c][k] = Word(st[k])
  BY DEF CallSpooled, TypeOK, Word, Good
<1>5. AllTold(st, told'[c].calls, told'[c].err, said'[c], 1)
  BY <1>3, <1>4 DEF AllTold
<1> QED
  BY <1>1, <1>2, <1>5 DEF AnswerOf, Agree, Spooled

\* ... that of another for each of the keys that are now.
LEMMA EachAnswers ==
  ASSUME TypeOK, NEW c \in Calls, NEW ks \in SUBSET Keys, NEW name, NEW ok \in BOOLEAN,
         ok => name = "met", ~ok => name \in {"failed", "unmet"},
         AllTold(stage[c], told[c].calls, told[c].err, said[c],
                 Cardinality(Finished(stage[c]))),
         ks \cap Finished(stage[c]) = {}, ks # {},
         \A k \in Keys : stage[c][k] # "stored",
         stage' = Move(c, ks, name), CallEach(c, ks, ok), ~form'[c].spooled
  PROVE  AnswerOf(c)'
<1> DEFINE st == Moved(c, ks, name)
<1>1. stage'[c] = st
  BY DEF Move, Moved, TypeOK
<1>2. /\ Asked(st) # {} /\ Finished(st) = Finished(stage[c]) \cup ks
      /\ \A k \in Keys : st[k] # "stored"
  BY DEF Asked, Finished, Moved
<1>3. Cardinality(Finished(st)) = Cardinality(Finished(stage[c])) + Cardinality(ks)
  <2>1. IsFiniteSet(ks) /\ IsFiniteSet(Finished(stage[c]))
    BY FS_Subset, DurableAssumption DEF Finished
  <2> DEFINE S == Finished(stage[c])
  <2>2. S \cap ks = {}
    OBVIOUS
  <2> HIDE DEF S
  <2>3. Cardinality(S \cup ks) = Cardinality(S) + Cardinality(ks) - Cardinality(S \cap ks)
    BY <2>1, FS_Union DEF S
  <2>4. Cardinality(S \cap ks) = 0
    BY <2>2, FS_EmptySet
  <2>5. Cardinality(S) \in Nat /\ Cardinality(ks) \in Nat
    BY <2>1, FS_CardinalityType DEF S
  <2> QED
    BY <1>2, <2>3, <2>4, <2>5 DEF S
<1>4. /\ told'[c].calls = Cardinality(Finished(st))
      /\ told'[c].err <=> told[c].err \/ ~ok
  <2>1. PICK e : e = (told[c].err \/ ~ok)
    OBVIOUS
  <2>2. told' = [told EXCEPT ![c] = [calls |-> @.calls + Cardinality(ks), err |-> e]]
    BY <2>1, Zenon DEF CallEach
  <2>3. told'[c] = [calls |-> told[c].calls + Cardinality(ks), err |-> e]
    BY <2>2 DEF TypeOK
  <2>4. /\ told'[c].calls = told[c].calls + Cardinality(ks)
        /\ told'[c].err = e
    BY <2>3
  <2>5. told[c].calls = Cardinality(Finished(stage[c]))
    BY DEF AllTold
  <2>6. told'[c].calls = Cardinality(Finished(st))
    BY <1>3, <2>4, <2>5
  <2>7. told'[c].err <=> told[c].err \/ ~ok
    BY <2>1, <2>4, Zenon
  <2> QED
    BY <2>6, <2>7
<1>5. SpooledError(st) <=> told[c].err \/ ~ok
  <2>1. told[c].err <=> SpooledError(stage[c])
    BY DEF AllTold
  <2>2. SpooledError(st) <=> SpooledError(stage[c]) \/ ~ok
    BY DEF SpooledError, Moved, Finished
  <2> QED
    BY <2>1, <2>2, Zenon
<1>6. \A k \in Keys : said'[c][k] = Word(st[k])
  BY DEF CallEach, TypeOK, Word, Moved, AllTold
<1>7. AllTold(st, told'[c].calls, told'[c].err, said'[c], Cardinality(Finished(st)))
  BY <1>4, <1>5, <1>6, Zenon DEF AllTold
<1> HIDE DEF st
<1> QED
  BY <1>1, <1>2, <1>7, Zenon DEF AnswerOf, Agree, Spooled

-----------------------------------------------------------------------------
(* The actions again, and what the application is told. *)

\* A call that starts has done nothing and was told nothing.
LEMMA MayStartMeans ==
  ASSUME AnswerInv, NEW c \in Calls, NEW f \in Forms, NEW ks \in SUBSET Keys,
         MayStart(c, f, ks)
  PROVE  /\ f \in AllForms /\ form'[c] = f
         /\ ~Started(c) /\ \A k \in Keys : stage[c][k] = "none"
         /\ Finished(stage[c]) = {}
         /\ NoneTold(told[c].calls, told[c].err, said[c])
         /\ AllTold(stage[c], told[c].calls, told[c].err, said[c],
                    Cardinality(Finished(stage[c])))
         /\ \A d \in Calls : form'[d] = form[d] \/ d = c
<1>1. TypeOK
  BY DEF AnswerInv, DurableInv
<1>2. f \in AllForms /\ form'[c] = f /\ \A d \in Calls : form'[d] = form[d] \/ d = c
  BY <1>1, DurableAssumption DEF MayStart, TypeOK
<1>3. ~Started(c) /\ \A k \in Keys : stage[c][k] = "none"
  BY DEF MayStart, Started, Mine, InStage
<1>4. Finished(stage[c]) = {} /\ Asked(stage[c]) = {}
  BY <1>3 DEF Finished, Asked
<1>5. NoneTold(told[c].calls, told[c].err, said[c])
  <2>1. told[c].calls = 0
    BY DEF MayStart
  <2>2. (told[c].err <=> told[c].calls = 1) /\ \A k \in Keys : said[c][k] = "none"
    BY <1>4 DEF AnswerInv, Answers, Agree
  <2> QED
    BY <2>1, <2>2 DEF NoneTold
<1>6. ~SpooledError(stage[c]) /\ Cardinality(Finished(stage[c])) = 0
  BY <1>3, <1>4, FS_EmptySet DEF SpooledError
<1>7. AllTold(stage[c], told[c].calls, told[c].err, said[c], Cardinality(Finished(stage[c])))
  BY <1>3, <1>5, <1>6 DEF AllTold, NoneTold, Word
<1> QED
  BY <1>2, <1>3, <1>4, <1>5, <1>7

\* Calling the callback concerns one call only.
LEMMA CallsOne ==
  ASSUME TypeOK, NEW c \in Calls, NEW st,
         \A d \in Calls \ {c} : form'[d] = form[d], stage' = [stage EXCEPT ![c] = st],
         \/ UNCHANGED <<told, said>>
         \/ CallSpooled(c, st)
         \/ \E ks \in SUBSET Keys, ok \in BOOLEAN : CallEach(c, ks, ok)
  PROVE  OthersKept(c)
<1> SUFFICES ASSUME NEW d \in Calls \ {c}
             PROVE  told'[d] = told[d] /\ said'[d] = said[d]
  BY DEF OthersKept, TypeOK
<1>1. CASE UNCHANGED <<told, said>>
  BY <1>1
<1>2. CASE CallSpooled(c, st)
  <2>1. /\ \E r : told' = [told EXCEPT ![c] = r]
        /\ \E r : said' = [said EXCEPT ![c] = r]
    BY <1>2, Zenon DEF CallSpooled
  <2> QED
    BY <2>1 DEF TypeOK
<1>3. ASSUME NEW ks \in SUBSET Keys, NEW ok \in BOOLEAN, CallEach(c, ks, ok)
      PROVE  told'[d] = told[d] /\ said'[d] = said[d]
  <2>1. /\ \E r : told' = [told EXCEPT ![c] = r]
        /\ \E r : said' = [said EXCEPT ![c] = r]
    BY <1>3, Zenon DEF CallEach
  <2> QED
    BY <2>1 DEF TypeOK
<1> QED
  BY <1>1, <1>2, <1>3

\* A call whose keys are all accepted: nothing is said yet.
LEMMA StartAnswers ==
  ASSUME AnswerInv, NEW c \in Calls, NEW f \in Forms, NEW ks \in SUBSET Keys,
         Start(c, f, ks)
  PROVE  Blame' /\ Answers'
<1> DEFINE st == Moved(c, ks, "sent")
<1>1. /\ f \in AllForms /\ form'[c] = f
      /\ ~Started(c) /\ \A k \in Keys : stage[c][k] = "none"
      /\ NoneTold(told[c].calls, told[c].err, said[c])
      /\ AllTold(stage[c], told[c].calls, told[c].err, said[c],
                 Cardinality(Finished(stage[c])))
      /\ \A d \in Calls : form'[d] = form[d] \/ d = c
  BY MayStartMeans DEF Start
<1>2. /\ st \in [Keys -> Stages] /\ stage' = [stage EXCEPT ![c] = st]
      /\ \A k \in Keys : st[k] = IF k \in ks THEN "sent" ELSE "none"
  <2>1. /\ st \in [Keys -> Stages]
        /\ Move(c, ks, "sent") = [stage EXCEPT ![c] = st]
    BY MoveTyped DEF AnswerInv, Stages
  <2>2. \A k \in Keys : st[k] = IF k \in ks THEN "sent" ELSE "none"
    BY <1>1 DEF Moved
  <2> QED
    BY <2>1, <2>2 DEF Start
<1> HIDE DEF st
<1>3. UNCHANGED <<item, told, said, durable, cause>> /\ ks # {}
  BY DEF Start
<1>4. Blame'
  BY <1>1, <1>2, <1>3, BlameKeeps DEF AnswerInv
<1>5. AnswerOf(c)'
  <2>1. stage'[c] = st
    BY <1>2 DEF AnswerInv, DurableInv, TypeOK
  <2>2. /\ Asked(st) # {} /\ Finished(st) = {} /\ InPhase(st)
        /\ ~SpooledError(st) /\ \A k \in Keys : st[k] # "stored"
    BY <1>2, <1>3 DEF Asked, Finished, InPhase, SpooledError
  <2>3. Cardinality(Finished(st)) = 0
    BY <2>2, FS_EmptySet
  <2>4. NoneTold(told'[c].calls, told'[c].err, said'[c])
    BY <1>1, <1>3
  <2>5. AllTold(st, told'[c].calls, told'[c].err, said'[c], Cardinality(Finished(st)))
    BY <1>2, <2>2, <2>3, <2>4 DEF AllTold, NoneTold, Word
  <2> QED
    BY <2>1, <2>2, <2>4, <2>5, Zenon DEF AnswerOf, Agree
<1>6. OthersKept(c)
  BY <1>1, <1>2, <1>3, CallsOne DEF AnswerInv, DurableInv
<1> QED
  BY <1>4, <1>5, <1>6, OneAnswers DEF AnswerInv

\* A call with keys libcouchbase refuses: they are failures by then.
LEMMA StartRefusedAnswers ==
  ASSUME AnswerInv, NEW c \in Calls, NEW f \in Forms, NEW ks \in SUBSET Keys,
         StartRefused(c, f, ks)
  PROVE  Blame' /\ Answers'
<1> DEFINE st == Moved(c, ks, "failed")
<1>1. /\ f \in AllForms /\ form'[c] = f
      /\ ~Started(c) /\ \A k \in Keys : stage[c][k] = "none"
      /\ Finished(stage[c]) = {}
      /\ NoneTold(told[c].calls, told[c].err, said[c])
      /\ AllTold(stage[c], told[c].calls, told[c].err, said[c],
                 Cardinality(Finished(stage[c])))
      /\ \A d \in Calls : form'[d] = form[d] \/ d = c
  BY MayStartMeans DEF StartRefused
<1>2. /\ st \in [Keys -> Stages] /\ stage' = [stage EXCEPT ![c] = st]
      /\ stage' = Move(c, ks, "failed") /\ stage'[c] = st
      /\ \A k \in Keys : st[k] = IF k \in ks THEN "failed" ELSE "none"
  <2>1. /\ st \in [Keys -> Stages]
        /\ Move(c, ks, "failed") = [stage EXCEPT ![c] = st]
        /\ Move(c, ks, "failed")[c] = st
    BY MoveTyped DEF AnswerInv, Stages
  <2>2. \A k \in Keys : st[k] = IF k \in ks THEN "failed" ELSE "none"
    BY <1>1 DEF Moved
  <2> QED
    BY <2>1, <2>2 DEF StartRefused
<1> HIDE DEF st
<1>3. /\ UNCHANGED <<item, durable>> /\ ks # {}
      /\ cause' = [cause EXCEPT ![c] = ks]
      /\ TypeOK /\ DurableInv
  BY DEF StartRefused, AnswerInv, DurableInv
<1>4. Blame'
  <2>1. \A d \in Calls : cause[d] \subseteq cause'[d] \/ d = c
    BY <1>3 DEF TypeOK
  <2>2. \A k \in Keys : st[k] \in {"refused", "failed", "unmet"} => k \in cause'[c]
    BY <1>2, <1>3 DEF TypeOK
  <2> QED
    BY <1>1, <1>2, <1>3, <2>1, <2>2, BlameKeeps DEF AnswerInv
<1>5. CASE f.spooled
  <2>1. CallSpooled(c, st)
    BY <1>2, <1>5 DEF StartRefused
  <2>2. Asked(st) # {} /\ \A k \in Keys : st[k] \in {"none", "failed", "met", "unmet"}
    BY <1>2, <1>3 DEF Asked
  <2>3. told[c].calls = 0
    BY <1>1 DEF NoneTold
  <2>4. AnswerOf(c)'
    BY <1>1, <1>2, <1>3, <1>5, <2>1, <2>2, <2>3, SpooledAnswers
  <2>5. OthersKept(c)
    BY <1>1, <1>2, <1>3, <2>1, CallsOne
  <2> QED
    BY <1>4, <2>4, <2>5, OneAnswers DEF AnswerInv
<1>6. CASE ~f.spooled
  <2>1. PICK no \in BOOLEAN : no = FALSE
    OBVIOUS
  <2>2. CallEach(c, ks, no)
    BY <1>6, <2>1 DEF StartRefused
  <2>3. ks \cap Finished(stage[c]) = {} /\ \A k \in Keys : stage[c][k] # "stored"
    BY <1>1
  <2>4. PICK name : name = "failed"
    OBVIOUS
  <2>5. AnswerOf(c)'
    BY <1>1, <1>2, <1>3, <1>6, <2>1, <2>2, <2>3, <2>4, EachAnswers
  <2>6. OthersKept(c)
    BY <1>1, <1>2, <1>3, <2>2, CallsOne
  <2> QED
    BY <1>4, <2>5, <2>6, OneAnswers DEF AnswerInv
<1> QED
  BY <1>5, <1>6

\* A call that is refused as a whole is told so.
LEMMA StartBailAnswers ==
  ASSUME AnswerInv, NEW c \in Calls, NEW f \in Forms, NEW ks \in SUBSET Keys,
         StartBail(c, f, ks)
  PROVE  Blame' /\ Answers'
<1>1. /\ ~Started(c) /\ \A k \in Keys : stage[c][k] = "none"
      /\ NoneTold(told[c].calls, told[c].err, said[c])
      /\ \A d \in Calls : form'[d] = form[d] \/ d = c
  BY MayStartMeans DEF StartBail
<1>2. /\ UNCHANGED <<item, stage, said, durable, cause>>
      /\ told' = [told EXCEPT ![c] = [calls |-> 1, err |-> TRUE]]
      /\ TypeOK
  BY DEF StartBail, AnswerInv, DurableInv
<1>3. Blame'
  <2>1. \A d \in Calls, k \in Keys : stage[d][k] # "none" => form'[d] = form[d]
    BY <1>1
  <2> QED
    BY <1>2, <2>1 DEF AnswerInv, Blame, PollsRight, Spooled
<1>4. AnswerOf(c)'
  <2>1. told'[c].calls = 1 /\ told'[c].err
    BY <1>2 DEF TypeOK
  <2>2. Asked(stage'[c]) = {} /\ \A k \in Keys : said'[c][k] = "none"
    BY <1>1, <1>2 DEF Asked, NoneTold
  <2>3. told'[c].calls \in 0..1 /\ (told'[c].err <=> told'[c].calls = 1)
    BY <2>1
  <2> QED
    BY <2>2, <2>3, Zenon DEF AnswerOf, Agree
<1>5. OthersKept(c)
  BY <1>1, <1>2 DEF OthersKept, TypeOK
<1> QED
  BY <1>3, <1>4, <1>5, OneAnswers DEF AnswerInv

\* What the cluster does to an item is seen in its stage before anything is
\* said of it.
LEMMA ChangeAnswers ==
  ASSUME AnswerInv, NEW c \in Calls, NEW k \in Keys, Change(c, k)
  PROVE  Blame' /\ Answers'
<1>1. PICK name \in {"changed", "refused"} : stage' = Move(c, {k}, name)
  BY DEF Change
<1> DEFINE st == Moved(c, {k}, name)
<1>2. /\ st \in [Keys -> Stages] /\ stage' = [stage EXCEPT ![c] = st] /\ stage'[c] = st
      /\ \A j \in Keys : st[j] = IF j = k THEN name ELSE stage[c][j]
  <2>1. name \in Stages
    BY DEF Stages
  <2>2. \A j \in Keys : st[j] = IF j = k THEN name ELSE stage[c][j]
    BY DEF Moved
  <2> QED
    BY <1>1, <2>1, <2>2, MoveTyped DEF AnswerInv
<1> HIDE DEF st
<1>3. /\ UNCHANGED <<form, told, said, durable>> /\ stage[c][k] = "sent"
      /\ TypeOK /\ DurableInv
  BY DEF Change, AnswerInv, DurableInv
<1>4. Blame'
  <2>1. /\ \A d \in Calls, j \in Keys :
             item'[j].by = d => stage'[d][j] # "none" /\ item'[j].deleted = form'[d].delete
    <3>1. CASE item' = [item EXCEPT ![k] =
                 [by |-> c, deleted |-> form[c].delete, durable |-> FALSE]]
      <4>1. \A j \in Keys : /\ j = k => item'[j].by = c /\ item'[j].deleted = form[c].delete
                            /\ j # k => item'[j] = item[j]
        BY <3>1, <1>3 DEF TypeOK
      <4>2. \A d \in Calls, j \in Keys :
              stage'[d][j] = IF d = c /\ j = k THEN name ELSE stage[d][j]
        BY <1>2, <1>3 DEF TypeOK
      <4> QED
        BY <4>1, <4>2, <1>3 DEF AnswerInv, Blame
    <3>2. CASE UNCHANGED item
      BY <3>2, <1>2, <1>3 DEF AnswerInv, Blame, TypeOK
    <3> QED
      BY <3>1, <3>2 DEF Change
  <2>2. \A d \in Calls, j \in Keys :
          PollsRight(d)' /\ stage'[d][j] \in {"refused", "failed", "unmet"} => j \in cause'[d]
    <3> SUFFICES ASSUME NEW d \in Calls, NEW j \in Keys, PollsRight(d)',
                        stage'[d][j] \in {"refused", "failed", "unmet"}
                 PROVE  j \in cause'[d]
      OBVIOUS
    <3>1. \/ stage' = Move(c, {k}, "changed") /\ UNCHANGED cause
          \/ stage' = Move(c, {k}, "refused") /\ cause' = [cause EXCEPT ![c] = @ \cup {k}]
      BY DEF Change
    <3>2. cause[d] \subseteq cause'[d]
      BY <3>1, <1>3 DEF TypeOK
    <3>3. CASE d = c /\ j = k
      <4>1. stage' # Move(c, {k}, "changed")
        BY <3>3, <1>3 DEF Move, TypeOK
      <4> QED
        BY <4>1, <3>1, <3>3, <1>3 DEF TypeOK
    <3>4. CASE ~(d = c /\ j = k)
      <4>1. stage'[d][j] = stage[d][j]
        BY <3>4, <1>2, <1>3 DEF TypeOK
      <4>2. PollsRight(d)
        BY <1>3 DEF PollsRight, Spooled
      <4> QED
        BY <4>1, <4>2, <3>2 DEF AnswerInv, Blame
    <3> QED
      BY <3>3, <3>4
  <2> QED
    BY <2>1, <2>2 DEF Blame
<1>5. AnswerOf(c)'
  <2>1. AnswerOf(c) /\ Asked(stage[c]) # {}
    BY <1>3 DEF AnswerInv, Answers, AnswerOf, Asked
  <2>2. /\ Asked(st) # {} /\ Finished(st) = Finished(stage[c])
        /\ SpooledError(st) <=> SpooledError(stage[c])
        /\ \A j \in Keys : Word(st[j]) = Word(stage[c][j])
        /\ (\A j \in Keys : stage[c][j] # "stored") => \A j \in Keys : st[j] # "stored"
    BY <1>2, <1>3 DEF Asked, Finished, SpooledError, Word
  <2>3. Asked(st) # Finished(st) /\ Asked(stage[c]) # Finished(stage[c])
    BY <1>2, <1>3 DEF Asked, Finished
  <2>4. InPhase(stage[c]) => InPhase(st)
    BY <1>2, <1>3 DEF InPhase
  <2>5. \A n, m, e, sd : AllTold(stage[c], n, e, sd, m) => AllTold(st, n, e, sd, m)
    BY <2>2 DEF AllTold
  <2> QED
    BY <1>2, <1>3, <2>1, <2>2, <2>3, <2>4, <2>5 DEF AnswerOf, Agree, Spooled
<1>6. OthersKept(c)
  BY <1>2, <1>3, CallsOne
<1> QED
  BY <1>4, <1>5, <1>6, OneAnswers DEF AnswerInv

\* To make a change durable says nothing to the application.
LEMMA PersistAnswers ==
  ASSUME AnswerInv, NEW k \in Keys, Persist(k)
  PROVE  Blame' /\ Answers'
<1>1. /\ item' = [item EXCEPT ![k].durable = TRUE]
      /\ UNCHANGED <<form, stage, told, said, cause>>
  BY DEF Persist
<1>2. \A j \in Keys : item'[j].by = item[j].by /\ item'[j].deleted = item[j].deleted
  BY <1>1 DEF AnswerInv, DurableInv, TypeOK
<1>3. Blame'
  BY <1>1, <1>2 DEF AnswerInv, Blame, PollsRight, Spooled
<1>4. Answers'
  BY <1>1 DEF AnswerInv, Answers, Spooled
<1> QED
  BY <1>3, <1>4

\* A spooled call is polled for: everything is still to be said, or, if
\* libcouchbase refuses the poll, is said now.
LEMMA PollSpooledAnswers ==
  ASSUME AnswerInv, NEW c \in Calls, NEW ks \in SUBSET Keys, NEW st \in [Keys -> Stages],
         Spooled(c), UNCHANGED <<item, form>>,
         NoneTold(told[c].calls, told[c].err, said[c]),
         ks # {}, \A j \in Keys : j \in ks <=> st[j] = "stored",
         \A j \in Keys : st[j] \in {"none", "stored", "failed"},
         \A j \in Keys : st[j] = "none" => stage[c][j] = "none",
         \A j \in Keys : st[j] = "failed" => stage[c][j] \in {"failed", "refused"},
         Poll(c, ks, st)
  PROVE  Blame' /\ Answers'
<1> DEFINE After(name) == [j \in Keys |-> IF j \in ks THEN name ELSE st[j]]
           sp == After("polling")
           su == After("unmet")
<1>1. /\ TypeOK /\ DurableInv /\ form'[c].spooled
      /\ \A d \in Calls : form'[d] = form[d]
  BY DEF AnswerInv, DurableInv, Spooled
<1>2. CASE stage' = [stage EXCEPT ![c] = sp] /\ UNCHANGED <<told, said, cause>>
  <2>1. /\ sp \in [Keys -> Stages]
        /\ \A j \in Keys : sp[j] = IF j \in ks THEN "polling" ELSE st[j]
    BY DEF Stages
  <2> HIDE DEF sp
  <2>2. InPhase(sp) /\ Asked(sp) # {} /\ Asked(sp) # Finished(sp)
    BY <2>1 DEF InPhase, Asked, Finished
  <2>3. stage \in [Calls -> [Keys -> Stages]]
    BY <1>1 DEF TypeOK
  <2>4. AnswerOf(c)'
    BY <1>1, <1>2, <2>1, <2>2, <2>3, QuietAnswers
  <2>5. OthersKept(c)
    BY <1>1, <1>2, CallsOne
  <2>6. Blame'
    <3>1. \A j \in Keys : sp[j] = "none" => stage[c][j] = "none"
      BY <2>1
    <3>2. \A j \in Keys : sp[j] \in {"refused", "failed", "unmet"} =>
                           stage[c][j] \in {"refused", "failed", "unmet"}
      BY <2>1
    <3> QED
      BY <1>1, <1>2, <2>1, <3>1, <3>2, BlameKeeps DEF AnswerInv
  <2> QED
    BY <2>4, <2>5, <2>6, OneAnswers DEF AnswerInv
<1>3. CASE /\ stage' = [stage EXCEPT ![c] = su]
           /\ cause' = [cause EXCEPT ![c] = @ \cup ks]
           /\ CallSpooled(c, su)
  <2>1. /\ su \in [Keys -> Stages]
        /\ \A j \in Keys : su[j] = IF j \in ks THEN "unmet" ELSE st[j]
    BY DEF Stages
  <2> HIDE DEF su
  <2>2. Asked(su) # {} /\ \A j \in Keys : su[j] \in {"none", "failed", "met", "unmet"}
    BY <2>1 DEF Asked
  <2>3. told[c].calls = 0
    BY DEF NoneTold
  <2>4. AnswerOf(c)'
    BY <1>1, <1>3, <2>1, <2>2, <2>3, SpooledAnswers
  <2>5. OthersKept(c)
    BY <1>1, <1>3, CallsOne
  <2>6. Blame'
    <3>1. \A j \in Keys : su[j] = "none" => stage[c][j] = "none"
      BY <2>1
    <3>2. \A j \in Keys : su[j] \in {"refused", "failed", "unmet"} =>
                           j \in cause'[c] \/ stage[c][j] \in {"refused", "failed", "unmet"}
      BY <2>1, <1>1, <1>3 DEF TypeOK
    <3>3. \A d \in Calls : cause[d] \subseteq cause'[d]
      BY <1>1, <1>3 DEF TypeOK
    <3>4. /\ \A d \in Calls : form'[d] = form[d] \/ (d = c /\ ~Started(c))
          /\ \A d \in Calls : cause[d] \subseteq cause'[d] \/ (d = c /\ ~Started(c))
          /\ \A j \in Keys : PollsRight(c)' /\ su[j] \in {"refused", "failed", "unmet"} =>
                              j \in cause'[c] \/ stage[c][j] \in {"refused", "failed", "unmet"}
      BY <1>1, <3>2, <3>3
    <3>5. Blame /\ DurableInv /\ item' = item /\ stage' = [stage EXCEPT ![c] = su]
      BY <1>3 DEF AnswerInv
    <3> QED
      BY <2>1, <3>1, <3>4, <3>5, BlameKeeps
  <2> QED
    BY <2>4, <2>5, <2>6, OneAnswers DEF AnswerInv
<1> QED
  BY <1>2, <1>3 DEF Poll

\* The callback is told of one key, whose poll has succeeded or failed or was
\* refused, or which was not stored.
LEMMA OneKeyAnswers ==
  ASSUME AnswerInv, NEW c \in Calls, NEW k \in Keys, ~Spooled(c), UNCHANGED <<item, form>>,
         NEW name, NEW ok \in BOOLEAN,
         ok => name = "met", ~ok => name \in {"failed", "unmet"},
         stage[c][k] \in {"changed", "refused", "polling"},
         stage' = Move(c, {k}, name), CallEach(c, {k}, ok),
         \A d \in Calls : cause[d] \subseteq cause'[d],
         ~ok => k \in cause'[c] \/ stage[c][k] = "refused" \/ ~PollsRight(c)
  PROVE  Blame' /\ Answers'
<1> DEFINE ks == {k}
           st == Moved(c, ks, name)
<1>1. /\ TypeOK /\ DurableInv /\ ~form'[c].spooled /\ ~form[c].spooled
      /\ \A d \in Calls : form'[d] = form[d]
  BY DEF AnswerInv, DurableInv, Spooled
<1>2. name \in Stages
  BY DEF Stages
<1>3. /\ st \in [Keys -> Stages] /\ stage' = [stage EXCEPT ![c] = st]
      /\ \A j \in Keys : st[j] = IF j = k THEN name ELSE stage[c][j]
  <2>1. st \in [Keys -> Stages] /\ Move(c, ks, name) = [stage EXCEPT ![c] = st]
    BY <1>1, <1>2, MoveTyped
  <2>2. \A j \in Keys : st[j] = IF j = k THEN name ELSE stage[c][j]
    BY DEF Moved
  <2> QED
    BY <2>1, <2>2
<1> HIDE DEF st
<1>4. /\ AllTold(stage[c], told[c].calls, told[c].err, said[c],
                 Cardinality(Finished(stage[c])))
      /\ \A j \in Keys : stage[c][j] # "stored"
  <2>1. AnswerOf(c) /\ Asked(stage[c]) # {}
    BY DEF AnswerInv, Answers, AnswerOf, Asked
  <2> QED
    BY <1>1, <2>1, Zenon DEF AnswerOf, Agree, Spooled
<1>5. ks \in SUBSET Keys /\ ks # {} /\ ks \cap Finished(stage[c]) = {}
  BY DEF Finished
<1>6. stage' = Move(c, ks, name) /\ CallEach(c, ks, ok)
  OBVIOUS
<1> HIDE DEF ks
<1>7. AnswerOf(c)'
  BY <1>1, <1>4, <1>5, <1>6, EachAnswers
<1>8. OthersKept(c)
  BY <1>1, <1>3, <1>5, <1>6, CallsOne
<1>9. Blame'
  <2>1. \A j \in Keys : st[j] = "none" => stage[c][j] = "none"
    BY <1>3
  <2>2. PollsRight(c)' <=> PollsRight(c)
    BY <1>1 DEF PollsRight, Spooled
  <2>3. \A j \in Keys : PollsRight(c)' /\ st[j] \in {"refused", "failed", "unmet"} =>
                         j \in cause'[c] \/ stage[c][j] \in {"refused", "failed", "unmet"}
    BY <1>3, <2>2
  <2>4. /\ \A d \in Calls : form'[d] = form[d] \/ (d = c /\ ~Started(c))
        /\ \A d \in Calls : cause[d] \subseteq cause'[d] \/ (d = c /\ ~Started(c))
    BY <1>1
  <2>5. Blame /\ DurableInv /\ item' = item
    BY DEF AnswerInv
  <2> QED
    BY <1>3, <2>1, <2>3, <2>4, <2>5, BlameKeeps
<1> QED
  BY <1>7, <1>8, <1>9, OneAnswers DEF AnswerInv

\* A key of a call that is not spooled is polled for.
LEMMA PollOneAnswers ==
  ASSUME AnswerInv, NEW c \in Calls, NEW k \in Keys, ~Spooled(c), UNCHANGED <<item, form>>,
         stage[c][k] = "changed", Poll(c, {k}, stage[c])
  PROVE  Blame' /\ Answers'
<1>1. /\ TypeOK /\ DurableInv /\ ~form'[c].spooled /\ ~form[c].spooled
      /\ \A d \in Calls : form'[d] = form[d]
  BY DEF AnswerInv, DurableInv, Spooled
<1>2. CASE stage' = Move(c, {k}, "polling") /\ UNCHANGED <<told, said, cause>>
  <2> DEFINE ks == {k}
             st == Moved(c, ks, "polling")
  <2>1. /\ st \in [Keys -> Stages] /\ stage' = [stage EXCEPT ![c] = st]
        /\ \A j \in Keys : st[j] = IF j = k THEN "polling" ELSE stage[c][j]
    <3>1. /\ st \in [Keys -> Stages] /\ Move(c, ks, "polling") = [stage EXCEPT ![c] = st]
      BY <1>1, MoveTyped DEF Stages
    <3>2. \A j \in Keys : st[j] = IF j = k THEN "polling" ELSE stage[c][j]
      BY DEF Moved
    <3> QED
      BY <1>2, <3>1, <3>2
  <2> HIDE DEF st
  <2>2. Blame'
    <3>1. \A j \in Keys : st[j] = "none" => stage[c][j] = "none"
      BY <2>1
    <3>2. \A j \in Keys : st[j] \in {"refused", "failed", "unmet"} =>
                           stage[c][j] \in {"refused", "failed", "unmet"}
      BY <2>1
    <3> QED
      BY <1>1, <1>2, <2>1, <3>1, <3>2, BlameKeeps DEF AnswerInv
  <2>3. AnswerOf(c)'
    <3>1. AnswerOf(c) /\ Asked(stage[c]) # {}
      BY DEF AnswerInv, Answers, AnswerOf, Asked
    <3>2. /\ AllTold(stage[c], told[c].calls, told[c].err, said[c],
                     Cardinality(Finished(stage[c])))
          /\ \A j \in Keys : stage[c][j] # "stored"
      BY <1>1, <3>1, Zenon DEF AnswerOf, Agree, Spooled
    <3>3. stage'[c] = st
      BY <1>1, <2>1 DEF TypeOK
    <3>4. /\ Asked(st) # {} /\ Finished(st) = Finished(stage[c])
          /\ SpooledError(st) <=> SpooledError(stage[c])
          /\ \A j \in Keys : Word(st[j]) = Word(stage[c][j])
          /\ \A j \in Keys : st[j] # "stored"
      BY <2>1, <3>2 DEF Asked, Finished, SpooledError, Word
    <3>5. AllTold(st, told[c].calls, told[c].err, said[c], Cardinality(Finished(st)))
      BY <3>2, <3>4 DEF AllTold
    <3> QED
      BY <1>1, <1>2, <3>3, <3>4, <3>5, Zenon DEF AnswerOf, Agree, Spooled
  <2>4. OthersKept(c)
    BY <1>1, <1>2, <2>1, CallsOne
  <2> QED
    BY <2>2, <2>3, <2>4, OneAnswers DEF AnswerInv
<1>3. ASSUME NEW no \in BOOLEAN, no = FALSE, stage' = Move(c, {k}, "unmet"),
             cause' = [cause EXCEPT ![c] = @ \cup {k}], CallEach(c, {k}, no)
      PROVE  Blame' /\ Answers'
  <2>1. k \in cause'[c] /\ \A d \in Calls : cause[d] \subseteq cause'[d]
    BY <1>1, <1>3 DEF TypeOK
  <2>2. PICK name : name = "unmet"
    OBVIOUS
  <2> QED
    BY <1>3, <2>1, <2>2, OneKeyAnswers
<1>4. PICK no \in BOOLEAN : no = FALSE
  OBVIOUS
<1>5. \A name : Move(c, {k}, name) = [stage EXCEPT ![c] =
                     [j \in Keys |-> IF j \in {k} THEN name ELSE stage[c][j]]]
  BY DEF Move
<1> QED
  BY <1>2, <1>3, <1>4, <1>5 DEF Poll

\* While a key of a spooled call is on its way nothing was said, and all keys
\* are in the phase that key is in.
LEMMA OnTheWay ==
  ASSUME AnswerInv, NEW c \in Calls, NEW k \in Keys, Spooled(c),
         stage[c][k] \in {"changed", "refused", "polling"}
  PROVE  /\ NoneTold(told[c].calls, told[c].err, said[c])
         /\ IF stage[c][k] = "polling"
              THEN \A j \in Keys : stage[c][j] \in {"none", "failed", "polling", "met", "unmet"}
              ELSE \A j \in Keys : stage[c][j] \in
                                     {"none", "sent", "changed", "refused", "stored", "failed"}
<1>1. Asked(stage[c]) # {} /\ Asked(stage[c]) # Finished(stage[c])
  BY DEF Asked, Finished
<1>2. AnswerOf(c)
  BY DEF AnswerInv, Answers, AnswerOf
<1>3. InPhase(stage[c]) /\ NoneTold(told[c].calls, told[c].err, said[c])
  BY <1>1, <1>2, Zenon DEF AnswerOf, Agree
<1> QED
  BY <1>3 DEF InPhase

\* The first operation on a key is answered: a failure is said, a success polled for.
LEMMA AnswerAnswers ==
  ASSUME AnswerInv, NEW c \in Calls, NEW k \in Keys, Answer(c, k)
  PROVE  Blame' /\ Answers'
<1> DEFINE st == [stage[c] EXCEPT ![k] = IF stage[c][k] = "changed" THEN "stored" ELSE "failed"]
<1>1. /\ UNCHANGED <<item, form, durable>> /\ TypeOK /\ DurableInv
      /\ stage[c][k] \in {"changed", "refused"}
      /\ \A d \in Calls : form'[d] = form[d]
  BY DEF Answer, AnswerInv, DurableInv
<1>2. CASE ~Spooled(c) /\ stage[c][k] = "changed"
  <2>1. Poll(c, {k}, stage[c])
    BY <1>2 DEF Answer, InterceptOne
  <2> QED
    BY <1>1, <1>2, <2>1, PollOneAnswers
<1>3. CASE ~Spooled(c) /\ stage[c][k] = "refused"
  <2>1. PICK no \in BOOLEAN : no = FALSE
    OBVIOUS
  <2>2. PICK name : name = "failed"
    OBVIOUS
  <2>3. stage' = Move(c, {k}, name) /\ CallEach(c, {k}, no) /\ UNCHANGED cause
    BY <1>3, <2>1, <2>2 DEF Answer, InterceptOne
  <2> QED
    BY <1>1, <1>3, <2>1, <2>2, <2>3, OneKeyAnswers
<1>4. CASE Spooled(c)
  <2>1. /\ NoneTold(told[c].calls, told[c].err, said[c])
        /\ \A j \in Keys : stage[c][j] \in
                             {"none", "sent", "changed", "refused", "stored", "failed"}
    BY <1>1, <1>4, OnTheWay
  <2>2. /\ st \in [Keys -> Stages]
        /\ \A j \in Keys : j # k => st[j] = stage[c][j]
        /\ st[k] \in {"stored", "failed"}
        /\ st[k] = "failed" => stage[c][k] = "refused"
    BY <1>1 DEF TypeOK, Stages
  <2>3. \/ /\ \E j \in Keys : st[j] \in {"sent", "changed", "refused"}
           /\ stage' = [stage EXCEPT ![c] = st] /\ UNCHANGED <<told, said, cause>>
        \/ /\ ~\E j \in Keys : st[j] \in {"sent", "changed", "refused"}
           /\ InterceptSpooled(c, st)
    BY <1>4 DEF Answer
  <2> HIDE DEF st
  <2>4. /\ \A j \in Keys : st[j] \in {"none", "sent", "changed", "refused", "stored", "failed"}
        /\ \A j \in Keys : st[j] = "none" => stage[c][j] = "none"
        /\ \A j \in Keys : st[j] = "failed" => stage[c][j] \in {"failed", "refused"}
        /\ \A j \in Keys : st[j] \in {"refused", "failed", "unmet"} =>
                            stage[c][j] \in {"refused", "failed", "unmet"}
    BY <2>1, <2>2
  <2>5. form'[c].spooled
    BY <1>1, <1>4 DEF Spooled
  <2>6. ASSUME stage' = [stage EXCEPT ![c] = st], UNCHANGED cause
        PROVE  Blame'
    <3>1. /\ \A d \in Calls : form'[d] = form[d] \/ (d = c /\ ~Started(c))
          /\ \A d \in Calls : cause[d] \subseteq cause'[d] \/ (d = c /\ ~Started(c))
          /\ \A j \in Keys : PollsRight(c)' /\ st[j] \in {"refused", "failed", "unmet"} =>
                              j \in cause'[c] \/ stage[c][j] \in {"refused", "failed", "unmet"}
      BY <1>1, <2>4, <2>6
    <3>2. Blame /\ DurableInv /\ item' = item
      BY <1>1 DEF AnswerInv
    <3> QED
      BY <2>2, <2>4, <2>6, <3>1, <3>2, BlameKeeps
  <2>7. CASE /\ \E j \in Keys : st[j] \in {"sent", "changed", "refused"}
             /\ stage' = [stage EXCEPT ![c] = st] /\ UNCHANGED <<told, said, cause>>
    <3>1. InPhase(st) /\ Asked(st) # {} /\ Asked(st) # Finished(st)
      BY <2>4, <2>7 DEF InPhase, Asked, Finished
    <3>2. stage \in [Calls -> [Keys -> Stages]]
      BY <1>1 DEF TypeOK
    <3>3. AnswerOf(c)'
      BY <2>1, <2>2, <2>5, <2>7, <3>1, <3>2, QuietAnswers
    <3>4. OthersKept(c)
      BY <1>1, <2>7, CallsOne
    <3> QED
      BY <2>6, <2>7, <3>3, <3>4, OneAnswers DEF AnswerInv
  <2>8. CASE /\ ~\E j \in Keys : st[j] \in {"sent", "changed", "refused"}
             /\ InterceptSpooled(c, st)
    <3> DEFINE ks == {j \in Keys : st[j] = "stored"}
    <3>1. \A j \in Keys : st[j] \in {"none", "stored", "failed"}
      BY <2>4, <2>8
    <3>2. CASE ks # {}
      <4>1. Poll(c, ks, st) /\ ks \in SUBSET Keys /\ \A j \in Keys : j \in ks <=> st[j] = "stored"
        BY <2>8, <3>2 DEF InterceptSpooled
      <4> HIDE DEF ks
      <4> QED
        BY <1>1, <1>4, <2>1, <2>2, <2>4, <3>1, <3>2, <4>1, PollSpooledAnswers
    <3>3. CASE ks = {}
      <4>1. stage' = [stage EXCEPT ![c] = st] /\ CallSpooled(c, st) /\ UNCHANGED cause
        BY <2>8, <3>3 DEF InterceptSpooled
      <4>2. Asked(st) # {} /\ \A j \in Keys : st[j] \in {"none", "failed", "met", "unmet"}
        BY <2>2, <3>1, <3>3 DEF Asked
      <4>3. told[c].calls = 0
        BY <2>1 DEF NoneTold
      <4>4. AnswerOf(c)'
        BY <1>1, <2>2, <2>5, <4>1, <4>2, <4>3, SpooledAnswers
      <4>5. OthersKept(c)
        BY <1>1, <4>1, CallsOne
      <4> QED
        BY <2>6, <4>1, <4>4, <4>5, OneAnswers DEF AnswerInv
    <3> QED
      BY <3>2, <3>3
  <2> QED
    BY <2>3, <2>7, <2>8
<1> QED
  BY <1>1, <1>2, <1>3, <1>4

\* A poll that fails has a reason, unless it was for the wrong thing.
LEMMA PollFailsFor ==
  ASSUME AnswerInv, NEW c \in Calls, NEW k \in Keys, NEW ok \in BOOLEAN, PollAnswer(c, k, ok)
  PROVE  /\ \A d \in Calls : cause[d] \subseteq cause'[d]
         /\ ~ok => k \in cause'[c] \/ ~PollsRight(c)
<1>1. cause \in [Calls -> SUBSET Keys]
  BY DEF AnswerInv, DurableInv, TypeOK
<1>2. cause' = IF ~ok /\ (Found(c, k) \/ item[k].by # c)
                 THEN [cause EXCEPT ![c] = @ \cup {k}] ELSE cause
  BY DEF PollAnswer
<1>3. \A d \in Calls : cause[d] \subseteq cause'[d]
  BY <1>1, <1>2
<1>4. ASSUME ~ok, PollsRight(c)
      PROVE  k \in cause'[c]
  <2>1. item[k].by = c => Found(c, k)
    <3> SUFFICES ASSUME item[k].by = c
                 PROVE  Found(c, k)
      OBVIOUS
    <3>1. item[k].deleted = form[c].delete
      BY DEF AnswerInv, Blame
    <3>2. PolledKey(c, k) = k
      BY <1>4 DEF PollsRight, PolledKey
    <3>3. ChecksDelete(c) <=> form[c].delete
      BY <1>4 DEF PollsRight, ChecksDelete
    <3>4. form[c].delete \in BOOLEAN
      BY DEF AnswerInv, DurableInv, TypeOK, AllForms
    <3>5. PICK x : x = ChecksDelete(c)
      OBVIOUS
    <3>6. x \in BOOLEAN
      BY <3>5, Zenon DEF ChecksDelete
    <3>7. x = form[c].delete
      BY <3>3, <3>4, <3>5, <3>6, Zenon
    <3> QED
      BY <3>1, <3>2, <3>5, <3>7, Zenon DEF Found
  <2> QED
    BY <1>1, <1>2, <1>4, <2>1
<1> QED
  BY <1>3, <1>4

\* The poll for a key is answered, and that is said.
LEMMA PollAnswerAnswers ==
  ASSUME AnswerInv, NEW c \in Calls, NEW k \in Keys, NEW ok \in BOOLEAN, PollAnswer(c, k, ok)
  PROVE  Blame' /\ Answers'
<1>1. PICK name : name = IF ok THEN "met" ELSE "unmet"
  OBVIOUS
<1>2. /\ UNCHANGED <<item, form, durable>> /\ TypeOK /\ DurableInv
      /\ stage[c][k] = "polling" /\ stage' = Move(c, {k}, name)
      /\ \A d \in Calls : form'[d] = form[d]
  BY <1>1, Zenon DEF PollAnswer, AnswerInv, DurableInv
<1>3. /\ \A d \in Calls : cause[d] \subseteq cause'[d]
      /\ ~ok => k \in cause'[c] \/ ~PollsRight(c)
  BY PollFailsFor
<1>4. (ok => name = "met") /\ (~ok => name \in {"failed", "unmet"})
  BY <1>1
<1>5. CASE ~Spooled(c)
  <2>1. CallEach(c, {k}, ok)
    BY <1>5, Zenon DEF PollAnswer
  <2> QED
    BY <1>2, <1>3, <1>4, <1>5, <2>1, OneKeyAnswers
<1>6. CASE Spooled(c)
  <2> DEFINE ks == {k}
             st == Moved(c, ks, name)
  <2>1. /\ NoneTold(told[c].calls, told[c].err, said[c])
        /\ \A j \in Keys : stage[c][j] \in {"none", "failed", "polling", "met", "unmet"}
    BY <1>2, <1>6, OnTheWay
  <2>2. name \in Stages
    BY <1>1 DEF Stages
  <2>3. /\ st \in [Keys -> Stages] /\ stage' = [stage EXCEPT ![c] = st] /\ stage'[c] = st
        /\ \A j \in Keys : st[j] = IF j = k THEN name ELSE stage[c][j]
    <3>1. /\ st \in [Keys -> Stages] /\ Move(c, ks, name) = [stage EXCEPT ![c] = st]
          /\ Move(c, ks, name)[c] = st
      BY <1>2, <2>2, MoveTyped
    <3>2. \A j \in Keys : st[j] = IF j = k THEN name ELSE stage[c][j]
      BY DEF Moved
    <3> QED
      BY <1>2, <3>1, <3>2
  <2> HIDE DEF st
  <2>4. Blame'
    <3>1. \A j \in Keys : st[j] = "none" => stage[c][j] = "none"
      BY <1>1, <2>3
    <3>2. PollsRight(c)' <=> PollsRight(c)
      BY <1>2 DEF PollsRight, Spooled
    <3>3. \A j \in Keys : PollsRight(c)' /\ st[j] \in {"refused", "failed", "unmet"} =>
                           j \in cause'[c] \/ stage[c][j] \in {"refused", "failed", "unmet"}
      BY <1>1, <1>3, <2>3, <3>2
    <3>4. /\ \A d \in Calls : form'[d] = form[d] \/ (d = c /\ ~Started(c))
          /\ \A d \in Calls : cause[d] \subseteq cause'[d] \/ (d = c /\ ~Started(c))
      BY <1>2, <1>3
    <3>5. Blame /\ DurableInv /\ item' = item
      BY <1>2 DEF AnswerInv
    <3> QED
      BY <2>3, <3>1, <3>3, <3>4, <3>5, BlameKeeps
  <2>5. form'[c].spooled
    BY <1>2, <1>6 DEF Spooled
  <2>6. CASE InStage(c, {"polling"}) # {k}
    <3>1. UNCHANGED <<told, said>>
      BY <1>6, <2>6, Zenon DEF PollAnswer
    <3>2. PICK j \in Keys : j # k /\ stage[c][j] = "polling"
      BY <1>2, <2>6 DEF InStage
    <3>3. InPhase(st) /\ Asked(st) # {} /\ Asked(st) # Finished(st)
      <4>1. \A i \in Keys : st[i] \in {"none", "failed", "polling", "met", "unmet"}
        BY <1>1, <2>1, <2>3
      <4>2. st[j] = "polling"
        BY <2>3, <3>2
      <4>3. j \in Asked(st) /\ j \notin Finished(st)
        BY <4>2 DEF Asked, Finished
      <4> QED
        BY <4>1, <4>3 DEF InPhase
    <3>4. stage \in [Calls -> [Keys -> Stages]]
      BY <1>2 DEF TypeOK
    <3>5. AnswerOf(c)'
      BY <2>1, <2>3, <2>5, <3>1, <3>3, <3>4, QuietAnswers
    <3>6. OthersKept(c)
      BY <1>2, <2>3, <3>1, CallsOne
    <3> QED
      BY <2>4, <3>5, <3>6, OneAnswers DEF AnswerInv
  <2>7. CASE InStage(c, {"polling"}) = {k}
    <3>1. CallSpooled(c, st)
      BY <1>6, <2>3, <2>7, Zenon DEF PollAnswer
    <3>2. Asked(st) # {} /\ \A j \in Keys : st[j] \in {"none", "failed", "met", "unmet"}
      BY <1>1, <2>1, <2>3, <2>7 DEF Asked, InStage
    <3>3. told[c].calls = 0
      BY <2>1 DEF NoneTold
    <3>4. AnswerOf(c)'
      BY <1>2, <2>3, <2>5, <3>1, <3>2, <3>3, SpooledAnswers
    <3>5. OthersKept(c)
      BY <1>2, <2>3, <3>1, CallsOne
    <3> QED
      BY <2>4, <3>4, <3>5, OneAnswers DEF AnswerInv
  <2> QED
    BY <2>6, <2>7
<1> QED
  BY <1>5, <1>6

\* AnswerInv holds at the start, ...
LEMMA AnswerInit == Init => AnswerInv
<1> SUFFICES ASSUME Init
             PROVE  Blame /\ Answers
  BY DurableInit DEF AnswerInv
<1>1. Blame
  <2>1. \A k \in Keys : item[k].by = NoCall
    BY DEF Init
  <2>2. \A c \in Calls, k \in Keys : stage[c][k] = "none"
    BY DEF Init
  <2> QED
    BY <2>1, <2>2, DurableAssumption DEF Blame
<1>2. Answers
  <2> SUFFICES ASSUME NEW c \in Calls
               PROVE  Agree(Spooled(c), stage[c], told[c].calls, told[c].err, said[c])
    BY DEF Answers
  <2>1. Asked(stage[c]) = {} /\ \A k \in Keys : said[c][k] = "none"
    BY DEF Init, Asked
  <2>2. told[c].calls = 0 /\ ~told[c].err
    BY DEF Init
  <2>3. told[c].calls \in 0..1 /\ (told[c].err <=> told[c].calls = 1)
    BY <2>2
  <2> QED
    BY <2>1, <2>3, Zenon DEF Agree
<1> QED
  BY <1>1, <1>2

\* ... and every step keeps it.
LEMMA AnswerStep == AnswerInv /\ [Next]_vars => AnswerInv'
<1> SUFFICES ASSUME AnswerInv, [Next]_vars
             PROVE  Blame' /\ Answers'
  BY DurableStep DEF AnswerInv
<1>1. ASSUME NEW c \in Calls, NEW f \in Forms, NEW ks \in SUBSET Keys,
             Start(c, f, ks) \/ StartRefused(c, f, ks) \/ StartBail(c, f, ks)
      PROVE  Blame' /\ Answers'
  BY <1>1, StartAnswers, StartRefusedAnswers, StartBailAnswers
<1>2. ASSUME NEW c \in Calls, NEW k \in Keys, Change(c, k) \/ Answer(c, k)
      PROVE  Blame' /\ Answers'
  BY <1>2, ChangeAnswers, AnswerAnswers
<1>3. ASSUME NEW c \in Calls, NEW k \in Keys, NEW ok \in BOOLEAN, PollAnswer(c, k, ok)
      PROVE  Blame' /\ Answers'
  BY <1>3, PollAnswerAnswers
<1>4. ASSUME NEW k \in Keys, Persist(k)
      PROVE  Blame' /\ Answers'
  BY <1>4, PersistAnswers
<1>5. CASE UNCHANGED vars
  BY <1>5 DEF vars, AnswerInv, Blame, PollsRight, Spooled, Answers
<1> QED
  BY <1>1, <1>2, <1>3, <1>4, <1>5, Zenon DEF Next, Application, Cluster

\* The account of what was said and why holds always.
LEMMA AnswerCorrect == Spec => []AnswerInv
  BY AnswerInit, AnswerStep, PTL DEF Spec

\* What Answers says of a call, key by key.
LEMMA SaidIs ==
  ASSUME AnswerInv, NEW c \in Calls
  PROVE  /\ \A k \in Keys : said[c][k] \in {"none", Word(stage[c][k])}
         /\ told[c].calls > 0 /\ Started(c) =>
              /\ \A k \in Keys : said[c][k] = Word(stage[c][k])
              /\ told[c].err <=> SpooledError(stage[c])
<1>1. AnswerOf(c) /\ TypeOK
  BY DEF AnswerInv, Answers, AnswerOf, DurableInv
<1>2. Started(c) <=> Asked(stage[c]) # {}
  BY <1>1, MineIs
<1>3. CASE Asked(stage[c]) = {}
  <2>1. \A k \in Keys : said[c][k] = "none"
    BY <1>1, <1>3, Zenon DEF AnswerOf, Agree
  <2> QED
    BY <1>2, <1>3, <2>1
<1>4. CASE NoneTold(told[c].calls, told[c].err, said[c])
  BY <1>4 DEF NoneTold
<1>5. CASE \E m : AllTold(stage[c], told[c].calls, told[c].err, said[c], m)
  BY <1>5 DEF AllTold
<1> QED
  BY <1>1, <1>3, <1>4, <1>5, Zenon DEF AnswerOf, Agree

\* However many calls run side by side, and whatever goes wrong, a key of a
\* call that polls for the right thing is reported a failure only for a reason.
THEOREM ErrorHasCauseElsewhereCorrect == Spec => []ErrorHasCauseElsewhere
<1>1. AnswerInv => ErrorHasCauseElsewhere
  <2> SUFFICES ASSUME AnswerInv, NEW c \in Calls, NEW k \in Keys,
                      PollsRight(c), said[c][k] = "error"
               PROVE  k \in cause[c]
    BY DEF ErrorHasCauseElsewhere
  <2>1. stage[c][k] \in {"failed", "unmet"}
    BY SaidIs DEF Word
  <2> QED
    BY <2>1 DEF AnswerInv, Blame
<1> QED
  BY <1>1, AnswerCorrect, PTL

\* The callback is given an error if and only if a result has one or there are
\* no results, for any calls, keys and forms.
THEOREM ErrorTellsOfFailureCorrect == Spec => []ErrorTellsOfFailure
<1>1. AnswerInv => ErrorTellsOfFailure
  <2> SUFFICES ASSUME AnswerInv, NEW c \in Calls, told[c].calls > 0
               PROVE  told[c].err <=> Mine(c) = {} \/ \E k \in Mine(c) : said[c][k] = "error"
    BY DEF ErrorTellsOfFailure
  <2>1. Mine(c) = Asked(stage[c]) /\ TypeOK
    BY MineIs DEF AnswerInv, DurableInv
  <2>2. CASE Mine(c) = {}
    <3>1. AnswerOf(c)
      BY DEF AnswerInv, Answers, AnswerOf
    <3>2. told[c].calls \in 0..1 /\ (told[c].err <=> told[c].calls = 1)
      BY <2>1, <2>2, <3>1, Zenon DEF AnswerOf, Agree
    <3>3. told[c].calls = 1
      BY <3>2
    <3> QED
      BY <2>2, <3>2, <3>3, Zenon
  <2>3. CASE Mine(c) # {}
    <3>1. /\ \A k \in Keys : said[c][k] = Word(stage[c][k])
          /\ told[c].err <=> SpooledError(stage[c])
      BY <2>3, SaidIs DEF Started
    <3>2. SpooledError(stage[c]) <=> \E k \in Mine(c) : said[c][k] = "error"
      BY <2>1, <3>1 DEF SpooledError, Word, Asked
    <3> QED
      BY <2>3, <3>1, <3>2, Zenon
  <2> QED
    BY <2>2, <2>3
<1> QED
  BY <1>1, AnswerCorrect, PTL

\* The callback is called once for all keys, or once for each, for any calls,
\* keys and forms, and says something of every key when it has been.
THEOREM AnsweredOnceCorrect == Spec => []AnsweredOnce
<1>1. AnswerInv => AnsweredOnce
  <2> SUFFICES ASSUME AnswerInv, NEW c \in Calls
               PROVE  /\ told[c].calls <= Expected(c)
                      /\ told[c].calls = Expected(c) => Reported(c) = Mine(c)
                      /\ Reported(c) = Mine(c) /\ Started(c) => told[c].calls = Expected(c)
    BY DEF AnsweredOnce
  <2> DEFINE st == stage[c]
  <2>1. /\ Mine(c) = Asked(st) /\ (Started(c) <=> Asked(st) # {}) /\ TypeOK
        /\ AnswerOf(c) /\ told[c].calls \in Nat
    BY MineIs DEF AnswerInv, DurableInv, Answers, AnswerOf, TypeOK
  <2>2. CASE Asked(st) = {}
    <3>1. told[c].calls \in 0..1 /\ \A k \in Keys : said[c][k] = "none"
      BY <2>1, <2>2, Zenon DEF AnswerOf, Agree
    <3>2. Expected(c) = 1 /\ Reported(c) = {}
      BY <2>1, <2>2, <3>1 DEF Expected, Reported
    <3> QED
      BY <2>1, <2>2, <3>1, <3>2
  <2>3. CASE Asked(st) # {} /\ ~Spooled(c)
    <3>1. /\ told[c].calls = Cardinality(Finished(st))
          /\ \A k \in Keys : said[c][k] = Word(st[k])
      BY <2>1, <2>3, Zenon DEF AnswerOf, Agree, AllTold
    <3>2. Expected(c) = Cardinality(Asked(st)) /\ Reported(c) = Finished(st)
      BY <2>1, <2>3, <3>1 DEF Expected, Reported, Word, Finished
    <3>3. IsFiniteSet(Asked(st)) /\ Finished(st) \subseteq Asked(st)
      BY FS_Subset, DurableAssumption DEF Asked, Finished
    <3>4. /\ Cardinality(Finished(st)) <= Cardinality(Asked(st))
          /\ Cardinality(Finished(st)) = Cardinality(Asked(st)) => Finished(st) = Asked(st)
      BY <3>3, FS_Subset, FS_CardinalityType
    <3> QED
      BY <2>1, <3>1, <3>2, <3>4
  <2>4. CASE Asked(st) # {} /\ Spooled(c) /\ Asked(st) = Finished(st)
    <3>1. told[c].calls = 1 /\ \A k \in Keys : said[c][k] = Word(st[k])
      BY <2>1, <2>4, Zenon DEF AnswerOf, Agree, AllTold
    <3>2. Expected(c) = 1 /\ Reported(c) = Finished(st)
      BY <2>4, <3>1 DEF Expected, Reported, Word, Finished
    <3> QED
      BY <2>1, <2>4, <3>1, <3>2
  <2>5. CASE Asked(st) # {} /\ Spooled(c) /\ Asked(st) # Finished(st)
    <3>1. told[c].calls = 0 /\ \A k \in Keys : said[c][k] = "none"
      BY <2>1, <2>5, Zenon DEF AnswerOf, Agree, NoneTold
    <3>2. Expected(c) = 1 /\ Reported(c) = {}
      BY <2>5, <3>1 DEF Expected, Reported
    <3> QED
      BY <2>1, <2>5, <3>1, <3>2
  <2> QED
    BY <2>2, <2>3, <2>4, <2>5
<1> QED
  BY <1>1, AnswerCorrect, PTL

-----------------------------------------------------------------------------
(* Nobody is stuck. *)

\* A key of a call can go on: the cluster or libcouchbase has to answer, or the
\* item that is polled for has still to become durable.
CanGo(c, k) ==
  \/ stage[c][k] \in {"sent", "changed", "refused"}
  \/ /\ stage[c][k] = "polling"
     /\ \/ ~Found(c, k) \/ item[PolledKey(c, k)].durable
        \/ PolledKey(c, k) \in Keys /\ item[PolledKey(c, k)].by # NoCall

\* A call has had its answers exactly if none of its keys can go on: while the
\* application still waits, there is a step of the cluster that is possible and
\* brings it nearer to its answer, and afterwards there is none.
NobodyStuck ==
  \A c \in Calls : Started(c) =>
    (told[c].calls = Expected(c) <=> ~\E k \in Keys : CanGo(c, k))

\* A poll can always end: what it finds can become durable, and what it does
\* not find makes it fail.
LEMMA PollCanGo ==
  ASSUME DurableInv, NEW c \in Calls, NEW k \in Keys
  PROVE  CanGo(c, k) <=> stage[c][k] \in {"sent", "changed", "refused", "polling"}
<1>1. CASE Found(c, k)
  <2>1. item[PolledKey(c, k)].by = c
    BY <1>1 DEF Found
  <2>2. c # NoCall
    BY DurableAssumption
  <2>3. PolledKey(c, k) \in {NullKey, k}
    BY DEF PolledKey
  <2>4. PolledKey(c, k) = k
    BY <2>1, <2>2, <2>3 DEF DurableInv, Grounded
  <2> QED
    BY <2>1, <2>2, <2>4 DEF CanGo
<1>2. CASE ~Found(c, k)
  BY <1>2 DEF CanGo
<1> QED
  BY <1>1, <1>2

\* However calls overwrite each other and whatever fails, the interceptor never
\* waits for results that nobody will bring, nor is it called again when it has
\* answered: every call that is not answered in full has a key the cluster can
\* go on with, and no other has (_interceptEndure and its two callbacks).
THEOREM NobodyStuckCorrect == Spec => []NobodyStuck
<1>1. AnswerInv => NobodyStuck
  <2> SUFFICES ASSUME AnswerInv, NEW c \in Calls, Started(c)
               PROVE  told[c].calls = Expected(c) <=> ~\E k \in Keys : CanGo(c, k)
    BY DEF NobodyStuck
  <2> DEFINE st == stage[c]
             going == {k \in Keys : st[k] \in {"sent", "changed", "refused", "polling"}}
  <2>1. /\ Mine(c) = Asked(st) /\ Asked(st) # {} /\ TypeOK /\ AnswerOf(c)
        /\ DurableInv /\ told[c].calls \in Nat
    BY MineIs DEF AnswerInv, DurableInv, Answers, AnswerOf, TypeOK
  <2>2. (\E k \in Keys : CanGo(c, k)) <=> going # {}
    BY <2>1, PollCanGo
  <2>3. \A k \in Keys : st[k] \in Stages
    BY <2>1 DEF TypeOK
  <2>4. /\ Finished(st) \subseteq Asked(st) /\ going \subseteq Asked(st)
        /\ going \cap Finished(st) = {}
        /\ (\A k \in Keys : st[k] # "stored") => Asked(st) = going \cup Finished(st)
    BY <2>3 DEF Asked, Finished, Stages
  <2>5. CASE ~Spooled(c)
    <3>1. /\ told[c].calls = Cardinality(Finished(st))
          /\ \A k \in Keys : st[k] # "stored"
      BY <2>1, <2>5, Zenon DEF AnswerOf, Agree, AllTold
    <3>2. Expected(c) = Cardinality(Asked(st))
      BY <2>1, <2>5 DEF Expected
    <3>3. IsFiniteSet(Asked(st))
      BY FS_Subset, DurableAssumption DEF Asked
    <3>4. /\ Cardinality(Finished(st)) \in Nat /\ Cardinality(Asked(st)) \in Nat
          /\ Cardinality(Finished(st)) = Cardinality(Asked(st)) => Finished(st) = Asked(st)
      BY <2>4, <3>3, FS_Subset, FS_CardinalityType
    <3>5. Finished(st) = Asked(st) <=> going = {}
      BY <2>4, <3>1
    <3> QED
      BY <2>2, <3>1, <3>2, <3>4, <3>5
  <2>6. CASE Spooled(c)
    <3>1. Expected(c) = 1
      BY <2>6 DEF Expected
    <3>2. InPhase(st) /\ IF Asked(st) = Finished(st) THEN told[c].calls = 1
                                                     ELSE told[c].calls = 0
      BY <2>1, <2>6, Zenon DEF AnswerOf, Agree, AllTold, NoneTold
    <3>3. Asked(st) = Finished(st) <=> going = {}
      <4>1. CASE \E k \in Keys : st[k] \in {"sent", "changed", "refused"}
        <5>1. going # {}
          BY <4>1
        <5> QED
          BY <2>4, <5>1
      <4>2. CASE \A k \in Keys : st[k] \in {"none", "failed", "polling", "met", "unmet"}
        <5>1. \A k \in Keys : st[k] # "stored"
          BY <4>2
        <5> QED
          BY <2>4, <5>1
      <4> QED
        BY <3>2, <4>1, <4>2 DEF InPhase
    <3> QED
      BY <2>2, <3>1, <3>2, <3>3
  <2> QED
    BY <2>5, <2>6
<1> QED
  BY <1>1, AnswerCorrect, PTL
=============================================================================
