----------------------------- MODULE DurableOps -----------------------------
(***************************************************************************)
(* Storing and removing with durability requirements (persist_to,          *)
(* replicate_to) in couchbase.js: two native operations behind the one     *)
(* callback of the application.  _interceptEndure puts itself between the  *)
(* native operation and the callback; of what it is told was changed it    *)
(* polls until the change is durable, or fails, and then it calls the      *)
(* callback.                                                               *)
(*                                                                         *)
(* Calls run side by side and may concern the same keys.  The CAS of an    *)
(* item is stood for by the call that changed it last, and "durable" means *)
(* that the change has met the requirement.                                *)
(*                                                                         *)
(* The native operations are those of Couchnode: spooled ones answer once, *)
(* others once per key; a refused one answers every key with an error      *)
(* before it returns; one with wrong arguments, or with no keys, answers   *)
(* once, with an error and no results.  The cluster is not part of the     *)
(* repository.                                                             *)
(***************************************************************************)
EXTENDS Integers, FiniteSets

CONSTANTS
  Calls,    \* the calls with durability requirements
  Keys,     \* the keys they concern
  NullKey,  \* the key "null" that JavaScript makes of null
  NoCall,   \* not a call
  Forms,    \* the forms the application may use, a subset of AllForms
  Faults    \* what may go wrong in this instance, a subset of AllFaults

AllForms == {f \in [multi: BOOLEAN, spooled: BOOLEAN, delete: BOOLEAN] : f.spooled => f.multi}
AllFaults == {"bail", "refuse", "fail", "late"}

ASSUME DurableAssumption ==
  /\ Forms \subseteq AllForms /\ Faults \subseteq AllFaults
  /\ NoCall \notin Calls /\ NullKey \notin Keys
  /\ IsFiniteSet(Keys)

VARIABLES
  item,     \* the cluster: who changed a key last, was it deleted, is it durable
  form,     \* the form of each call
  stage,    \* what has become of each call's keys
  told,     \* the application's callback: how often called, and with an error
  said,     \* history: what it was told of each key
  durable,  \* history: which changes have been durable
  cause     \* history: the keys of each call that had a reason to fail

vars == <<item, form, stage, told, said, durable, cause>>

NoForm == [multi |-> FALSE, spooled |-> FALSE, delete |-> FALSE]
Spooled(c) == form[c].spooled

\* The way of a key: to the cluster, back with the answer of the first native
\* operation (`results`), and through the poll (`endure_results`).
Stages == {"none", "sent", "changed", "refused", "stored", "failed", "polling",
           "met", "unmet"}
InStage(c, names) == {k \in Keys : stage[c][k] \in names}
Mine(c) == Keys \ InStage(c, {"none"})
Started(c) == Mine(c) # {}
Move(c, ks, name) == [stage EXCEPT ![c] = [k \in Keys |-> IF k \in ks THEN name ELSE @[k]]]

-----------------------------------------------------------------------------
(* The application's callback. *)

\* A result whose poll has failed keeps no error.
BadGood(st) == st \in {"met", "unmet"}

\* Results without an `error`.
Good(st) == st = "met"

\* The error of the first operation is not passed on.
BadSpooledError(st) == \E k \in Keys : st[k] = "unmet"

\* `err||endure_err`.  The poll of no keys is an error as well.
SpooledError(st) == \E k \in Keys : st[k] \in {"failed", "unmet"}

\* callback(err||endure_err, results), for the keys as they then are.
CallSpooled(c, st) ==
  /\ told' = [told EXCEPT ![c] = [calls |-> @.calls + 1, err |-> SpooledError(st)]]
  /\ said' = [said EXCEPT ![c] = [k \in Keys |-> IF st[k] = "none" THEN "none"
                                                 ELSE IF Good(st[k]) THEN "ok" ELSE "error"]]

\* The callback of a call that is not spooled, for some of its keys.
CallEach(c, ks, ok) ==
  /\ told' = [told EXCEPT ![c] = [calls |-> @.calls + Cardinality(ks), err |-> @.err \/ ~ok]]
  /\ said' = [said EXCEPT ![c] =
       [k \in Keys |-> IF k \in ks THEN IF ok THEN "ok" ELSE "error" ELSE @[k]]]

-----------------------------------------------------------------------------
(* The interceptor. *)

\* The key is always null.
BadPolledKey(c, k) == NullKey

\* endure_kv[key]: `key` is the argument of a single call and null in every
\* other, which matters only if the call is not spooled.
PolledKey(c, k) == IF form[c].multi /\ ~Spooled(c) THEN NullKey ELSE k

\* is_delete, which _multiHelper sets to false for removeMulti as well.
ChecksDelete(c) == form[c].delete /\ ~form[c].multi

\* The poll of ks is scheduled, or libcouchbase refuses it and the
\* interceptor is told so at once.  st is what became of the keys before.
Poll(c, ks, st) ==
  LET After(name) == [k \in Keys |-> IF k \in ks THEN name ELSE st[k]]
  IN \/ /\ stage' = [stage EXCEPT ![c] = After("polling")]
        /\ UNCHANGED <<told, said, cause>>
     \/ /\ "refuse" \in Faults
        /\ stage' = [stage EXCEPT ![c] = After("unmet")]
        /\ cause' = [cause EXCEPT ![c] = @ \cup ks]
        /\ IF Spooled(c) THEN CallSpooled(c, After("unmet")) ELSE CallEach(c, ks, FALSE)

\* Nothing is done when no key is left to be polled.
BadInterceptSpooled(c, st) ==
  LET ks == {k \in Keys : st[k] = "stored"}
  IN IF ks # {} THEN Poll(c, ks, st)
                ELSE stage' = [stage EXCEPT ![c] = st] /\ UNCHANGED <<told, said, cause>>

\* The interceptor has the results of all keys.  It polls those without an
\* error.  `endure_count < 0` never holds: if none is left, endureMulti is
\* called for no keys, finds its arguments wrong and answers at once.
InterceptSpooled(c, st) ==
  LET ks == {k \in Keys : st[k] = "stored"}
  IN IF ks # {}
       THEN Poll(c, ks, st)
       ELSE /\ stage' = [stage EXCEPT ![c] = st]
            /\ CallSpooled(c, st)
            /\ UNCHANGED cause

\* The interceptor has the result of one key.
InterceptOne(c, k, ok) ==
  IF ok THEN Poll(c, {k}, stage[c])
        ELSE /\ stage' = Move(c, {k}, "failed")
             /\ CallEach(c, {k}, FALSE)
             /\ UNCHANGED cause

-----------------------------------------------------------------------------
(* What the application does. *)

\* Every call gets the default of _multiHelper, `spooled: true`, and with it an
\* interceptor that takes the one result of a single call for an object of
\* results.
BadMayStart(c, f, ks) ==
  /\ ~Started(c) /\ told[c].calls = 0
  /\ ~f.multi => Cardinality(ks) = 1
  /\ form' = [form EXCEPT ![c] = [f EXCEPT !.spooled = TRUE]]

\* The interceptor of a call is made for its form.
MayStart(c, f, ks) ==
  /\ ~Started(c) /\ told[c].calls = 0
  /\ ~f.multi => Cardinality(ks) = 1
  /\ form' = [form EXCEPT ![c] = f]

Start(c, f, ks) ==
  /\ MayStart(c, f, ks) /\ ks # {}
  /\ stage' = Move(c, ks, "sent")
  /\ UNCHANGED <<item, told, said, durable, cause>>

\* libcouchbase refuses the operation.
StartRefused(c, f, ks) ==
  /\ "refuse" \in Faults
  /\ MayStart(c, f, ks) /\ ks # {}
  /\ stage' = Move(c, ks, "failed")
  /\ cause' = [cause EXCEPT ![c] = ks]
  /\ IF f.spooled THEN CallSpooled(c, stage'[c]) ELSE CallEach(c, ks, FALSE)
  /\ UNCHANGED <<item, durable>>

\* The arguments are wrong, or there are no keys.  The interceptor gets no
\* results, of which a spooled call polls none.
StartBail(c, f, ks) ==
  /\ "bail" \in Faults
  /\ MayStart(c, f, ks)
  /\ told' = [told EXCEPT ![c] = [calls |-> 1, err |-> TRUE]]
  /\ UNCHANGED <<item, stage, said, durable, cause>>

-----------------------------------------------------------------------------
(* What the cluster and libcouchbase do. *)

\* The cluster carries out the first operation on a key.  It may refuse, and
\* the answer may come too late for libcouchbase, which then reports a
\* timeout.
Change(c, k) ==
  /\ stage[c][k] = "sent"
  /\ \/ /\ item' = [item EXCEPT ![k] = [by |-> c, deleted |-> form[c].delete, durable |-> FALSE]]
        /\ \/ stage' = Move(c, {k}, "changed") /\ UNCHANGED cause
           \/ /\ "late" \in Faults
              /\ stage' = Move(c, {k}, "refused")
              /\ cause' = [cause EXCEPT ![c] = @ \cup {k}]
     \/ /\ "fail" \in Faults
        /\ stage' = Move(c, {k}, "refused")
        /\ cause' = [cause EXCEPT ![c] = @ \cup {k}]
        /\ UNCHANGED item
  /\ UNCHANGED <<form, told, said, durable>>

\* The interceptor is called with every answer.
BadAnswer(c, k) ==
  /\ stage[c][k] \in {"changed", "refused"}
  /\ LET ok == stage[c][k] = "changed"
     IN IF Spooled(c)
          THEN InterceptSpooled(c, [stage[c] EXCEPT ![k] = IF ok THEN "stored" ELSE "failed"])
          ELSE InterceptOne(c, k, ok)
  /\ UNCHANGED <<item, form, durable>>

\* Its answer arrives, and completes a spooled operation or not.
Answer(c, k) ==
  /\ stage[c][k] \in {"changed", "refused"}
  /\ LET ok == stage[c][k] = "changed"
         st == [stage[c] EXCEPT ![k] = IF ok THEN "stored" ELSE "failed"]
     IN IF ~Spooled(c)
          THEN InterceptOne(c, k, ok)
          ELSE IF \E j \in Keys : st[j] \in {"sent", "changed", "refused"}
            THEN stage' = [stage EXCEPT ![c] = st] /\ UNCHANGED <<told, said, cause>>
            ELSE InterceptSpooled(c, st)
  /\ UNCHANGED <<item, form, durable>>

\* A change becomes durable.
Persist(k) ==
  /\ item[k].by # NoCall /\ ~item[k].durable
  /\ item' = [item EXCEPT ![k].durable = TRUE]
  /\ durable' = durable \cup {<<item[k].by, k>>}
  /\ UNCHANGED <<form, stage, told, said, cause>>

\* The item is the one the poll is after: with its CAS, and there or not as
\* is expected.
Found(c, k) ==
  LET i == item[PolledKey(c, k)]
  IN i.by = c /\ i.deleted = ChecksDelete(c)

\* The poll of a key succeeds, or fails because it can no longer succeed or
\* because it takes too long.  The last, and a key that someone else has
\* changed, are good reasons.
PollAnswer(c, k, ok) ==
  /\ stage[c][k] = "polling"
  /\ IF ok THEN Found(c, k) /\ item[PolledKey(c, k)].durable
           ELSE ~Found(c, k) \/ "late" \in Faults
  /\ cause' = IF ~ok /\ (Found(c, k) \/ item[k].by # c)
                THEN [cause EXCEPT ![c] = @ \cup {k}] ELSE cause
  /\ stage' = Move(c, {k}, IF ok THEN "met" ELSE "unmet")
  /\ IF ~Spooled(c) THEN CallEach(c, {k}, ok)
     ELSE IF InStage(c, {"polling"}) # {k} THEN UNCHANGED <<told, said>>
     ELSE CallSpooled(c, stage'[c])
  /\ UNCHANGED <<item, form, durable>>

-----------------------------------------------------------------------------

Init ==
  /\ item = [k \in Keys \cup {NullKey} |-> [by |-> NoCall, deleted |-> FALSE, durable |-> FALSE]]
  /\ form = [c \in Calls |-> NoForm]
  /\ stage = [c \in Calls |-> [k \in Keys |-> "none"]]
  /\ told = [c \in Calls |-> [calls |-> 0, err |-> FALSE]]
  /\ said = [c \in Calls |-> [k \in Keys |-> "none"]]
  /\ durable = {}
  /\ cause = [c \in Calls |-> {}]

Application ==
  \E c \in Calls, f \in Forms, ks \in SUBSET Keys :
    Start(c, f, ks) \/ StartRefused(c, f, ks) \/ StartBail(c, f, ks)

Cluster ==
  \/ \E c \in Calls, k \in Keys :
       Change(c, k) \/ Answer(c, k) \/ \E ok \in BOOLEAN : PollAnswer(c, k, ok)
  \/ \E k \in Keys : Persist(k)

Next == Application \/ Cluster

\* The cluster carries out what it is asked and answers; what is stored
\* becomes durable, or else its poll ends with a timeout.
Spec == Init /\ [][Next]_vars /\ WF_vars(Cluster)

-----------------------------------------------------------------------------
(* Properties. *)

\* The type of every variable.
TypeOK ==
  /\ item \in [Keys \cup {NullKey} -> [by: Calls \cup {NoCall}, deleted: BOOLEAN,
                                       durable: BOOLEAN]]
  /\ form \in [Calls -> AllForms]
  /\ stage \in [Calls -> [Keys -> Stages]]
  /\ told \in [Calls -> [calls: Nat, err: BOOLEAN]]
  /\ said \in [Calls -> [Keys -> {"none", "ok", "error"}]]
  /\ durable \subseteq Calls \X Keys
  /\ cause \in [Calls -> SUBSET Keys]

\* A key is reported a success only if this call's change of it has met the
\* requirement, whatever other calls do to the key meanwhile.
SuccessMeansDurable ==
  \A c \in Calls, k \in Keys : said[c][k] = "ok" => <<c, k>> \in durable

\* A key is reported a failure only for a reason: it was not stored, the poll
\* was refused or took too long, or another call has changed the key since.  Of
\* two kinds of calls this is not so, for they poll for the wrong thing: a multi
\* call with `spooled: false` asks about the key "null", a removeMulti for items
\* that exist.
PollsRight(c) == form[c].multi => Spooled(c) /\ ~form[c].delete
ErrorHasCauseElsewhere ==
  \A c \in Calls, k \in Keys : PollsRight(c) /\ said[c][k] = "error" => k \in cause[c]

\* The callback of a spooled call gets an error if and only if one of the
\* results has one, or there are no results.
ErrorTellsOfFailure ==
  \A c \in Calls : told[c].calls > 0 =>
    (told[c].err <=> Mine(c) = {} \/ \E k \in Mine(c) : said[c][k] = "error")

\* The callback is called once for all keys, or once for each, but only once
\* if the arguments were wrong; not before something is known of each key;
\* and not again.
Expected(c) == IF Spooled(c) \/ ~Started(c) THEN 1 ELSE Cardinality(Mine(c))
Reported(c) == {k \in Keys : said[c][k] # "none"}
AnsweredOnce ==
  \A c \in Calls :
    /\ told[c].calls <= Expected(c)
    /\ told[c].calls = Expected(c) => Reported(c) = Mine(c)
    /\ Reported(c) = Mine(c) /\ Started(c) => told[c].calls = Expected(c)

\* couchbase.js:757-760 says of the options of a call for several keys that they
\* ensure that the operation is persisted and replicated to so many nodes, and
\* 721-726 that the error tells that at least one of the results failed.  So
\* where there is no reason to fail, no key is reported a failure, whether the
\* call is spooled or not (752-756), stores or removes.  This looks at the calls
\* when all are through, one of each form.
NoFalseAlarm ==
  /\ {form[c] : c \in Calls} = Forms
  /\ \A c \in Calls : told[c].calls = Expected(c) /\ cause[c] = {}
  => \A c \in Calls, k \in Keys : said[c][k] # "error"

\* Every call is answered in full.
EveryCallAnswered == \A c \in Calls : Started(c) ~> told[c].calls = Expected(c)
=============================================================================
