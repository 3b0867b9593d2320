-------------------------- MODULE CheckpointsProofs --------------------------
(* Proofs about Checkpoints for any threads, callers, tasks and bounds.     *)
EXTENDS Checkpoints, FiniteSetTheorems, SequenceTheorems, TLAPS

-----------------------------------------------------------------------------
(* What the calls are made of. *)

PutCall == [kind : {"put"}, thread : Thread, checkpoint : Nat, current : Nat, alone : BOOLEAN,
            counted : BOOLEAN, todo : Seq(Part)]
DeleteCall == [kind : {"delete"}, thread : Thread, alone : BOOLEAN, todo : Seq(Part) \ {<<>>}]
PruneCall == [kind : {"prune"}, thread : Thread, todo : Seq(Part) \ {<<>>}]
CopyCall == [kind : {"copy"}, thread : Thread, source : Thread, held : Nat, alone : BOOLEAN,
             at : {"get", "set"}, todo : Seq(Part) \ {<<>>}]
ReadCall == [kind : {"get_tuple"}, thread : Thread, got : [Part -> Nat], todo : Seq(Part),
             alone : BOOLEAN, calm : BOOLEAN]

CallSet == {Idle} \cup PutCall \cup DeleteCall \cup PruneCall \cup CopyCall \cup ReadCall

Map == [key : [Thread -> [Part -> Nat]], writes : [Thread -> SUBSET Task]]

Typed ==
    /\ store \in Map
    /\ replica \in Map
    /\ calls \in [Caller -> CallSet]
    /\ made \in Seq([thread : Thread, before : Nat, seen : SUBSET Task])

(* A checkpoint that somebody could go on from: its pending writes are there. *)
Covers(list, writes, n) ==
    n # 0 => n \in DOMAIN list /\ list[n].seen \subseteq writes[list[n].thread]

CallCovered(list, writes, call) ==
    /\ call.kind = "put" => Covers(list, writes, call.checkpoint) /\ Covers(list, writes, call.current)
    /\ call.kind = "copy" => Covers(list, writes, call.held)

KeysCovered(list, map) ==
    \A t \in Thread, p \in Part : Covers(list, map.writes, map.key[t][p])

(* Wherever the number of a checkpoint is, in a map or in the hands of a   *)
(* caller that may still write it, its pending writes are in that map.     *)
Covered ==
    /\ KeysCovered(made, store)
    /\ KeysCovered(made, replica)
    /\ \A c \in Caller : CallCovered(made, store.writes, calls[c])

IInv == Typed /\ Covered

-----------------------------------------------------------------------------

LEMMA Orders ==
    /\ SlotsInOrder \in Seq(Part) \ {<<>>}
    /\ DeleteOrder \in Seq(Part) \ {<<>>}
    /\ ReadOrder \in Seq(Part)
<1>1. \A i \in 1..max_history : History(i - 1) \in Part
  <2> SUFFICES ASSUME NEW i \in 1..max_history PROVE History(i - 1) \in Slots
    BY DEF Part
  <2>1. i - 1 \in 0..(max_history - 1)
    BY CheckpointsAssumption
  <2> QED
    BY <2>1 DEF Slots
<1>2. SlotsInOrder \in Seq(Part) /\ Len(SlotsInOrder) = max_history
  BY <1>1, CheckpointsAssumption DEF SlotsInOrder
<1>3. <<Latest, Id, Meta, Parent>> \in Seq(Part)
  BY DEF Part
<1>4. DeleteOrder \in Seq(Part) /\ Len(DeleteOrder) = 4 + max_history
  BY <1>2, <1>3, CheckpointsAssumption DEF DeleteOrder
<1>5. ReadOrder \in Seq(Part)
  BY DEF Part, ReadOrder
<1> QED
  BY <1>2, <1>4, <1>5, CheckpointsAssumption

(* A call is of one of five kinds, or there is none. *)
LEMMA Kinds ==
    ASSUME NEW call \in CallSet
    PROVE  /\ call.kind = "put" => call \in PutCall
           /\ call.kind = "delete" => call \in DeleteCall
           /\ call.kind = "prune" => call \in PruneCall
           /\ call.kind = "copy" => call \in CopyCall
           /\ call.kind = "get_tuple" => call \in ReadCall
BY DEF CallSet, PutCall, DeleteCall, PruneCall, CopyCall, ReadCall, Idle

(* What a new writer does to the other calls leaves them what they were.   *)
LEMMA CrossedTyped ==
    ASSUME Typed, Covered, NEW kind, NEW t \in Thread
    PROVE  /\ Crossed(kind, t) \in [Caller -> CallSet]
           /\ \A c \in Caller : CallCovered(made, store.writes, Crossed(kind, t)[c])
<1> SUFFICES ASSUME NEW c \in Caller
             PROVE  Crossed(kind, t)[c] \in CallSet /\ CallCovered(made, store.writes, Crossed(kind, t)[c])
  BY DEF Crossed
<1>1. PICK call \in CallSet : call = calls[c] /\ CallCovered(made, store.writes, call)
  BY DEF Typed, Covered
<1>2. CASE Uses(c, t)
  <2>1. Crossed(kind, t)[c] = [call EXCEPT !.alone = FALSE]
    <3> DEFINE crossed == [calls[c] EXCEPT !.alone = FALSE]
               read == [calls[c] EXCEPT !.alone = FALSE,
                                        !.calm = @ /\ kind = "put" /\ ~ Written(t)]
    <3>1. Crossed(kind, t)[c] = CASE Uses(c, t) -> crossed
                                  [] calls[c].kind = "get_tuple" /\ calls[c].thread = t -> read
                                  [] OTHER -> calls[c]
      BY Zenon DEF Crossed
    <3> HIDE DEF crossed, read
    <3>2. calls[c].kind # "get_tuple"
      BY <1>2 DEF Uses, Writes, Writers
    <3>3. Crossed(kind, t)[c] = crossed
      BY <1>2, <3>1, <3>2
    <3> QED
      BY <1>1, <3>3 DEF crossed
  <2>2. call.kind \in {"put", "delete", "copy"}
    BY <1>1, <1>2 DEF Uses, Writes, Writers
  <2>3. CASE call \in PutCall
    BY <1>1, <2>1, <2>3 DEF PutCall, CallSet, CallCovered
  <2>4. CASE call \in DeleteCall
    BY <1>1, <2>1, <2>4 DEF DeleteCall, CallSet, CallCovered
  <2>5. CASE call \in CopyCall
    BY <1>1, <2>1, <2>5 DEF CopyCall, CallSet, CallCovered
  <2> QED
    BY <2>2, <2>3, <2>4, <2>5, Kinds
<1>3. CASE ~ Uses(c, t) /\ calls[c].kind = "get_tuple" /\ calls[c].thread = t
  <2>1. Crossed(kind, t)[c] = [call EXCEPT !.alone = FALSE,
                                           !.calm = @ /\ kind = "put" /\ ~ Written(t)]
    BY <1>1, <1>3 DEF Crossed
  <2>2. call \in ReadCall
    BY <1>1, <1>3, Kinds
  <2>3. PICK b \in BOOLEAN : b = (call.calm /\ kind = "put" /\ ~ Written(t))
    BY <2>2 DEF ReadCall
  <2>4. Crossed(kind, t)[c] = [call EXCEPT !.alone = FALSE, !.calm = b]
    BY <2>1, <2>3
  <2> QED
    BY <2>2, <2>4 DEF ReadCall, CallSet, CallCovered
<1>4. CASE ~ Uses(c, t) /\ ~ (calls[c].kind = "get_tuple" /\ calls[c].thread = t)
  BY <1>1, <1>4 DEF Crossed
<1> QED
  BY <1>2, <1>3, <1>4

Made == [thread : Thread, before : Nat, seen : SUBSET Task]
PendingWrites == [Thread -> SUBSET Task]

(* Writes that grow and puts that are added keep what is covered so.       *)
LEMMA CoversKept ==
    ASSUME NEW list \in Seq(Made), NEW longer \in Seq(Made),
           \A i \in DOMAIN list : i \in DOMAIN longer /\ longer[i] = list[i],
           NEW writes \in PendingWrites, NEW more \in PendingWrites,
           \A t \in Thread : writes[t] \subseteq more[t]
    PROVE  /\ \A n : Covers(list, writes, n) => Covers(longer, more, n)
           /\ \A call : CallCovered(list, writes, call) => CallCovered(longer, more, call)
<1>1. ASSUME NEW n, Covers(list, writes, n) PROVE Covers(longer, more, n)
  <2> SUFFICES ASSUME n # 0 PROVE n \in DOMAIN longer /\ longer[n].seen \subseteq more[longer[n].thread]
    BY DEF Covers
  <2>1. n \in DOMAIN list /\ list[n].seen \subseteq writes[list[n].thread]
    BY <1>1 DEF Covers
  <2>2. list[n].thread \in Thread
    <3>1. DOMAIN list = 1..Len(list)
      OBVIOUS
    <3>2. list[n] \in Made
      BY <2>1, <3>1
    <3> QED
      BY <3>2 DEF Made
  <2>3. longer[n] = list[n] /\ n \in DOMAIN longer
    BY <2>1
  <2>4. writes[list[n].thread] \subseteq more[list[n].thread]
    BY <2>2
  <2> QED
    BY <2>1, <2>3, <2>4
<1> QED
  BY <1>1 DEF CallCovered

(* One key is set to a checkpoint that is covered. *)
LEMMA SetCovered ==
    ASSUME Typed, KeysCovered(made, store), NEW t \in Thread, NEW p, NEW value \in Nat,
           Covers(made, store.writes, value), Set(t, p, value)
    PROVE  /\ store' \in Map
           /\ store'.writes = store.writes
           /\ KeysCovered(made, store')
<1>1. PICK map \in Map : map = store
  BY DEF Typed
<1>2. store' = [map EXCEPT !.key[t][p] = value]
  BY <1>1 DEF Set
<1>3. /\ store' \in Map
      /\ store'.writes = map.writes
      /\ \A u \in Thread, q \in Part : store'.key[u][q] \in {map.key[u][q], value}
  BY <1>2 DEF Map
<1> QED
  BY <1>1, <1>3 DEF KeysCovered

(* A step that sets no key and leaves the rest to the callers. *)
LEMMA CallsOnly ==
    ASSUME IInv, UNCHANGED <<store, replica, made>>, NEW c \in Caller, NEW call \in CallSet,
           CallCovered(made, store.writes, call), calls' = [calls EXCEPT ![c] = call]
    PROVE  IInv'
<1>1. calls' \in [Caller -> CallSet]
  BY DEF IInv, Typed
<1>2. \A d \in Caller : CallCovered(made, store.writes, calls'[d])
  BY DEF IInv, Typed, Covered
<1> QED
  BY <1>1, <1>2 DEF IInv, Typed, Covered

(* The same beside a key that is set. *)
LEMMA CallsAndKey ==
    ASSUME IInv, UNCHANGED <<replica, made>>, NEW c \in Caller, NEW call \in CallSet,
           CallCovered(made, store.writes, call), calls' = [calls EXCEPT ![c] = call],
           NEW t \in Thread, NEW p, NEW value \in Nat,
           Covers(made, store.writes, value), Set(t, p, value)
    PROVE  IInv'
<1>1. /\ store' \in Map
      /\ store'.writes = store.writes
      /\ KeysCovered(made, store')
  BY SetCovered DEF IInv, Covered
<1>2. calls' \in [Caller -> CallSet]
  BY DEF IInv, Typed
<1>3. \A d \in Caller : CallCovered(made, store.writes, calls'[d])
  BY DEF IInv, Typed, Covered
<1> QED
  BY <1>1, <1>2, <1>3 DEF IInv, Typed, Covered

LEMMA IdleCall == Idle \in CallSet /\ CallCovered(made, store.writes, Idle)
BY DEF CallSet, CallCovered, Idle

(* A new writer begins: the others are told, no key is touched.            *)
LEMMA BeginKeeps ==
    ASSUME IInv, UNCHANGED <<store, replica, made>>, NEW c \in Caller, NEW call \in CallSet,
           call.thread \in Thread, CallCovered(made, store.writes, call), Begin(c, call)
    PROVE  IInv'
<1>1. PICK crossed : crossed = Crossed(call.kind, call.thread)
  OBVIOUS
<1>2. /\ crossed \in [Caller -> CallSet]
      /\ \A d \in Caller : CallCovered(made, store.writes, crossed[d])
  BY <1>1, CrossedTyped DEF IInv
<1>3. calls' = [crossed EXCEPT ![c] = call]
  BY <1>1 DEF Begin
<1> QED
  BY <1>2, <1>3 DEF IInv, Typed, Covered

LEMMA InitIInv == Init => IInv
<1> SUFFICES ASSUME Init PROVE IInv
  OBVIOUS
<1>1. store \in Map /\ \A t \in Thread, p \in Part : store.key[t][p] = 0
  BY DEF Init, Map, Absent
<1>2. replica = store
  BY DEF Init
<1>3. KeysCovered(made, store) /\ KeysCovered(made, replica)
  BY <1>1, <1>2 DEF KeysCovered, Covers
<1>4. calls \in [Caller -> CallSet] /\ \A c \in Caller : CallCovered(made, store.writes, calls[c])
  BY IdleCall DEF Init
<1>5. made \in Seq([thread : Thread, before : Nat, seen : SUBSET Task])
  BY DEF Init
<1> QED
  BY <1>1, <1>2, <1>3, <1>4, <1>5 DEF IInv, Typed, Covered

(* A put adds its checkpoint to the history with the writes it sees.       *)
LEMMA PutKeeps ==
    ASSUME IInv, NEW c \in Caller, NEW t \in Thread, Put(c, t)
    PROVE  IInv'
<1> DEFINE current == store.key[t][Id]
           checkpoint == [thread |-> t, before |-> current, seen |-> store.writes[t]]
           call == [kind |-> "put", thread |-> t, checkpoint |-> Len(made) + 1,
                    current |-> current, alone |-> ~ Crosses(t), counted |-> FALSE,
                    todo |-> (IF current = 0 THEN <<>> ELSE <<Parent>>) \o <<Latest, Id, Meta>>]
<1>1. /\ made' = Append(made, checkpoint)
      /\ Begin(c, call)
      /\ UNCHANGED <<store, replica>>
  BY DEF Put
<1>2. current \in Nat /\ Covers(made, store.writes, current)
  BY DEF IInv, Typed, Covered, KeysCovered, Map, Part
<1>3. store.writes \in PendingWrites /\ replica.writes \in PendingWrites
  BY DEF IInv, Typed, Map, PendingWrites
<1>4. made \in Seq(Made) /\ checkpoint \in Made
  BY <1>2, <1>3 DEF IInv, Typed, Made, PendingWrites
<1> HIDE DEF current, checkpoint
<1>5. /\ made' \in Seq(Made)
      /\ Len(made') = Len(made) + 1
      /\ made'[Len(made) + 1] = checkpoint
      /\ \A i \in DOMAIN made : i \in DOMAIN made' /\ made'[i] = made[i]
  BY <1>1, <1>4
<1>6. \A n : /\ Covers(made, store.writes, n) => Covers(made', store.writes, n)
             /\ Covers(made, replica.writes, n) => Covers(made', replica.writes, n)
  BY <1>3, <1>4, <1>5, CoversKept
<1>7. \A other : CallCovered(made, store.writes, other) => CallCovered(made', store.writes, other)
  BY <1>3, <1>4, <1>5, CoversKept
<1>8. Covers(made', store.writes, Len(made) + 1)
  BY <1>5 DEF Covers, checkpoint
<1>9. call \in CallSet /\ call.kind = "put" /\ call.thread = t
  <2>1. PICK todo \in Seq(Part) : todo = (IF current = 0 THEN <<>> ELSE <<Parent>>) \o <<Latest, Id, Meta>>
    <3>1. <<Parent>> \o <<Latest, Id, Meta>> \in Seq(Part) /\ <<>> \o <<Latest, Id, Meta>> \in Seq(Part)
      BY DEF Part
    <3> QED
      BY <3>1
  <2>2. PICK alone \in BOOLEAN : alone = (~ Crosses(t))
    OBVIOUS
  <2>3. call = [kind |-> "put", thread |-> t, checkpoint |-> Len(made) + 1,
                current |-> current, alone |-> alone, counted |-> FALSE, todo |-> todo]
    BY <2>1, <2>2
  <2>4. Len(made) + 1 \in Nat
    BY <1>4
  <2> HIDE DEF call
  <2>5. call \in PutCall
    BY <1>2, <2>3, <2>4 DEF PutCall
  <2> QED
    BY <2>3, <2>5 DEF CallSet
<1>10. CallCovered(made', store.writes, call)
  BY <1>2, <1>6, <1>8 DEF CallCovered
<1>11. PICK crossed : crossed = Crossed("put", t)
  OBVIOUS
<1>12. /\ crossed \in [Caller -> CallSet]
       /\ \A d \in Caller : CallCovered(made, store.writes, crossed[d])
  BY <1>11, CrossedTyped DEF IInv
<1> HIDE DEF call
<1>13. calls' = [crossed EXCEPT ![c] = call]
  BY <1>1, <1>9, <1>11 DEF Begin
<1>14. calls' \in [Caller -> CallSet] /\ \A d \in Caller : CallCovered(made', store.writes, calls'[d])
  BY <1>7, <1>9, <1>10, <1>12, <1>13
<1>15. KeysCovered(made', store) /\ KeysCovered(made', replica)
  BY <1>6 DEF IInv, Covered, KeysCovered
<1> QED
  BY <1>1, <1>5, <1>14, <1>15 DEF IInv, Typed, Covered, Made

LEMMA PutSetKeeps ==
    ASSUME IInv, NEW c \in Caller, PutSet(c)
    PROVE  IInv'
<1>1. PICK call : call = calls[c]
  OBVIOUS
<1>2. call \in PutCall /\ CallCovered(made, store.writes, call) /\ call.todo # <<>>
  BY <1>1, Kinds DEF IInv, Typed, Covered, PutSet
<1>3. PICK value : value = IF Head(call.todo) = Parent THEN call.current ELSE call.checkpoint
  OBVIOUS
<1>4. value \in Nat /\ Covers(made, store.writes, value)
  BY <1>2, <1>3 DEF PutCall, CallCovered
<1>5. PICK next : next = [call EXCEPT !.todo = Tail(@)]
  OBVIOUS
<1>6. next \in CallSet /\ CallCovered(made, store.writes, next)
  <2>1. PICK todo \in Seq(Part) : todo = Tail(call.todo)
    <3>1. call.todo \in Seq(Part)
      BY <1>2 DEF PutCall
    <3> QED
      BY <1>2, <3>1, HeadTailProperties
  <2>2. next = [call EXCEPT !.todo = todo]
    BY <1>5, <2>1
  <2>3. next \in PutCall /\ next.checkpoint = call.checkpoint /\ next.current = call.current
    BY <1>2, <2>2 DEF PutCall
  <2> QED
    BY <1>2, <2>3 DEF PutCall, CallSet, CallCovered
<1>7. calls' = [calls EXCEPT ![c] = next]
  BY <1>1, <1>5 DEF PutSet, Rest, IInv, Typed
<1>8. Set(call.thread, Head(call.todo), value) /\ UNCHANGED <<replica, made>>
  BY <1>1, <1>3 DEF PutSet
<1>9. call.thread \in Thread
  BY <1>2 DEF PutCall
<1> QED
  BY <1>4, <1>6, <1>7, <1>8, <1>9, CallsAndKey

(* A lost key changes the put, and the calm of the readers it meets.       *)
LEMMA ShortCalls ==
    ASSUME IInv, NEW c \in Caller, calls[c].kind = "put", calls[c].todo # <<>>
    PROVE  /\ Short(c)[c] = [calls[c] EXCEPT !.todo = Tail(@), !.alone = FALSE]
           /\ Short(c)[c] \in PutCall
           /\ Short(c)[c].thread = calls[c].thread
           /\ Short(c)[c].checkpoint = calls[c].checkpoint
           /\ Short(c)[c].current = calls[c].current
           /\ Short(c)[c].counted = calls[c].counted
           /\ Short(c)[c].alone = FALSE
           /\ Short(c)[c].todo = Tail(calls[c].todo)
           /\ \A d \in Caller \ {c} :
                 IF calls[d].kind = "get_tuple" /\ calls[d].thread = calls[c].thread
                 THEN /\ calls[d] \in ReadCall
                      /\ Short(c)[d] = [calls[d] EXCEPT !.calm = FALSE]
                      /\ Short(c)[d] \in ReadCall
                 ELSE Short(c)[d] = calls[d]
<1>1. PICK call \in PutCall : call = calls[c]
  BY Kinds DEF IInv, Typed
<1>2. Short(c)[c] = [call EXCEPT !.todo = Tail(@), !.alone = FALSE]
  <2> DEFINE short == [calls[c] EXCEPT !.todo = Tail(@), !.alone = FALSE]
             read == [calls[c] EXCEPT !.calm = FALSE]
  <2>1. Short(c)[c] = CASE c = c -> short
                        [] calls[c].kind = "get_tuple" /\ calls[c].thread = calls[c].thread -> read
                        [] OTHER -> calls[c]
    BY Zenon DEF Short
  <2> HIDE DEF short, read
  <2>2. calls[c].kind # "get_tuple"
    BY <1>1 DEF PutCall
  <2>3. Short(c)[c] = short
    BY <2>1, <2>2
  <2> QED
    BY <1>1, <2>3 DEF short
<1>3. PICK todo \in Seq(Part) : todo = Tail(call.todo)
  <2>1. call.todo \in Seq(Part)
    BY <1>1 DEF PutCall
  <2> QED
    BY <1>1, <2>1, HeadTailProperties
<1>4. Short(c)[c] = [call EXCEPT !.todo = todo, !.alone = FALSE]
  BY <1>2, <1>3
<1>5. /\ Short(c)[c] \in PutCall
      /\ Short(c)[c].thread = call.thread
      /\ Short(c)[c].checkpoint = call.checkpoint
      /\ Short(c)[c].current = call.current
      /\ Short(c)[c].counted = call.counted
      /\ Short(c)[c].alone = FALSE
      /\ Short(c)[c].todo = todo
  BY <1>1, <1>4 DEF PutCall
<1>6. ASSUME NEW d \in Caller, d # c, calls[d].kind = "get_tuple", calls[d].thread = calls[c].thread
      PROVE  /\ calls[d] \in ReadCall
             /\ Short(c)[d] = [calls[d] EXCEPT !.calm = FALSE]
             /\ Short(c)[d] \in ReadCall
  <2>1. calls[d] \in ReadCall
    BY <1>6, Kinds DEF IInv, Typed
  <2>2. Short(c)[d] = [calls[d] EXCEPT !.calm = FALSE]
    BY <1>6 DEF Short
  <2> QED
    BY <2>1, <2>2 DEF ReadCall
<1>7. ASSUME NEW d \in Caller, d # c,
             ~ (calls[d].kind = "get_tuple" /\ calls[d].thread = calls[c].thread)
      PROVE  Short(c)[d] = calls[d]
  BY <1>7 DEF Short
<1> QED
  BY <1>1, <1>2, <1>3, <1>5, <1>6, <1>7

(* The same of one other call. *)
LEMMA ShortOther ==
    ASSUME IInv, NEW c \in Caller, calls[c].kind = "put", calls[c].todo # <<>>,
           NEW d \in Caller, d # c
    PROVE  /\ calls[d].kind = "get_tuple" /\ calls[d].thread = calls[c].thread =>
                /\ calls[d] \in ReadCall
                /\ Short(c)[d] = [calls[d] EXCEPT !.calm = FALSE]
                /\ Short(c)[d] \in ReadCall
           /\ ~ (calls[d].kind = "get_tuple" /\ calls[d].thread = calls[c].thread) =>
                Short(c)[d] = calls[d]
<1>1. IF calls[d].kind = "get_tuple" /\ calls[d].thread = calls[c].thread
      THEN /\ calls[d] \in ReadCall
           /\ Short(c)[d] = [calls[d] EXCEPT !.calm = FALSE]
           /\ Short(c)[d] \in ReadCall
      ELSE Short(c)[d] = calls[d]
  BY ShortCalls
<1>2. CASE calls[d].kind = "get_tuple" /\ calls[d].thread = calls[c].thread
  BY <1>1, <1>2
<1>3. CASE ~ (calls[d].kind = "get_tuple" /\ calls[d].thread = calls[c].thread)
  BY <1>1, <1>3
<1> QED
  BY <1>2, <1>3

LEMMA PutDroppedKeeps ==
    ASSUME IInv, NEW c \in Caller, PutDropped(c)
    PROVE  IInv'
<1>1. calls[c].kind = "put" /\ calls[c].todo # <<>> /\ calls' = Short(c)
  BY DEF PutDropped
<1>2. UNCHANGED <<store, replica, made>>
  BY DEF PutDropped
<1>3. ASSUME NEW d \in Caller
      PROVE  calls'[d] \in CallSet /\ CallCovered(made, store.writes, calls'[d])
  <2>1. calls[d] \in CallSet /\ CallCovered(made, store.writes, calls[d])
    BY DEF IInv, Typed, Covered
  <2>2. CASE d = c
    <3>1. calls'[d] \in PutCall
      BY <1>1, <2>2, ShortCalls
    <3>2. calls'[d].checkpoint = calls[d].checkpoint /\ calls'[d].current = calls[d].current
      BY <1>1, <2>2, ShortCalls
    <3>3. calls'[d].kind = "put"
      BY <3>1 DEF PutCall
    <3> QED
      BY <1>1, <2>1, <2>2, <3>1, <3>2, <3>3 DEF CallSet, CallCovered
  <2>3. CASE d # c /\ calls[d].kind = "get_tuple" /\ calls[d].thread = calls[c].thread
    <3>1. calls'[d] \in ReadCall
      BY <1>1, <2>3, ShortCalls
    <3> QED
      BY <3>1 DEF CallSet, CallCovered, ReadCall
  <2>4. CASE d # c /\ ~ (calls[d].kind = "get_tuple" /\ calls[d].thread = calls[c].thread)
    BY <1>1, <2>1, <2>4, ShortCalls
  <2> QED
    BY <2>2, <2>3, <2>4
<1>4. calls' \in [Caller -> CallSet]
  <2>1. calls' = [d \in Caller |-> calls'[d]]
    BY <1>1 DEF Short
  <2> QED
    BY <1>3, <2>1
<1> QED
  BY <1>2, <1>3, <1>4 DEF IInv, Typed, Covered

LEMMA PutCountKeeps ==
    ASSUME IInv, NEW c \in Caller, PutCount(c)
    PROVE  IInv'
<1>1. PICK call : call = calls[c]
  OBVIOUS
<1>2. call \in PutCall /\ CallCovered(made, store.writes, call)
  BY <1>1, Kinds DEF IInv, Typed, Covered, PutCount
<1>3. PICK next : next = [call EXCEPT !.counted = TRUE]
  OBVIOUS
<1>4. next \in CallSet /\ CallCovered(made, store.writes, next)
  BY <1>2, <1>3 DEF PutCall, CallSet, CallCovered
<1>5. calls' = [calls EXCEPT ![c] = next]
  BY <1>1, <1>3 DEF PutCount, IInv, Typed
<1>6. UNCHANGED <<store, replica, made>>
  BY DEF PutCount
<1> QED
  BY <1>4, <1>5, <1>6, CallsOnly

LEMMA PutHistoryKeeps ==
    ASSUME IInv, NEW c \in Caller, PutHistory(c)
    PROVE  IInv'
<1>1. PICK call : call = calls[c]
  OBVIOUS
<1>2. call \in PutCall /\ CallCovered(made, store.writes, call)
  BY <1>1, Kinds DEF IInv, Typed, Covered, PutHistory, PutEnds
<1>3. call.checkpoint \in Nat /\ Covers(made, store.writes, call.checkpoint) /\ call.thread \in Thread
  BY <1>2 DEF PutCall, CallCovered
<1>4. /\ Set(call.thread, NextSlot, call.checkpoint)
      /\ calls' = [calls EXCEPT ![c] = Idle]
      /\ UNCHANGED <<replica, made>>
  BY <1>1 DEF PutHistory, PutEnds, Entry
<1> QED
  BY <1>3, <1>4, IdleCall, CallsAndKey

LEMMA HistoryDroppedKeeps ==
    ASSUME IInv, NEW c \in Caller, HistoryDropped(c)
    PROVE  IInv'
BY IdleCall, CallsOnly DEF HistoryDropped, PutEnds

(* Pending writes only grow. *)
LEMMA PutWritesKeeps ==
    ASSUME IInv, NEW t \in Thread, NEW task \in Task, PutWrites(t, task)
    PROVE  IInv'
<1>1. PICK map \in Map : map = store
  BY DEF IInv, Typed
<1>2. store' = [map EXCEPT !.writes[t] = @ \cup {task}] /\ UNCHANGED <<replica, calls, made>>
  BY <1>1 DEF PutWrites
<1>3. /\ store' \in Map
      /\ store'.key = map.key
      /\ \A u \in Thread : map.writes[u] \subseteq store'.writes[u]
  BY <1>2 DEF Map
<1>4. map.writes \in PendingWrites /\ store'.writes \in PendingWrites /\ made \in Seq(Made)
  BY <1>3 DEF IInv, Typed, Map, PendingWrites, Made
<1>5. /\ \A n : Covers(made, map.writes, n) => Covers(made, store'.writes, n)
      /\ \A call : CallCovered(made, map.writes, call) => CallCovered(made, store'.writes, call)
  BY <1>3, <1>4, CoversKept
<1> QED
  BY <1>1, <1>2, <1>3, <1>5 DEF IInv, Typed, Covered, KeysCovered

LEMMA DeleteKeeps ==
    ASSUME IInv, NEW c \in Caller, NEW t \in Thread, DeleteThread(c, t)
    PROVE  IInv'
<1>1. PICK alone \in BOOLEAN : alone = (~ Crosses(t))
  OBVIOUS
<1>2. PICK call : call = [kind |-> "delete", thread |-> t, alone |-> alone, todo |-> DeleteOrder]
  OBVIOUS
<1>3. call \in CallSet /\ call.thread = t /\ CallCovered(made, store.writes, call)
  BY <1>2, Orders DEF CallSet, DeleteCall, CallCovered
<1>4. Begin(c, call) /\ UNCHANGED <<store, replica, made>>
  BY <1>1, <1>2 DEF DeleteThread
<1> QED
  BY <1>3, <1>4, BeginKeeps

LEMMA PruneKeeps ==
    ASSUME IInv, NEW c \in Caller, NEW t \in Thread, Prune(c, t)
    PROVE  IInv'
<1>1. PICK call : call = [kind |-> "prune", thread |-> t, todo |-> SlotsInOrder]
  OBVIOUS
<1>2. call \in CallSet /\ CallCovered(made, store.writes, call)
  BY <1>1, Orders DEF CallSet, PruneCall, CallCovered
<1>3. calls' = [calls EXCEPT ![c] = call] /\ UNCHANGED <<store, replica, made>>
  BY <1>1 DEF Prune
<1> QED
  BY <1>2, <1>3, CallsOnly

(* A call with more than one key to go has one to go after this.           *)
LEMMA TailGoesOn ==
    ASSUME NEW todo \in Seq(Part) \ {<<>>}, Len(todo) # 1
    PROVE  Tail(todo) \in Seq(Part) \ {<<>>}
<1>1. Len(todo) \in Nat \ {0} /\ Len(todo) # 1
  BY EmptySeq
<1>2. Tail(todo) \in Seq(Part) /\ Len(Tail(todo)) = Len(todo) - 1
  BY HeadTailProperties
<1>3. Len(Tail(todo)) # 0
  BY <1>1, <1>2
<1> QED
  BY <1>2, <1>3, EmptySeq

LEMMA RemoveKeeps ==
    ASSUME IInv, NEW c \in Caller, RemoveKey(c)
    PROVE  IInv'
<1>1. PICK call : call = calls[c]
  OBVIOUS
<1>2. call \in DeleteCall \cup PruneCall
  BY <1>1, Kinds DEF IInv, Typed, RemoveKey
<1>3. Set(call.thread, Head(call.todo), 0) /\ UNCHANGED <<replica, made>>
  BY <1>1 DEF RemoveKey
<1>4. call.thread \in Thread /\ Covers(made, store.writes, 0)
  BY <1>2 DEF DeleteCall, PruneCall, Covers
<1>5. CASE Len(call.todo) = 1
  <2>1. calls' = [calls EXCEPT ![c] = Idle]
    BY <1>1, <1>5 DEF RemoveKey
  <2> QED
    BY <2>1, <1>3, <1>4, IdleCall, CallsAndKey
<1>6. CASE Len(call.todo) # 1
  <2>1. PICK next : next = [call EXCEPT !.todo = Tail(@)]
    OBVIOUS
  <2>2. calls' = [calls EXCEPT ![c] = next]
    BY <1>1, <1>6, <2>1 DEF RemoveKey, Rest, IInv, Typed
  <2>3. PICK todo \in Seq(Part) \ {<<>>} : todo = Tail(call.todo)
    BY <1>2, <1>6, TailGoesOn DEF DeleteCall, PruneCall
  <2>4. next \in DeleteCall \cup PruneCall
    BY <1>2, <2>1, <2>3 DEF DeleteCall, PruneCall
  <2>5. next \in CallSet /\ CallCovered(made, store.writes, next)
    BY <2>4 DEF CallSet, CallCovered, DeleteCall, PruneCall
  <2> QED
    BY <2>2, <2>5, <1>3, <1>4, CallsAndKey
<1> QED
  BY <1>5, <1>6

LEMMA CopyThreadKeeps ==
    ASSUME IInv, NEW c \in Caller, NEW source \in Thread, NEW t \in Thread,
           CopyThread(c, source, t)
    PROVE  IInv'
<1>1. PICK alone \in BOOLEAN : alone = (~ Crosses(t))
  OBVIOUS
<1>2. PICK call : call = [kind |-> "copy", thread |-> t, source |-> source, held |-> 0,
                          alone |-> alone, at |-> "get", todo |-> DeleteOrder]
  OBVIOUS
<1>3. call \in CopyCall
  BY <1>2, Orders DEF CopyCall
<1>4. call \in CallSet /\ call.thread = t /\ CallCovered(made, store.writes, call)
  BY <1>2, <1>3 DEF CallSet, CallCovered, Covers
<1>5. Begin(c, call) /\ UNCHANGED <<store, replica, made>>
  BY <1>1, <1>2 DEF CopyThread
<1> QED
  BY <1>4, <1>5, BeginKeeps

LEMMA CopyGetKeeps ==
    ASSUME IInv, NEW c \in Caller, CopyGet(c)
    PROVE  IInv'
<1>1. PICK call : call = calls[c]
  OBVIOUS
<1>2. call \in CopyCall /\ CallCovered(made, store.writes, call)
  BY <1>1, Kinds DEF IInv, Typed, Covered, CopyGet
<1>3. PICK value : value = store.key[call.source][Head(call.todo)]
  OBVIOUS
<1>4. value \in Nat /\ Covers(made, store.writes, value)
  <2>1. Head(call.todo) \in Part
    BY <1>2, HeadTailProperties DEF CopyCall
  <2>2. call.source \in Thread
    BY <1>2 DEF CopyCall
  <2> QED
    BY <1>3, <2>1, <2>2 DEF IInv, Typed, Covered, KeysCovered, Map
<1>5. UNCHANGED <<store, replica, made>>
  BY DEF CopyGet
<1>6. CASE value # 0
  <2>1. PICK next : next = [call EXCEPT !.held = value, !.at = "set"]
    OBVIOUS
  <2>2. calls' = [calls EXCEPT ![c] = next]
    <3>1. calls' = [calls EXCEPT ![c].held = value, ![c].at = "set"]
      BY <1>1, <1>3, <1>6 DEF CopyGet
    <3> QED
      BY <1>1, <2>1, <3>1 DEF IInv, Typed
  <2>3. next \in CopyCall /\ next.held = value
    BY <1>2, <1>4, <2>1 DEF CopyCall
  <2>4. next \in CallSet /\ CallCovered(made, store.writes, next)
    BY <1>4, <2>3 DEF CallSet, CopyCall, CallCovered
  <2> QED
    BY <1>5, <2>2, <2>4, CallsOnly
<1>7. CASE value = 0 /\ Len(call.todo) = 1
  <2>1. calls' = [calls EXCEPT ![c] = Idle]
    BY <1>1, <1>3, <1>7 DEF CopyGet
  <2> QED
    BY <1>5, <2>1, IdleCall, CallsOnly
<1>8. CASE value = 0 /\ Len(call.todo) # 1
  <2>1. PICK todo \in Seq(Part) \ {<<>>} : todo = Tail(call.todo)
    BY <1>2, <1>8, TailGoesOn DEF CopyCall
  <2>2. PICK next : next = [call EXCEPT !.todo = todo]
    OBVIOUS
  <2>3. calls' = [calls EXCEPT ![c] = next]
    <3>1. calls' = Rest(c)
      BY <1>1, <1>3, <1>8 DEF CopyGet
    <3> QED
      BY <1>1, <2>1, <2>2, <3>1 DEF Rest, IInv, Typed
  <2>4. next \in CopyCall /\ next.held = call.held
    BY <1>2, <2>1, <2>2 DEF CopyCall
  <2>5. next \in CallSet /\ CallCovered(made, store.writes, next)
    BY <1>2, <2>4 DEF CallSet, CopyCall, CallCovered
  <2> QED
    BY <1>5, <2>3, <2>5, CallsOnly
<1> QED
  BY <1>6, <1>7, <1>8

(* Written or lost, a key is behind a copy. *)
LEMMA OnwardCall ==
    ASSUME IInv, NEW c \in Caller, calls[c] \in CopyCall
    PROVE  \E next \in CallSet :
              /\ CallCovered(made, store.writes, next)
              /\ Onward(c) = [calls EXCEPT ![c] = next]
<1>1. PICK call \in CopyCall : call = calls[c]
  OBVIOUS
<1>2. CASE Len(call.todo) = 1
  BY <1>1, <1>2, IdleCall DEF Onward
<1>3. CASE Len(call.todo) # 1
  <2>1. PICK todo \in Seq(Part) \ {<<>>} : todo = Tail(call.todo)
    BY <1>1, <1>3, TailGoesOn DEF CopyCall
  <2>2. PICK next : next = [call EXCEPT !.at = "get", !.held = 0, !.todo = todo]
    OBVIOUS
  <2>3. Onward(c) = [calls EXCEPT ![c] = next]
    <3>1. Onward(c) = [calls EXCEPT ![c].at = "get", ![c].held = 0, ![c].todo = Tail(@)]
      BY <1>1, <1>3 DEF Onward
    <3> QED
      BY <1>1, <2>1, <2>2, <3>1 DEF IInv, Typed
  <2>4. next \in CopyCall /\ next.held = 0
    BY <1>1, <2>1, <2>2 DEF CopyCall
  <2>5. next \in CallSet /\ CallCovered(made, store.writes, next)
    BY <2>4 DEF CallSet, CopyCall, CallCovered, Covers
  <2> QED
    BY <2>3, <2>5
<1> QED
  BY <1>2, <1>3

LEMMA CopyDroppedKeeps ==
    ASSUME IInv, NEW c \in Caller, CopyDropped(c)
    PROVE  IInv'
<1>1. calls[c] \in CopyCall
  BY Kinds DEF IInv, Typed, CopyDropped
<1>2. PICK next \in CallSet : CallCovered(made, store.writes, next)
                              /\ Onward(c) = [calls EXCEPT ![c] = next]
  BY <1>1, OnwardCall
<1>3. calls' = [calls EXCEPT ![c] = next] /\ UNCHANGED <<store, replica, made>>
  BY <1>2 DEF CopyDropped
<1> QED
  BY <1>2, <1>3, CallsOnly

LEMMA CopySetKeeps ==
    ASSUME IInv, NEW c \in Caller, CopySet(c)
    PROVE  IInv'
<1>1. PICK call : call = calls[c]
  OBVIOUS
<1>2. call \in CopyCall /\ CallCovered(made, store.writes, call)
  BY <1>1, Kinds DEF IInv, Typed, Covered, CopySet
<1>3. call.held \in Nat /\ Covers(made, store.writes, call.held) /\ call.thread \in Thread
  BY <1>2 DEF CopyCall, CallCovered
<1>4. Set(call.thread, Head(call.todo), call.held) /\ UNCHANGED <<replica, made>>
  BY <1>1 DEF CopySet
<1>5. PICK next \in CallSet : CallCovered(made, store.writes, next)
                              /\ Onward(c) = [calls EXCEPT ![c] = next]
  BY <1>1, <1>2, OnwardCall
<1>6. calls' = [calls EXCEPT ![c] = next]
  BY <1>5 DEF CopySet
<1> QED
  BY <1>3, <1>4, <1>5, <1>6, CallsAndKey

LEMMA GetTupleKeeps ==
    ASSUME IInv, NEW c \in Caller, NEW t \in Thread, GetTuple(c, t)
    PROVE  IInv'
<1>1. PICK alone \in BOOLEAN : alone = (t \notin spoilt.store /\ ~ Written(t))
  OBVIOUS
<1>2. PICK calm \in BOOLEAN :
         calm = (/\ t \notin spoilt.store
                 /\ \A d \in Caller : Writes(d, t) => calls[d].kind = "put")
  OBVIOUS
<1>3. PICK call : call = [kind |-> "get_tuple", thread |-> t, got |-> Absent, todo |-> ReadOrder,
                          alone |-> alone, calm |-> calm]
  OBVIOUS
<1>4. call \in ReadCall
  BY <1>3, Orders DEF ReadCall, Absent
<1>5. call \in CallSet /\ CallCovered(made, store.writes, call)
  BY <1>3, <1>4 DEF CallSet, CallCovered
<1>6. calls' = [calls EXCEPT ![c] = call] /\ UNCHANGED <<store, replica, made>>
  BY <1>1, <1>2, <1>3 DEF GetTuple
<1> QED
  BY <1>5, <1>6, CallsOnly

LEMMA ReadKeeps ==
    ASSUME IInv, NEW c \in Caller, Read(c)
    PROVE  IInv'
<1>1. PICK call : call = calls[c]
  OBVIOUS
<1>2. call \in ReadCall /\ call.todo # <<>>
  BY <1>1, Kinds DEF IInv, Typed, Read
<1>3. PICK p \in Part : p = Head(call.todo)
  BY <1>2, HeadTailProperties DEF ReadCall
<1>4. PICK value \in Nat : value = store.key[call.thread][p]
  BY <1>2 DEF ReadCall, IInv, Typed, Map
<1>5. PICK todo \in Seq(Part) : todo = IF p = Latest /\ value = 0 THEN <<>> ELSE Tail(call.todo)
  <2>1. Tail(call.todo) \in Seq(Part) /\ <<>> \in Seq(Part)
    BY <1>2, HeadTailProperties DEF ReadCall
  <2> QED
    BY <2>1
<1>6. PICK next : next = [call EXCEPT !.got[p] = value, !.todo = todo]
  OBVIOUS
<1>7. calls' = [calls EXCEPT ![c] = next]
  <2>1. calls' = [calls EXCEPT ![c].got[p] = value,
                               ![c].todo = IF p = Latest /\ value = 0 THEN <<>> ELSE Tail(@)]
    BY <1>1, <1>3, <1>4 DEF Read
  <2> QED
    BY <1>1, <1>5, <1>6, <2>1 DEF IInv, Typed
<1>8. next \in ReadCall
  BY <1>2, <1>6 DEF ReadCall
<1>9. next \in CallSet /\ CallCovered(made, store.writes, next)
  BY <1>8 DEF CallSet, ReadCall, CallCovered
<1>10. UNCHANGED <<store, replica, made>>
  BY DEF Read
<1> QED
  BY <1>7, <1>9, <1>10, CallsOnly

LEMMA ReturnKeeps ==
    ASSUME IInv, NEW c \in Caller, Return(c)
    PROVE  IInv'
BY IdleCall, CallsOnly DEF Return

(* A push copies a map that is covered. *)
LEMMA GossipKeeps ==
    ASSUME IInv, Gossip
    PROVE  IInv'
BY DEF Gossip, Snapshot, IInv, Typed, Covered

(* The peer goes on with its own map, and nobody holds a number any more.  *)
LEMMA CrashKeeps ==
    ASSUME IInv, Crash
    PROVE  IInv'
<1>1. store' = replica /\ made' = made /\ calls' = [c \in Caller |-> Idle]
  BY DEF Crash
<1>2. replica' \in Map /\ \A t \in Thread, p \in Part : replica'.key[t][p] = 0
  BY DEF Crash, Map, Absent
<1>3. KeysCovered(made, replica')
  BY <1>2 DEF KeysCovered, Covers
<1>4. calls' \in [Caller -> CallSet]
      /\ \A c \in Caller : CallCovered(made, replica.writes, calls'[c])
  BY <1>1 DEF CallSet, CallCovered, Idle
<1> QED
  BY <1>1, <1>2, <1>3, <1>4 DEF IInv, Typed, Covered

LEMMA StepIInv == IInv /\ [Next]_vars => IInv'
<1> SUFFICES ASSUME IInv, [Next]_vars PROVE IInv'
  OBVIOUS
<1>1. CASE UNCHANGED vars
  BY <1>1 DEF vars, IInv, Typed, Covered
<1>2. CASE Next
  <2>1. ASSUME NEW c \in Caller, NEW t \in Thread,
               Put(c, t) \/ DeleteThread(c, t) \/ Prune(c, t) \/ GetTuple(c, t)
        PROVE  IInv'
    BY <2>1, PutKeeps, DeleteKeeps, PruneKeeps, GetTupleKeeps
  <2>2. ASSUME NEW c \in Caller, NEW s \in Thread, NEW t \in Thread, CopyThread(c, s, t)
        PROVE  IInv'
    BY <2>2, CopyThreadKeeps
  <2>3. ASSUME NEW c \in Caller, PutSet(c) \/ PutCount(c) \/ PutHistory(c) \/ RemoveKey(c)
        PROVE  IInv'
    BY <2>3, PutSetKeeps, PutCountKeeps, PutHistoryKeeps, RemoveKeeps
  <2>6. ASSUME NEW c \in Caller, PutDropped(c) \/ HistoryDropped(c) \/ CopyDropped(c)
        PROVE  IInv'
    BY <2>6, PutDroppedKeeps, HistoryDroppedKeeps, CopyDroppedKeeps
  <2>4. ASSUME NEW c \in Caller, CopyGet(c) \/ CopySet(c) \/ Read(c) \/ Return(c)
        PROVE  IInv'
    BY <2>4, CopyGetKeeps, CopySetKeeps, ReadKeeps, ReturnKeeps
  <2>5. ASSUME NEW t \in Thread, NEW task \in Task, PutWrites(t, task)
        PROVE  IInv'
    BY <2>5, PutWritesKeeps
  <2>7. ASSUME NEW t \in Thread, NEW task \in Task, WritesDropped(t, task)
        PROVE  IInv'
    BY <2>7 DEF WritesDropped, IInv, Typed, Covered
  <2> QED
    BY <1>2, <2>1, <2>2, <2>3, <2>4, <2>5, <2>6, <2>7, GossipKeeps, CrashKeeps DEF Next
<1> QED
  BY <1>1, <1>2

(* IInv holds throughout. *)
THEOREM Inductive == Spec => []IInv
BY InitIInv, StepIInv, PTL DEF Spec

(* Whoever goes on from the current checkpoint of a thread, the process    *)
(* itself or the peer after a crash, has every pending write that was      *)
(* there when the checkpoint was put.                                      *)
THEOREM WritesComeFirst == Spec => []WritesBeforeCheckpoint
<1>1. IInv => WritesBeforeCheckpoint
  <2> SUFFICES ASSUME IInv, NEW map \in {store, replica}, NEW t \in Thread, NEW n,
                      n = map.key[t][Latest], n # 0, made[n].thread = t
               PROVE  made[n].seen \subseteq map.writes[t]
    BY DEF WritesBeforeCheckpoint
  <2>1. Covers(made, map.writes, n)
    BY DEF IInv, Covered, KeysCovered, Part
  <2> QED
    BY <2>1 DEF Covers
<1> QED
  BY <1>1, Inductive, PTL

-----------------------------------------------------------------------------
(* A thread is torn only when it was disturbed. *)

Core == {Latest, Id, Meta, Parent}

(* The keys a call has still to deal with. *)
Left(todo) == {todo[i] : i \in DOMAIN todo}

Sole(c, t) == \A d \in Caller : Writes(d, t) => d = c

(* A writer whose work counts: nobody met it, or its thread is no worse    *)
(* for it.                                                                 *)
Trusted(c) == calls[c].alone \/ calls[c].thread \notin spoilt.store

(* What a put has dealt with belongs to its checkpoint.                    *)
PutSound(c) ==
    LET call == calls[c]
        key == store.key[call.thread]
    IN  call.kind = "put" =>
          /\ call.checkpoint \in DOMAIN made
          /\ made[call.checkpoint].before = call.current
          /\ call.current = 0 => Parent \notin Left(call.todo)
          /\ Trusted(c) =>
               /\ \A p \in {Latest, Id, Meta} : p \in Left(call.todo) \/ key[p] = call.checkpoint
               /\ call.current # 0 => Parent \in Left(call.todo) \/ key[Parent] = call.current
          /\ call.thread \notin spoilt.store /\ call.current = 0 => key[Parent] = 0

DeleteSound(c) ==
    LET call == calls[c]
    IN  call.kind = "delete" /\ Trusted(c) =>
          \A p \in Core : p \in Left(call.todo) \/ store.key[call.thread][p] = 0

(* The source of a copy rests, and the target is empty but for what has    *)
(* been copied.                                                            *)
CopySound(c) ==
    LET call == calls[c]
        source == store.key[call.source]
        key == store.key[call.thread]
    IN  call.kind = "copy" /\ call.thread \notin spoilt.store =>
          /\ call.source \notin spoilt.store
          /\ ~ Written(call.source)
          /\ \A p \in Core : /\ key[p] \in {0, source[p]}
                             /\ p \in Left(call.todo) \/ key[p] = source[p]
          /\ call.at = "set" /\ Head(call.todo) \in Core => call.held = source[Head(call.todo)]

PruneSound(c) == calls[c].kind = "prune" => Left(calls[c].todo) \cap Core = {}

CallSound(c) == PutSound(c) /\ DeleteSound(c) /\ CopySound(c) /\ PruneSound(c)

SoleWriters ==
    \A c \in Caller : calls[c].kind \in Writers /\ Trusted(c) => Sole(c, calls[c].thread)

Undisturbed ==
    /\ spoilt \in [store : SUBSET Thread, replica : SUBSET Thread]
    /\ TornOnlyWhenDisturbed
    /\ SoleWriters
    /\ \A c \in Caller : CallSound(c)

(* The rest of a call's keys after the first. *)
LEMMA LeftOver ==
    ASSUME NEW todo \in Seq(Part), todo # <<>>
    PROVE  /\ Head(todo) \in Part
           /\ Tail(todo) \in Seq(Part)
           /\ Left(todo) = {Head(todo)} \cup Left(Tail(todo))
           /\ Len(todo) = 1 => Left(todo) = {Head(todo)}
<1>1. /\ Head(todo) \in Part /\ Head(todo) = todo[1]
      /\ Tail(todo) \in Seq(Part)
      /\ Len(Tail(todo)) = Len(todo) - 1
      /\ \A i \in 1..Len(Tail(todo)) : Tail(todo)[i] = todo[i + 1]
      /\ Len(todo) \in Nat \ {0}
  BY HeadTailProperties, EmptySeq
<1>2. /\ Left(todo) = {todo[i] : i \in 1..Len(todo)}
      /\ Left(Tail(todo)) = {Tail(todo)[i] : i \in 1..Len(Tail(todo))}
  <2>1. DOMAIN todo = 1..Len(todo)
    OBVIOUS
  <2>2. DOMAIN Tail(todo) = 1..Len(Tail(todo))
    BY <1>1, LenProperties
  <2> QED
    BY <2>1, <2>2 DEF Left
<1>3. Left(todo) \subseteq {Head(todo)} \cup Left(Tail(todo))
  <2> SUFFICES ASSUME NEW i \in 1..Len(todo), i # 1 PROVE todo[i] \in Left(Tail(todo))
    BY <1>1, <1>2
  <2>1. i - 1 \in 1..Len(Tail(todo)) /\ todo[i] = Tail(todo)[i - 1]
    BY <1>1
  <2> QED
    BY <2>1, <1>2
<1>4. Head(todo) \in Left(todo)
  BY <1>1, <1>2
<1>5. Left(Tail(todo)) \subseteq Left(todo)
  <2> SUFFICES ASSUME NEW i \in 1..Len(Tail(todo)) PROVE Tail(todo)[i] \in Left(todo)
    BY <1>2
  <2>1. i + 1 \in 1..Len(todo)
    BY <1>1
  <2> QED
    BY <2>1, <1>1, <1>2
<1>6. Len(todo) = 1 => Left(todo) = {Head(todo)}
  BY <1>1, <1>2
<1> QED
  BY <1>1, <1>3, <1>4, <1>5, <1>6

LEMMA LeftNone == Left(<<>>) = {}
BY DEF Left

(* The parts are distinct. *)
LEMMA Parts ==
    /\ Core \subseteq Part
    /\ Slots \subseteq Part /\ Slots \cap Core = {}
    /\ \A n : History(n) \notin Core
    /\ Parent \notin {Latest, Id, Meta}
BY DEF Core, Part, Slots, History, Latest, Id, Meta, Parent

LEMMA OrdersLeft ==
    /\ Left(SlotsInOrder) \cap Core = {}
    /\ Core \subseteq Left(DeleteOrder)
<1>1. Left(SlotsInOrder) \cap Core = {}
  BY Parts DEF Left, SlotsInOrder
<1>2. SlotsInOrder \in Seq(Part) /\ <<Latest, Id, Meta, Parent>> \in Seq(Part)
  BY Orders DEF Part
<1>3. PICK first \in Seq(Part) : first = <<Latest, Id, Meta, Parent>>
  BY <1>2
<1>4. Len(first) = 4 /\ first[1] = Latest /\ first[2] = Id /\ first[3] = Meta /\ first[4] = Parent
  <2>1. Len(<<Latest, Id, Meta, Parent>>) = 4
    OBVIOUS
  <2>2. /\ <<Latest, Id, Meta, Parent>>[1] = Latest
        /\ <<Latest, Id, Meta, Parent>>[2] = Id
        /\ <<Latest, Id, Meta, Parent>>[3] = Meta
        /\ <<Latest, Id, Meta, Parent>>[4] = Parent
    OBVIOUS
  <2> QED
    BY <1>3, <2>1, <2>2
<1>5. PICK all \in Seq(Part) : all = first \o SlotsInOrder
  BY <1>2, ConcatProperties
<1>6. Len(all) = 4 + Len(SlotsInOrder) /\ \A i \in 1..4 : all[i] = first[i]
  <2>1. /\ Len(first \o SlotsInOrder) = Len(first) + Len(SlotsInOrder)
        /\ \A i \in 1..(Len(first) + Len(SlotsInOrder)) :
              (first \o SlotsInOrder)[i] =
                  IF i <= Len(first) THEN first[i] ELSE SlotsInOrder[i - Len(first)]
    BY <1>2, ConcatProperties
  <2>2. Len(SlotsInOrder) \in Nat
    BY <1>2
  <2>3. ASSUME NEW i \in 1..4 PROVE all[i] = first[i]
    <3>1. i \in 1..(Len(first) + Len(SlotsInOrder)) /\ i <= Len(first)
      BY <1>4, <2>2
    <3>2. (first \o SlotsInOrder)[i] = first[i]
      BY <2>1, <3>1
    <3> QED
      BY <1>5, <3>2
  <2>4. Len(all) = Len(first) + Len(SlotsInOrder)
    BY <1>5, <2>1
  <2> QED
    BY <1>4, <2>3, <2>4
<1>7. 1 \in DOMAIN all /\ 2 \in DOMAIN all /\ 3 \in DOMAIN all /\ 4 \in DOMAIN all
  <2>1. Len(SlotsInOrder) \in Nat
    BY <1>2
  <2> QED
    BY <2>1, <1>6
<1>8. {Latest, Id, Meta, Parent} \subseteq Left(all)
  BY <1>4, <1>6, <1>7 DEF Left
<1> QED
  BY <1>1, <1>3, <1>5, <1>8 DEF DeleteOrder, Core

(* A writer c takes a step on its thread t, and perhaps ends there: what   *)
(* the others rely on is untouched, since no trusted one writes t beside   *)
(* it and no copy reads t.                                                 *)
LEMMA WriterStep ==
    ASSUME IInv, IInv', Undisturbed, NEW c \in Caller, calls[c].kind \in Writers,
           NEW t \in Thread, t = calls[c].thread,
           NEW next, calls' = [calls EXCEPT ![c] = next],
           \/ next = Idle
           \/ next.kind = calls[c].kind /\ next.thread = t /\ next.alone = calls[c].alone,
           UNCHANGED <<replica, made>>,
           \/ spoilt' = spoilt
           \/ /\ next = Idle /\ calls[c].alone
              /\ spoilt' = [spoilt EXCEPT !.store = @ \ {t}],
           \A u \in Thread : u # t => store'.key[u] = store.key[u],
           CallSound(c)',
           next = Idle /\ t \notin spoilt'.store => Whole(store'.key[t])
    PROVE  Undisturbed'
<1>1. /\ spoilt' \in [store : SUBSET Thread, replica : SUBSET Thread]
      /\ spoilt'.replica = spoilt.replica
      /\ spoilt'.store \subseteq spoilt.store
      /\ \A u : u # t => (u \in spoilt'.store <=> u \in spoilt.store)
      /\ t \in spoilt.store /\ t \notin spoilt'.store => calls[c].alone /\ next = Idle
  BY DEF Undisturbed
<1>2. \A d \in Caller : d # c => calls'[d] = calls[d]
  BY DEF IInv, Typed
<1>3. calls'[c] = next /\ (calls'[c].kind \in Writers => next # Idle)
  BY DEF IInv, Typed, Idle, Writers
<1>4. Writes(c, t)
  BY DEF Writes
<1>5. \A u \in Thread, d \in Caller : Writes(d, u)' => Writes(d, u)
  BY <1>2, <1>3, <1>4 DEF Writes
<1>6. \A u \in Thread : Written(u)' => Written(u)
  BY <1>5 DEF Written
<1>7. ASSUME NEW d \in Caller, d # c, calls[d].kind \in Writers, calls[d].thread = t
      PROVE  ~ Trusted(d) /\ ~ Trusted(d)'
  <2>1. Writes(d, t)
    BY <1>7 DEF Writes
  <2>2. ~ Trusted(d)
    BY <1>4, <1>7 DEF Undisturbed, SoleWriters, Sole
  <2>3. ~ Trusted(c)
    BY <1>7, <2>1 DEF Undisturbed, SoleWriters, Sole
  <2>4. t \in spoilt'.store
    BY <1>1, <1>7, <2>2, <2>3 DEF Trusted
  <2> QED
    BY <1>2, <1>7, <2>2, <2>4 DEF Trusted
<1>8. ASSUME NEW d \in Caller, d # c, calls[d].kind \in Writers, Trusted(d)'
      PROVE  /\ calls[d].thread \in Thread /\ calls[d].thread # t
             /\ Trusted(d)
  <2>1. calls[d].thread # t
    BY <1>7, <1>8
  <2>2. calls[d].thread \in Thread
    BY <1>8, Kinds DEF IInv, Typed, Writers, PutCall, DeleteCall, CopyCall
  <2>3. Trusted(d)
    BY <1>1, <1>2, <1>8, <2>1 DEF Trusted
  <2> QED
    BY <2>1, <2>2, <2>3
<1>9. SoleWriters'
  <2> SUFFICES ASSUME NEW d \in Caller, calls'[d].kind \in Writers, Trusted(d)',
                      NEW e \in Caller, Writes(e, calls[d].thread)', calls'[d].thread = calls[d].thread
               PROVE  e = d
    BY <1>2, <1>3 DEF SoleWriters, Sole, Writes
  <2>1. CASE d = c
    <3>1. Trusted(c)
      BY <1>1, <1>3, <2>1 DEF Trusted
    <3>2. Writes(e, t)
      BY <1>5, <2>1
    <3> QED
      BY <2>1, <3>1, <3>2 DEF Undisturbed, SoleWriters, Sole
  <2>2. CASE d # c
    <3>1. calls[d].thread \in Thread /\ Trusted(d) /\ calls[d].kind \in Writers
      BY <1>2, <1>8, <2>2
    <3>2. Writes(e, calls[d].thread)
      BY <1>5, <3>1
    <3> QED
      BY <3>1, <3>2 DEF Undisturbed, SoleWriters, Sole
  <2> QED
    BY <2>1, <2>2
<1>10. TornOnlyWhenDisturbed'
  <2>1. ASSUME NEW u \in Thread, u \notin spoilt'.store, ~ Written(u)'
        PROVE  Whole(store'.key[u])
    <3>1. CASE u = t
      <4>1. next = Idle
        BY <1>3, <2>1, <3>1 DEF Written, Writes
      <4> QED
        BY <2>1, <3>1, <4>1
    <3>2. CASE u # t
      <4>1. ~ Written(u)
        <5> SUFFICES ASSUME NEW d \in Caller, Writes(d, u) PROVE FALSE
          BY DEF Written
        <5>1. d # c
          BY <3>2 DEF Writes
        <5> QED
          BY <1>2, <2>1, <5>1 DEF Written, Writes
      <4> QED
        BY <1>1, <2>1, <3>2, <4>1 DEF Undisturbed, TornOnlyWhenDisturbed
    <3> QED
      BY <3>1, <3>2
  <2>2. ASSUME NEW u \in Thread, u \notin spoilt'.replica PROVE Whole(replica.key[u])
    BY <1>1, <2>2 DEF Undisturbed, TornOnlyWhenDisturbed
  <2> QED
    BY <2>1, <2>2 DEF TornOnlyWhenDisturbed, Whole, Before
<1>11. ASSUME NEW d \in Caller, d # c PROVE CallSound(d)'
  <2>1. CallSound(d) /\ calls'[d] = calls[d]
    BY <1>2, <1>11 DEF Undisturbed
  <2>2. PutSound(d)'
    <3>1. CASE calls[d].kind = "put" /\ Trusted(d)'
      <4>1. /\ store'.key[calls[d].thread] = store.key[calls[d].thread]
            /\ calls[d].thread \in spoilt'.store <=> calls[d].thread \in spoilt.store
            /\ Trusted(d)
        BY <1>1, <1>8, <1>11, <3>1 DEF Writers
      <4> QED
        BY <2>1, <3>1, <4>1 DEF CallSound, PutSound
    <3>2. CASE calls[d].kind = "put" /\ ~ Trusted(d)'
      BY <2>1, <3>2 DEF CallSound, PutSound, Trusted
    <3> QED
      BY <2>1, <3>1, <3>2 DEF PutSound
  <2>3. DeleteSound(d)'
    BY <1>8, <1>11, <2>1 DEF CallSound, DeleteSound, Writers
  <2>4. CopySound(d)'
    <3> SUFFICES ASSUME calls[d].kind = "copy", calls[d].thread \notin spoilt'.store
                 PROVE  CopySound(d)'
      BY <2>1 DEF CopySound
    <3>1. calls[d].thread \in Thread /\ calls[d].thread # t /\ calls[d].thread \notin spoilt.store
      BY <1>1, <1>8, <1>11, <2>1 DEF Writers, Trusted
    <3>2. calls[d].source \notin spoilt.store /\ ~ Written(calls[d].source)
      BY <2>1, <3>1 DEF CallSound, CopySound
    <3>3. calls[d].source \in Thread
      BY Kinds DEF IInv, Typed, CopyCall
    <3>4. calls[d].source # t
      BY <1>4, <3>2 DEF Written
    <3>5. ~ Written(calls[d].source)'
      BY <1>6, <3>2, <3>3, <2>1
    <3>6. /\ store'.key[calls[d].thread] = store.key[calls[d].thread]
          /\ store'.key[calls[d].source] = store.key[calls[d].source]
          /\ calls[d].source \notin spoilt'.store
      BY <1>1, <3>1, <3>2, <3>3, <3>4
    <3>7. PICK call, source, key : /\ call = calls[d]
                                   /\ source = store.key[calls[d].source]
                                   /\ key = store.key[calls[d].thread]
      OBVIOUS
    <3>8. /\ \A p \in Core : /\ key[p] \in {0, source[p]}
                             /\ p \in Left(call.todo) \/ key[p] = source[p]
          /\ call.at = "set" /\ Head(call.todo) \in Core => call.held = source[Head(call.todo)]
      BY <2>1, <3>1, <3>7 DEF CallSound, CopySound
    <3>9. /\ calls'[d] = call
          /\ source = store'.key[call.source]
          /\ key = store'.key[call.thread]
      BY <2>1, <3>6, <3>7
    <3>10. /\ \A p \in Core : /\ store'.key[calls'[d].thread][p] \in {0, store'.key[calls'[d].source][p]}
                              /\ \/ p \in Left(calls'[d].todo)
                                 \/ store'.key[calls'[d].thread][p] = store'.key[calls'[d].source][p]
           /\ calls'[d].at = "set" /\ Head(calls'[d].todo) \in Core
                => calls'[d].held = store'.key[calls'[d].source][Head(calls'[d].todo)]
      BY <3>8, <3>9
    <3>11. calls'[d].source \notin spoilt'.store
      BY <2>1, <3>6
    <3> QED
      BY <3>5, <3>10, <3>11 DEF CopySound
  <2>5. PruneSound(d)'
    BY <2>1 DEF CallSound, PruneSound
  <2> QED
    BY <2>2, <2>3, <2>4, <2>5 DEF CallSound
<1> QED
  BY <1>1, <1>9, <1>10, <1>11 DEF Undisturbed

(* A step that sets none of the core keys and concerns no writer.          *)
LEMMA BystanderStep ==
    ASSUME IInv, IInv', Undisturbed, UNCHANGED <<replica, made, spoilt>>,
           \A u \in Thread, q \in Core : store'.key[u][q] = store.key[u][q],
           \A d \in Caller : \/ calls'[d] = calls[d]
                             \/ /\ calls[d].kind \notin Writers /\ calls'[d].kind \notin Writers
                                /\ PruneSound(d)'
    PROVE  Undisturbed'
<1>1. ASSUME NEW d \in Caller
      PROVE  /\ \A u : Writes(d, u)' <=> Writes(d, u)
             /\ calls[d].kind \in Writers \/ calls'[d].kind \in Writers => calls'[d] = calls[d]
  BY DEF Writes
<1>2. \A u : Written(u)' <=> Written(u)
  BY <1>1 DEF Written
<1>3. \A d \in Caller : calls'[d].kind \in Writers => (Trusted(d)' <=> Trusted(d))
  BY <1>1 DEF Trusted
<1>4. SoleWriters'
  BY <1>1, <1>3 DEF Undisturbed, SoleWriters, Sole
<1>5. {Latest, Id, Meta, Parent} \subseteq Core
  BY DEF Core
<1>6. TornOnlyWhenDisturbed'
  <2>1. ASSUME NEW u \in Thread, u \notin spoilt.store, ~ Written(u) PROVE Whole(store'.key[u])
    <3>1. Whole(store.key[u])
      BY <2>1 DEF Undisturbed, TornOnlyWhenDisturbed
    <3> QED
      BY <3>1, <1>5 DEF Whole
  <2>2. \A u \in Thread : u \notin spoilt.replica => Whole(replica.key[u])
    BY DEF Undisturbed, TornOnlyWhenDisturbed
  <2> QED
    BY <1>2, <2>1, <2>2 DEF TornOnlyWhenDisturbed, Whole, Before
<1>7. ASSUME NEW d \in Caller, calls'[d] = calls[d], calls[d].kind \in Writers \cup {"prune"}
      PROVE  CallSound(d)'
  <2>1. CallSound(d) /\ (Trusted(d)' <=> Trusted(d))
    BY <1>7 DEF Undisturbed, Trusted
  <2>2. calls[d].kind \in Writers => calls[d].thread \in Thread
    BY <1>7, Kinds DEF IInv, Typed, Writers, PutCall, DeleteCall, CopyCall
  <2>3. PutSound(d)'
    BY <1>5, <1>7, <2>1, <2>2 DEF CallSound, PutSound, Writers
  <2>4. DeleteSound(d)'
    BY <1>7, <2>1, <2>2 DEF CallSound, DeleteSound, Writers
  <2>5. PruneSound(d)'
    BY <1>7, <2>1 DEF CallSound, PruneSound
  <2>6. CopySound(d)'
    <3> SUFFICES ASSUME calls[d].kind = "copy", calls[d].thread \notin spoilt.store
                 PROVE  CopySound(d)'
      BY <1>7 DEF CopySound
    <3>1. calls[d].source \in Thread /\ calls[d].thread \in Thread
      BY <2>2, Kinds DEF IInv, Typed, CopyCall, Writers
    <3>2. calls[d].source \notin spoilt.store /\ ~ Written(calls[d].source)
      BY <2>1 DEF CallSound, CopySound
    <3>3. ~ Written(calls[d].source)'
      BY <1>2, <1>7, <3>2
    <3>4. PICK source, key : source = store.key[calls[d].source] /\ key = store.key[calls[d].thread]
      OBVIOUS
    <3>5. /\ \A p \in Core : /\ key[p] \in {0, source[p]}
                             /\ p \in Left(calls[d].todo) \/ key[p] = source[p]
          /\ calls[d].at = "set" /\ Head(calls[d].todo) \in Core
               => calls[d].held = source[Head(calls[d].todo)]
      BY <2>1, <3>4 DEF CallSound, CopySound
    <3>6. \A p \in Core : /\ store'.key[calls[d].source][p] = source[p]
                          /\ store'.key[calls[d].thread][p] = key[p]
      BY <3>1, <3>4
    <3>7. /\ \A p \in Core : /\ store'.key[calls'[d].thread][p] \in {0, store'.key[calls'[d].source][p]}
                             /\ \/ p \in Left(calls'[d].todo)
                                \/ store'.key[calls'[d].thread][p] = store'.key[calls'[d].source][p]
          /\ calls'[d].at = "set" /\ Head(calls'[d].todo) \in Core
               => calls'[d].held = store'.key[calls'[d].source][Head(calls'[d].todo)]
      BY <1>7, <3>5, <3>6
    <3>8. calls'[d].source \notin spoilt'.store
      BY <1>7, <3>2
    <3> QED
      BY <3>3, <3>7, <3>8 DEF CopySound
  <2> QED
    BY <2>3, <2>4, <2>5, <2>6 DEF CallSound
<1>8. ASSUME NEW d \in Caller, calls'[d].kind \notin Writers, PruneSound(d)'
      PROVE  CallSound(d)'
  BY <1>8 DEF CallSound, PutSound, DeleteSound, CopySound, Writers
<1>9. ASSUME NEW d \in Caller PROVE CallSound(d)'
  <2>1. CASE calls'[d] = calls[d] /\ calls[d].kind \in Writers \cup {"prune"}
    BY <1>7, <2>1
  <2>2. CASE calls'[d] = calls[d] /\ calls[d].kind \notin Writers \cup {"prune"}
    BY <1>8, <2>2 DEF PruneSound
  <2>3. CASE calls'[d].kind \notin Writers /\ PruneSound(d)'
    BY <1>8, <2>3
  <2> QED
    BY <2>1, <2>2, <2>3
<1> QED
  BY <1>4, <1>6, <1>9 DEF Undisturbed

(* A writer c loses a key of t, and its thread is spoilt.                  *)
LEMMA LossStep ==
    ASSUME IInv, Undisturbed, NEW c \in Caller, calls[c].kind \in Writers,
           NEW t \in Thread, t = calls[c].thread,
           \/ calls'[c].kind \notin Writers
           \/ /\ calls'[c].kind = calls[c].kind /\ calls'[c].thread = t
              /\ calls'[c].alone => calls[c].alone,
           \A d \in Caller : d # c => \/ calls'[d] = calls[d]
                                      \/ calls[d].kind = "get_tuple" /\ calls'[d].kind = "get_tuple",
           UNCHANGED <<store, replica, made>>,
           Spoil({t}),
           CallSound(c)'
    PROVE  Undisturbed'
<1>1. /\ spoilt' \in [store : SUBSET Thread, replica : SUBSET Thread]
      /\ spoilt'.replica = spoilt.replica
      /\ spoilt'.store = spoilt.store \cup {t}
  BY DEF Undisturbed, Spoil
<1>2. Writes(c, t)
  BY DEF Writes
<1>3. \A u : \A d \in Caller : Writes(d, u)' => Writes(d, u)
  BY <1>2 DEF Writes, Writers
<1>4. \A u : u # t => (Written(u)' <=> Written(u))
  BY <1>2 DEF Written, Writes, Writers
<1>5. \A d \in Caller : calls'[d].kind \in Writers =>
         /\ calls[d].kind \in Writers /\ calls'[d].thread = calls[d].thread
         /\ Trusted(d)' => Trusted(d)
  <2> SUFFICES ASSUME NEW d \in Caller, calls'[d].kind \in Writers
               PROVE  /\ calls[d].kind \in Writers /\ calls'[d].thread = calls[d].thread
                      /\ Trusted(d)' => Trusted(d)
    OBVIOUS
  <2>1. CASE d = c
    BY <1>1, <2>1 DEF Trusted
  <2>2. CASE d # c
    <3>1. calls'[d] = calls[d]
      BY <2>2 DEF Writers
    <3> QED
      BY <1>1, <3>1 DEF Trusted
  <2> QED
    BY <2>1, <2>2
<1>6. SoleWriters'
  BY <1>3, <1>5 DEF Undisturbed, SoleWriters, Sole
<1>7. TornOnlyWhenDisturbed'
  <2>1. ASSUME NEW u \in Thread, u \notin spoilt'.store, ~ Written(u)'
        PROVE  Whole(store.key[u])
    BY <1>1, <1>4, <2>1 DEF Undisturbed, TornOnlyWhenDisturbed
  <2>2. ASSUME NEW u \in Thread, u \notin spoilt'.replica PROVE Whole(replica.key[u])
    BY <1>1, <2>2 DEF Undisturbed, TornOnlyWhenDisturbed
  <2> QED
    BY <2>1, <2>2 DEF TornOnlyWhenDisturbed, Whole, Before
<1>8. ASSUME NEW d \in Caller, d # c PROVE CallSound(d)'
  <2>1. CASE calls'[d] = calls[d]
    <3>1. CallSound(d)
      BY DEF Undisturbed
    <3>2. calls[d].kind \in Writers => (Trusted(d)' => Trusted(d))
      BY <1>5, <2>1
    <3>3. PutSound(d)'
      BY <1>1, <2>1, <3>1, <3>2 DEF CallSound, PutSound, Writers
    <3>4. DeleteSound(d)'
      BY <2>1, <3>1, <3>2 DEF CallSound, DeleteSound, Writers
    <3>5. PruneSound(d)'
      BY <2>1, <3>1 DEF CallSound, PruneSound
    <3>6. CopySound(d)'
      <4> SUFFICES ASSUME calls[d].kind = "copy", calls[d].thread \notin spoilt'.store
                   PROVE  CopySound(d)'
        BY <2>1 DEF CopySound
      <4>1. calls[d].source \notin spoilt.store /\ ~ Written(calls[d].source)
        BY <1>1, <3>1 DEF CallSound, CopySound
      <4>2. calls[d].source # t
        BY <1>2, <4>1 DEF Written
      <4>3. calls'[d].source \notin spoilt'.store /\ ~ Written(calls[d].source)'
        BY <1>1, <1>4, <2>1, <4>1, <4>2
      <4>4. CopySound(d) /\ calls[d].thread \notin spoilt.store
        BY <1>1, <3>1 DEF CallSound
      <4>5. calls'[d] = calls[d] /\ store' = store /\ calls[d].thread \notin spoilt'.store
        BY <2>1
      <4> QED
        BY <4>3, <4>4, <4>5 DEF CopySound
    <3> QED
      BY <3>3, <3>4, <3>5, <3>6 DEF CallSound
  <2>2. CASE calls'[d].kind = "get_tuple"
    BY <2>2 DEF CallSound, PutSound, DeleteSound, CopySound, PruneSound
  <2> QED
    BY <1>8, <2>1, <2>2
<1> QED
  BY <1>1, <1>6, <1>7, <1>8 DEF Undisturbed

(* What Crossed leaves of the calls: all of a writer but the claim to be   *)
(* alone.                                                                  *)
SameWork(new, old) ==
    /\ new.kind = old.kind
    /\ new.thread = old.thread
    /\ new.todo = old.todo
    /\ old.kind = "put" => new.checkpoint = old.checkpoint /\ new.current = old.current
    /\ old.kind = "copy" => new.source = old.source /\ new.at = old.at /\ new.held = old.held
    /\ new.alone => old.alone

LEMMA CrossedWriters ==
    ASSUME IInv, NEW kind, NEW t \in Thread, NEW d \in Caller,
           NEW call, call = Crossed(kind, t)[d]
    PROVE  /\ call.kind = calls[d].kind
           /\ calls[d].kind \notin Writers \cup {"get_tuple"} => call = calls[d]
           /\ calls[d].kind \in Writers => SameWork(call, calls[d]) /\ (Uses(d, t) => ~ call.alone)
<1> DEFINE crossed == [calls[d] EXCEPT !.alone = FALSE]
           read == [calls[d] EXCEPT !.alone = FALSE, !.calm = @ /\ kind = "put" /\ ~ Written(t)]
<1>1. call = CASE Uses(d, t) -> crossed
               [] calls[d].kind = "get_tuple" /\ calls[d].thread = t -> read
               [] OTHER -> calls[d]
  BY Zenon DEF Crossed
<1>2. calls[d].kind \in Writers => SameWork(crossed, calls[d]) /\ ~ crossed.alone
  <2> SUFFICES ASSUME calls[d].kind \in Writers PROVE SameWork(crossed, calls[d]) /\ ~ crossed.alone
    OBVIOUS
  <2>1. PICK old : old = calls[d]
    OBVIOUS
  <2>2. old \in PutCall \cup DeleteCall \cup CopyCall
    BY <2>1, Kinds DEF IInv, Typed, Writers
  <2>3. CASE old \in PutCall
    BY <2>1, <2>3 DEF PutCall, SameWork
  <2>4. CASE old \in DeleteCall
    BY <2>1, <2>4 DEF DeleteCall, SameWork
  <2>5. CASE old \in CopyCall
    BY <2>1, <2>5 DEF CopyCall, SameWork
  <2> QED
    BY <2>2, <2>3, <2>4, <2>5
<1>3. calls[d].kind = "get_tuple" => read.kind = calls[d].kind
  BY Kinds DEF IInv, Typed, ReadCall
<1> HIDE DEF crossed, read
<1>4. Uses(d, t) => calls[d].kind \in Writers /\ calls[d].kind # "get_tuple"
  BY DEF Uses, Writes, Writers
<1>5. CASE Uses(d, t)
  <2>1. call = crossed
    BY <1>1, <1>4, <1>5
  <2>2. crossed.kind = calls[d].kind
    BY <1>2, <1>4, <1>5 DEF SameWork
  <2> QED
    BY <1>2, <1>4, <1>5, <2>1, <2>2
<1>6. CASE ~ Uses(d, t) /\ calls[d].kind = "get_tuple" /\ calls[d].thread = t
  BY <1>1, <1>3, <1>6 DEF Writers
<1>7. CASE ~ Uses(d, t) /\ ~ (calls[d].kind = "get_tuple" /\ calls[d].thread = t)
  <2>1. call = calls[d]
    BY <1>1, <1>7
  <2>2. SameWork(calls[d], calls[d])
    BY DEF SameWork
  <2> QED
    BY <1>7, <2>1, <2>2
<1> QED
  BY <1>5, <1>6, <1>7

(* A writer c comes to thread t.  Whoever it meets is no longer trusted.   *)
LEMMA BeginStep ==
    ASSUME IInv, IInv', Undisturbed, NEW c \in Caller, calls[c] = Idle,
           NEW t \in Thread, NEW call, call.kind \in Writers, call.thread = t, Begin(c, call),
           UNCHANGED <<store, replica>>,
           \A i \in DOMAIN made : i \in DOMAIN made' /\ made'[i] = made[i],
           NEW extra \in {{}, {t}}, Spoil(Disturbs(t) \cup extra),
           call.alone => ~ Crosses(t),
           CallSound(c)'
    PROVE  Undisturbed'
<1>1. /\ calls'[c] = call
      /\ \A d \in Caller : d # c => calls'[d] = Crossed(call.kind, t)[d]
  <2>1. PICK crossed : crossed = Crossed(call.kind, t)
    OBVIOUS
  <2>2. crossed \in [Caller -> CallSet]
    BY <2>1, CrossedTyped DEF IInv
  <2>3. calls' = [crossed EXCEPT ![c] = call]
    BY <2>1 DEF Begin
  <2> QED
    BY <2>1, <2>2, <2>3
<1>2. \A d \in Caller : ~ Writes(c, t) /\ (d # c => calls'[d].kind = calls[d].kind)
  BY <1>1, CrossedWriters DEF Writes, Writers, Idle
<1>3. ASSUME NEW d \in Caller, d # c, calls[d].kind \in Writers
      PROVE  /\ calls[d].thread \in Thread
             /\ calls'[d].kind = calls[d].kind
             /\ calls'[d].thread = calls[d].thread
             /\ SameWork(calls'[d], calls[d])
             /\ Uses(d, t) => ~ calls'[d].alone
  <2>1. PICK kind, other : kind = call.kind /\ other = Crossed(kind, t)[d]
    OBVIOUS
  <2>2. calls'[d] = other
    BY <1>1, <1>3, <2>1
  <2>3. SameWork(other, calls[d]) /\ (Uses(d, t) => ~ other.alone)
    BY <1>3, <2>1, CrossedWriters
  <2>4. calls[d].thread \in Thread
    BY <1>3, Kinds DEF IInv, Typed, Writers, PutCall, DeleteCall, CopyCall
  <2> QED
    BY <2>2, <2>3, <2>4 DEF SameWork
<1>4. ASSUME NEW d \in Caller, d # c, NEW u
      PROVE  Writes(d, u)' <=> Writes(d, u)
  BY <1>2, <1>3, <1>4 DEF Writes
<1>5. \A u : Writes(c, u)' <=> u = t
  BY <1>1 DEF Writes
<1>6. \A u : Written(u)' <=> (u = t \/ Written(u))
  <2>1. \A u : ~ Writes(c, u)
    BY DEF Writes, Writers, Idle
  <2> QED
    BY <1>4, <1>5, <2>1 DEF Written
<1>7. /\ spoilt' \in [store : SUBSET Thread, replica : SUBSET Thread]
      /\ spoilt'.store = spoilt.store \cup Disturbs(t) \cup extra
      /\ spoilt'.replica = spoilt.replica
  <2>1. Disturbs(t) \subseteq Thread
    <3> SUFFICES ASSUME NEW d \in Caller, calls[d].kind = "copy" PROVE calls[d].thread \in Thread
      BY DEF Disturbs
    <3> QED
      BY Kinds DEF IInv, Typed, CopyCall
  <2> QED
    BY <2>1 DEF Spoil, Undisturbed
<1>8. Written(t) => t \in spoilt'.store
  BY <1>7 DEF Disturbs
<1>9. ASSUME NEW d \in Caller, d # c, calls[d].kind \in Writers, Trusted(d)'
      PROVE  Trusted(d) /\ calls[d].thread # t
  <2>1. Trusted(d)
    BY <1>3, <1>7, <1>9 DEF Trusted, SameWork
  <2>2. calls[d].thread # t
    <3> SUFFICES ASSUME calls[d].thread = t PROVE FALSE
      OBVIOUS
    <3>1. Uses(d, t) /\ Written(t)
      BY <1>9 DEF Uses, Written, Writes
    <3> QED
      BY <1>3, <1>8, <1>9, <3>1 DEF Trusted
  <2> QED
    BY <2>1, <2>2
<1>10. Trusted(c)' => ~ Written(t)
  <2>1. Written(t) => Crosses(t)
    BY DEF Written, Crosses, Uses
  <2> QED
    BY <1>1, <1>8, <2>1 DEF Trusted
<1>11. SoleWriters'
  <2> SUFFICES ASSUME NEW d \in Caller, calls'[d].kind \in Writers, Trusted(d)',
                      NEW e \in Caller, Writes(e, calls[d].thread)'
               PROVE  e = d
    BY DEF SoleWriters, Sole
  <2>1. CASE d = c
    <3>1. Writes(e, t)'
      BY <1>1, <2>1 DEF Writes
    <3>2. ~ Writes(e, t)
      BY <1>10, <2>1 DEF Written
    <3> QED
      BY <1>4, <2>1, <3>1, <3>2
  <2>2. CASE d # c
    <3>1. PICK u : u = calls[d].thread
      OBVIOUS
    <3>2. calls[d].kind \in Writers /\ calls'[d].thread = u /\ u # t /\ Trusted(d)
      BY <1>2, <1>3, <1>9, <2>2, <3>1
    <3>3. Writes(e, u)'
      BY <3>2 DEF Writes
    <3>4. e # c
      BY <1>5, <3>2, <3>3
    <3>5. Writes(e, u)
      BY <1>4, <3>3, <3>4
    <3> QED
      BY <3>1, <3>2, <3>5 DEF Undisturbed, SoleWriters, Sole
  <2> QED
    BY <2>1, <2>2
<1>12. ASSUME NEW map \in {store, replica}, NEW u \in Thread, Whole(map.key[u])
       PROVE  /\ map.key[u][Id] = map.key[u][Latest]
              /\ map.key[u][Meta] = map.key[u][Latest]
              /\ map.key[u][Parent] = IF map.key[u][Latest] = 0 THEN 0
                                      ELSE made'[map.key[u][Latest]].before
  <2>1. Covers(made, map.writes, map.key[u][Latest])
    BY DEF IInv, Covered, KeysCovered, Part
  <2> QED
    BY <1>12, <2>1 DEF Whole, Before, Covers
<1>13. TornOnlyWhenDisturbed'
  <2>1. ASSUME NEW u \in Thread, u \notin spoilt'.store, ~ Written(u)'
        PROVE  Whole(store.key[u])'
    <3>1. Whole(store.key[u])
      BY <1>6, <1>7, <2>1 DEF Undisturbed, TornOnlyWhenDisturbed
    <3> QED
      BY <1>12, <3>1 DEF Whole, Before
  <2>2. ASSUME NEW u \in Thread, u \notin spoilt'.replica PROVE Whole(replica.key[u])'
    <3>1. Whole(replica.key[u])
      BY <1>7, <2>2 DEF Undisturbed, TornOnlyWhenDisturbed
    <3> QED
      BY <1>12, <3>1 DEF Whole, Before
  <2> QED
    BY <2>1, <2>2 DEF TornOnlyWhenDisturbed
<1>14. ASSUME NEW d \in Caller, d # c, calls[d].kind \in Writers PROVE CallSound(d)'
  <2>1. CallSound(d)
    BY DEF Undisturbed
  <2>2. calls[d].kind # "prune" /\ calls'[d].kind = calls[d].kind
    BY <1>3, <1>14 DEF Writers
  <2>3. PutSound(d)'
    <3> SUFFICES ASSUME calls[d].kind = "put" PROVE PutSound(d)'
      BY <2>2 DEF PutSound
    <3>1. Trusted(d)' => Trusted(d)
      BY <1>9, <1>14
    <3>2. spoilt.store \subseteq spoilt'.store
      BY <1>7
    <3> QED
      BY <1>3, <1>14, <2>1, <3>1, <3>2 DEF CallSound, PutSound, SameWork
  <2>4. DeleteSound(d)'
    BY <1>3, <1>9, <1>14, <2>1 DEF CallSound, DeleteSound, SameWork
  <2>5. CopySound(d)'
    <3> SUFFICES ASSUME calls[d].kind = "copy", calls[d].thread \notin spoilt'.store
                 PROVE  CopySound(d)'
      BY <1>3, <1>14, <2>2 DEF CopySound
    <3>1. calls[d].thread \notin spoilt.store /\ calls[d].source \in Thread
      BY <1>7, Kinds DEF IInv, Typed, CopyCall
    <3>2. calls[d].source \notin spoilt.store /\ ~ Written(calls[d].source)
      BY <2>1, <3>1 DEF CallSound, CopySound
    <3>3. calls[d].source # t
      BY <1>7 DEF Disturbs
    <3>4. calls[d].source \notin Disturbs(t)
      <4> SUFFICES ASSUME NEW e \in Caller, calls[e].kind = "copy", calls[e].thread = calls[d].source
                   PROVE  FALSE
        BY <3>3 DEF Disturbs
      <4>1. Writes(e, calls[d].source)
        BY DEF Writes, Writers
      <4> QED
        BY <3>2, <4>1 DEF Written
    <3>5. calls'[d].source \notin spoilt'.store
      BY <1>3, <1>7, <1>14, <3>2, <3>3, <3>4 DEF SameWork
    <3>6. ~ Written(calls[d].source)'
      <4>1. PICK s : s = calls[d].source
        OBVIOUS
      <4>2. calls'[d].source = s
        BY <1>3, <1>14, <4>1 DEF SameWork
      <4>3. ~ Written(s)'
        BY <1>6, <3>2, <3>3, <4>1
      <4> QED
        BY <4>2, <4>3
    <3>7. PICK source, key : source = store.key[calls[d].source] /\ key = store.key[calls[d].thread]
      OBVIOUS
    <3>8. /\ \A p \in Core : /\ key[p] \in {0, source[p]}
                             /\ p \in Left(calls[d].todo) \/ key[p] = source[p]
          /\ calls[d].at = "set" /\ Head(calls[d].todo) \in Core
               => calls[d].held = source[Head(calls[d].todo)]
      BY <2>1, <3>1, <3>7 DEF CallSound, CopySound
    <3>9. /\ store'.key[calls'[d].source] = source /\ store'.key[calls'[d].thread] = key
          /\ calls'[d].todo = calls[d].todo /\ calls'[d].at = calls[d].at
          /\ calls'[d].held = calls[d].held
      BY <1>3, <1>14, <3>7 DEF SameWork
    <3>10. /\ \A p \in Core : /\ store'.key[calls'[d].thread][p] \in {0, store'.key[calls'[d].source][p]}
                              /\ \/ p \in Left(calls'[d].todo)
                                 \/ store'.key[calls'[d].thread][p] = store'.key[calls'[d].source][p]
           /\ calls'[d].at = "set" /\ Head(calls'[d].todo) \in Core
                => calls'[d].held = store'.key[calls'[d].source][Head(calls'[d].todo)]
      BY <3>8, <3>9
    <3> QED
      BY <3>5, <3>6, <3>10 DEF CopySound
  <2>6. PruneSound(d)'
    BY <2>2 DEF PruneSound
  <2> QED
    BY <2>3, <2>4, <2>5, <2>6 DEF CallSound
<1>15. ASSUME NEW d \in Caller, d # c, calls[d].kind \notin Writers PROVE CallSound(d)'
  <2>1. calls'[d].kind = calls[d].kind /\ (calls[d].kind = "prune" => calls'[d] = calls[d])
    BY <1>1, <1>15, CrossedWriters
  <2>2. PruneSound(d)
    BY DEF Undisturbed, CallSound
  <2> QED
    BY <1>15, <2>1, <2>2 DEF CallSound, PutSound, DeleteSound, CopySound, PruneSound, Writers
<1> QED
  BY <1>7, <1>11, <1>13, <1>14, <1>15 DEF Undisturbed

LEMMA InitUndisturbed == Init => Undisturbed
<1> SUFFICES ASSUME Init PROVE Undisturbed
  OBVIOUS
<1>1. \A t \in Thread, p \in Part : store.key[t][p] = 0 /\ replica.key[t][p] = 0
  BY DEF Init, Absent
<1>2. \A t \in Thread : Whole(store.key[t]) /\ Whole(replica.key[t])
  BY <1>1 DEF Whole, Before, Part
<1>3. \A c \in Caller : calls[c].kind = "idle"
  BY DEF Init, Idle
<1>4. SoleWriters /\ \A c \in Caller : CallSound(c)
  BY <1>3 DEF SoleWriters, Writers, CallSound, PutSound, DeleteSound, CopySound, PruneSound
<1> QED
  BY <1>2, <1>4 DEF Init, Undisturbed, TornOnlyWhenDisturbed

(* The keys a put has to set. *)
LEMMA PutLeft ==
    ASSUME NEW current, NEW todo,
           todo = (IF current = 0 THEN <<>> ELSE <<Parent>>) \o <<Latest, Id, Meta>>
    PROVE  /\ {Latest, Id, Meta} \subseteq Left(todo)
           /\ Parent \in Left(todo) <=> current # 0
<1>1. CASE current = 0
  <2>1. todo = <<>> \o <<Latest, Id, Meta>>
    BY <1>1
  <2>2. todo = <<Latest, Id, Meta>>
    <3>1. <<Latest, Id, Meta>> \in Seq(Part)
      BY DEF Part
    <3> QED
      BY <2>1, <3>1, ConcatEmptySeq
  <2>3. /\ {1, 2, 3} \subseteq DOMAIN todo
        /\ todo[1] = Latest /\ todo[2] = Id /\ todo[3] = Meta
    BY <2>2
  <2>4. \A i \in DOMAIN todo : todo[i] # Parent
    BY <2>2, Parts
  <2>5. {Latest, Id, Meta} \subseteq Left(todo) /\ Parent \notin Left(todo)
    BY <2>3, <2>4 DEF Left
  <2> QED
    BY <1>1, <2>5
<1>2. CASE current # 0
  <2>1. PICK first, rest : first = <<Parent>> /\ rest = <<Latest, Id, Meta>>
    OBVIOUS
  <2>2. /\ first \in Seq(Part) /\ Len(first) = 1 /\ first[1] = Parent
        /\ rest \in Seq(Part) /\ Len(rest) = 3
        /\ rest[1] = Latest /\ rest[2] = Id /\ rest[3] = Meta
    BY <2>1 DEF Part
  <2>3. todo = first \o rest
    BY <1>2, <2>1
  <2>4. /\ todo \in Seq(Part)
        /\ Len(todo) = 4
        /\ \A i \in 1..4 : todo[i] = IF i <= 1 THEN first[i] ELSE rest[i - 1]
    <3>1. /\ first \o rest \in Seq(Part)
          /\ Len(first \o rest) = Len(first) + Len(rest)
          /\ \A i \in 1..(Len(first) + Len(rest)) :
                (first \o rest)[i] = IF i <= Len(first) THEN first[i] ELSE rest[i - Len(first)]
      BY <2>2, ConcatProperties
    <3>2. /\ todo \in Seq(Part)
          /\ Len(todo) = 1 + 3
          /\ \A i \in 1..(1 + 3) : todo[i] = IF i <= 1 THEN first[i] ELSE rest[i - 1]
      BY <2>2, <2>3, <3>1
    <3> QED
      BY <3>2
  <2>5. /\ 1 \in DOMAIN todo /\ 2 \in DOMAIN todo /\ 3 \in DOMAIN todo /\ 4 \in DOMAIN todo
        /\ todo[1] = Parent /\ todo[2] = Latest /\ todo[3] = Id /\ todo[4] = Meta
    BY <2>2, <2>4
  <2>6. {Parent, Latest, Id, Meta} \subseteq Left(todo)
    BY <2>5 DEF Left
  <2> QED
    BY <1>2, <2>6
<1> QED
  BY <1>1, <1>2

LEMMA PutUndisturbed ==
    ASSUME IInv, IInv', Undisturbed, NEW c \in Caller, NEW t \in Thread, Put(c, t)
    PROVE  Undisturbed'
<1> DEFINE now == store.key[t][Id]
           entry == [thread |-> t, before |-> now, seen |-> store.writes[t]]
           put == [kind |-> "put", thread |-> t, checkpoint |-> Len(made) + 1,
                   current |-> now, alone |-> ~ Crosses(t), counted |-> FALSE,
                   todo |-> (IF now = 0 THEN <<>> ELSE <<Parent>>) \o <<Latest, Id, Meta>>]
<1>1. PICK call : call = put
  OBVIOUS
<1>2. PICK current : current = now
  OBVIOUS
<1>3. /\ calls[c] = Idle
      /\ made' = Append(made, entry)
      /\ Begin(c, call)
      /\ Spoil(Disturbs(t))
      /\ UNCHANGED <<store, replica>>
  BY <1>1 DEF Put, Starts
<1>4. /\ call.kind = "put" /\ call.thread = t /\ call.checkpoint = Len(made) + 1
      /\ call.current = current /\ (call.alone <=> ~ Crosses(t))
      /\ call.todo = (IF current = 0 THEN <<>> ELSE <<Parent>>) \o <<Latest, Id, Meta>>
  BY <1>1, <1>2
<1>5. /\ Len(made) + 1 \in DOMAIN made'
      /\ made'[Len(made) + 1].before = current
      /\ \A i \in DOMAIN made : i \in DOMAIN made' /\ made'[i] = made[i]
  <2>1. entry \in Made /\ made \in Seq(Made)
    BY DEF IInv, Typed, Made, Map, Part
  <2>2. entry.before = current
    BY <1>2
  <2> HIDE DEF entry
  <2> QED
    BY <1>3, <2>1, <2>2
<1> HIDE DEF put, now, entry
<1>6. calls'[c] = call
  <2>1. Crossed(call.kind, t) \in [Caller -> CallSet]
    BY CrossedTyped DEF IInv
  <2> QED
    BY <1>3, <1>4, <2>1 DEF Begin
<1>7. {Latest, Id, Meta} \subseteq Left(call.todo) /\ (Parent \in Left(call.todo) <=> current # 0)
  BY <1>4, PutLeft
<1>8. t \notin spoilt'.store /\ current = 0 => store.key[t][Parent] = 0
  <2> SUFFICES ASSUME t \notin spoilt'.store, current = 0 PROVE store.key[t][Parent] = 0
    OBVIOUS
  <2>1. t \notin spoilt.store /\ ~ Written(t)
    BY <1>3 DEF Spoil, Disturbs, Undisturbed
  <2>2. Whole(store.key[t])
    BY <2>1 DEF Undisturbed, TornOnlyWhenDisturbed
  <2> QED
    BY <1>2, <2>2 DEF now, Whole, Before
<1>9. CallSound(c)'
  <2>1. PutSound(c)'
    BY <1>3, <1>4, <1>5, <1>6, <1>7, <1>8 DEF PutSound
  <2> QED
    BY <1>4, <1>6, <2>1 DEF CallSound, DeleteSound, CopySound, PruneSound
<1>10. PICK extra \in {{}, {t}} : Spoil(Disturbs(t) \cup extra)
  <2>1. Disturbs(t) \cup {} = Disturbs(t)
    OBVIOUS
  <2> QED
    BY <1>3, <2>1
<1>11. call.kind \in Writers /\ (call.alone => ~ Crosses(t))
  BY <1>4 DEF Writers
<1> QED
  BY <1>3, <1>4, <1>5, <1>9, <1>10, <1>11, BeginStep

LEMMA DeleteUndisturbed ==
    ASSUME IInv, IInv', Undisturbed, NEW c \in Caller, NEW t \in Thread, DeleteThread(c, t)
    PROVE  Undisturbed'
<1>1. PICK call : call = [kind |-> "delete", thread |-> t, alone |-> ~ Crosses(t), todo |-> DeleteOrder]
  OBVIOUS
<1>2. /\ calls[c] = Idle /\ Begin(c, call)
      /\ Spoil(Disturbs(t))
      /\ UNCHANGED <<store, replica, made>>
  BY <1>1 DEF DeleteThread, Starts
<1>3. calls'[c] = call
  <2>1. Crossed(call.kind, t) \in [Caller -> CallSet]
    BY CrossedTyped DEF IInv
  <2> QED
    BY <1>1, <1>2, <2>1 DEF Begin
<1>4. CallSound(c)'
  BY <1>1, <1>3, OrdersLeft DEF CallSound, PutSound, DeleteSound, CopySound, PruneSound
<1>5. PICK extra \in {{}, {t}} : Spoil(Disturbs(t) \cup extra)
  <2>1. Disturbs(t) \cup {} = Disturbs(t)
    OBVIOUS
  <2> QED
    BY <1>2, <2>1
<1>6. call.kind \in Writers /\ call.thread = t /\ (call.alone => ~ Crosses(t))
  BY <1>1 DEF Writers
<1>7. \A i \in DOMAIN made : i \in DOMAIN made' /\ made'[i] = made[i]
  BY <1>2
<1> QED
  BY <1>2, <1>4, <1>5, <1>6, <1>7, BeginStep

(* A copy that does not spoil its target comes to an empty thread from one *)
(* at rest.                                                                *)
LEMMA CopyThreadUndisturbed ==
    ASSUME IInv, IInv', Undisturbed, NEW c \in Caller, NEW source \in Thread, NEW t \in Thread,
           CopyThread(c, source, t)
    PROVE  Undisturbed'
<1>1. PICK call : call = [kind |-> "copy", thread |-> t, source |-> source, held |-> 0,
                          alone |-> ~ Crosses(t), at |-> "get", todo |-> DeleteOrder]
  OBVIOUS
<1>2. PICK extra \in {{}, {t}} :
         extra = IF \/ store.key[t] # Absent
                    \/ source \in spoilt.store
                    \/ Written(source)
                 THEN {t} ELSE {}
  OBVIOUS
<1>3. /\ calls[c] = Idle /\ Begin(c, call) /\ source # t
      /\ Spoil(Disturbs(t) \cup extra)
      /\ UNCHANGED <<store, replica, made>>
  BY <1>1, <1>2 DEF CopyThread, Starts
<1>4. /\ calls'[c] = call
      /\ \A d \in Caller : d # c => calls'[d] = Crossed(call.kind, t)[d]
  <2>1. PICK crossed : crossed = Crossed(call.kind, t)
    OBVIOUS
  <2>2. crossed \in [Caller -> CallSet]
    BY <2>1, CrossedTyped DEF IInv
  <2>3. calls' = [crossed EXCEPT ![c] = call]
    BY <1>1, <1>3, <2>1 DEF Begin
  <2> QED
    BY <2>1, <2>2, <2>3
<1>5. CopySound(c)'
  <2> SUFFICES ASSUME t \notin spoilt'.store PROVE CopySound(c)'
    BY <1>1, <1>4 DEF CopySound
  <2>1. spoilt'.store = spoilt.store \cup Disturbs(t) \cup extra
    BY <1>3 DEF Spoil, Undisturbed
  <2>2. store.key[t] = Absent /\ source \notin spoilt.store /\ ~ Written(source)
    BY <1>2, <2>1
  <2>3. source \notin Disturbs(t)
    <3> SUFFICES ASSUME NEW d \in Caller, calls[d].kind = "copy", calls[d].thread = source PROVE FALSE
      BY <1>3 DEF Disturbs
    <3>1. Writes(d, source)
      BY DEF Writes, Writers
    <3> QED
      BY <2>2, <3>1 DEF Written
  <2>4. source \notin spoilt'.store
    BY <1>2, <1>3, <2>1, <2>2, <2>3
  <2>5. ~ Written(source)'
    <3> SUFFICES ASSUME NEW d \in Caller, Writes(d, source)' PROVE FALSE
      BY DEF Written
    <3>1. d # c
      BY <1>1, <1>3, <1>4 DEF Writes
    <3>2. PICK kind, other : kind = call.kind /\ other = Crossed(kind, t)[d]
      OBVIOUS
    <3>3. calls'[d] = other
      BY <1>4, <3>1, <3>2
    <3>4. Writes(d, source)
      BY <3>2, <3>3, CrossedWriters DEF Writes, SameWork, Writers
    <3> QED
      BY <2>2, <3>4 DEF Written
  <2>6. \A p \in Core : store.key[t][p] = 0 /\ p \in Left(DeleteOrder)
    BY <2>2, OrdersLeft, Parts DEF Absent
  <2> QED
    BY <1>1, <1>3, <1>4, <2>4, <2>5, <2>6 DEF CopySound
<1>6. CallSound(c)'
  BY <1>1, <1>4, <1>5 DEF CallSound, PutSound, DeleteSound, PruneSound
<1>7. call.kind \in Writers /\ call.thread = t /\ (call.alone => ~ Crosses(t))
  BY <1>1 DEF Writers
<1>8. \A i \in DOMAIN made : i \in DOMAIN made' /\ made'[i] = made[i]
  BY <1>3
<1> QED
  BY <1>3, <1>6, <1>7, <1>8, BeginStep

(* The remaining steps of a writer. *)

LEMMA PutSetUndisturbed ==
    ASSUME IInv, IInv', Undisturbed, NEW c \in Caller, PutSet(c)
    PROVE  Undisturbed'
<1>1. PICK call : call = calls[c]
  OBVIOUS
<1>2. call \in PutCall /\ call.todo # <<>> /\ call.thread \in Thread
  BY <1>1, Kinds DEF IInv, Typed, PutSet, PutCall
<1>3. PICK p \in Part : p = Head(call.todo)
  BY <1>2, LeftOver DEF PutCall
<1>4. PICK todo \in Seq(Part) : todo = Tail(call.todo)
  BY <1>2, LeftOver DEF PutCall
<1>5. Left(call.todo) = {p} \cup Left(todo)
  BY <1>2, <1>3, <1>4, LeftOver DEF PutCall
<1>6. PICK t \in Thread : t = call.thread
  BY <1>2
<1>7. PICK value : value = IF p = Parent THEN call.current ELSE call.checkpoint
  OBVIOUS
<1>8. PICK next : next = [call EXCEPT !.todo = todo]
  OBVIOUS
<1>9. /\ calls' = [calls EXCEPT ![c] = next]
      /\ store' = [store EXCEPT !.key[t][p] = value]
      /\ UNCHANGED <<replica, made, spoilt>>
  <2>1. calls' = Rest(c) /\ Set(t, p, value) /\ UNCHANGED <<replica, made, spoilt>>
    BY <1>1, <1>3, <1>6, <1>7 DEF PutSet
  <2> QED
    BY <1>1, <1>4, <1>8, <2>1 DEF Rest, Set, IInv, Typed
<1>10. /\ next.kind = "put" /\ next.thread = t /\ next.alone = call.alone /\ next.todo = todo
       /\ next.checkpoint = call.checkpoint /\ next.current = call.current
  BY <1>2, <1>6, <1>8 DEF PutCall
<1>11. /\ \A u \in Thread : u # t => store'.key[u] = store.key[u]
       /\ store'.key[t][p] = value
       /\ \A q \in Part : q # p => store'.key[t][q] = store.key[t][q]
  BY <1>9 DEF IInv, Typed, Map
<1>12. calls'[c] = next
  BY <1>9 DEF IInv, Typed
<1>13. CallSound(c)'
  <2>1. PutSound(c)
    BY DEF Undisturbed, CallSound
  <2>2. /\ call.checkpoint \in DOMAIN made
        /\ made[call.checkpoint].before = call.current
        /\ call.current = 0 => Parent \notin Left(call.todo)
        /\ t \notin spoilt.store /\ call.current = 0 => store.key[t][Parent] = 0
    BY <1>1, <1>2, <1>6, <2>1 DEF PutSound, PutCall
  <2>3. Trusted(c) =>
           /\ \A q \in {Latest, Id, Meta} : q \in Left(call.todo) \/ store.key[t][q] = call.checkpoint
           /\ call.current # 0 => Parent \in Left(call.todo) \/ store.key[t][Parent] = call.current
    BY <1>1, <1>2, <1>6, <2>1 DEF PutSound, PutCall
  <2>4. Trusted(c)' <=> Trusted(c)
    BY <1>1, <1>6, <1>9, <1>10, <1>12 DEF Trusted
  <2>5. ASSUME Trusted(c), NEW q \in {Latest, Id, Meta}
        PROVE  q \in Left(todo) \/ store'.key[t][q] = call.checkpoint
    <3>1. q \in Part /\ q # Parent
      BY Parts DEF Core
    <3>2. CASE q = p
      BY <1>7, <1>11, <3>1, <3>2
    <3>3. CASE q # p
      BY <1>5, <1>11, <2>3, <2>5, <3>1, <3>3
    <3> QED
      BY <3>2, <3>3
  <2>6. Parent \in Part
    BY DEF Part
  <2>7. ASSUME Trusted(c), call.current # 0
        PROVE  Parent \in Left(todo) \/ store'.key[t][Parent] = call.current
    <3>1. CASE p = Parent
      BY <1>7, <1>11, <3>1
    <3>2. CASE p # Parent
      BY <1>5, <1>11, <2>3, <2>6, <2>7, <3>2
    <3> QED
      BY <3>1, <3>2
  <2>8. call.current = 0 => Parent \notin Left(todo) /\ store'.key[t][Parent] = store.key[t][Parent]
    BY <1>5, <1>11, <2>2, <2>6
  <2>9. PutSound(c)'
    BY <1>9, <1>10, <1>12, <2>2, <2>4, <2>5, <2>7, <2>8 DEF PutSound
  <2> QED
    BY <1>10, <1>12, <2>9 DEF CallSound, DeleteSound, CopySound, PruneSound
<1>14. calls[c].kind \in Writers /\ t = calls[c].thread
  BY <1>1, <1>2, <1>6 DEF PutCall, Writers
<1>15. next.kind = calls[c].kind /\ next.alone = calls[c].alone /\ next # Idle
  BY <1>1, <1>2, <1>10 DEF PutCall, Idle
<1> QED
  BY <1>9, <1>10, <1>11, <1>13, <1>14, <1>15, WriterStep

LEMMA PutDroppedUndisturbed ==
    ASSUME IInv, Undisturbed, NEW c \in Caller, PutDropped(c)
    PROVE  Undisturbed'
<1>1. PICK call \in PutCall : call = calls[c] /\ call.todo # <<>>
  BY Kinds DEF IInv, Typed, PutDropped
<1>2. PICK t \in Thread : t = call.thread
  BY <1>1 DEF PutCall
<1>3. calls' = Short(c) /\ UNCHANGED <<store, replica, made>> /\ Spoil({t})
  BY <1>1, <1>2 DEF PutDropped
<1>4. calls[c].kind = "put" /\ calls[c].todo # <<>>
  BY <1>1 DEF PutCall
<1>5. /\ calls'[c].kind = "put" /\ calls'[c].thread = t /\ ~ calls'[c].alone
      /\ calls'[c].checkpoint = call.checkpoint /\ calls'[c].current = call.current
      /\ calls'[c].todo = Tail(call.todo)
  <2>1. /\ calls'[c] \in PutCall /\ calls'[c].thread = t /\ ~ calls'[c].alone
        /\ calls'[c].checkpoint = call.checkpoint /\ calls'[c].current = call.current
        /\ calls'[c].todo = Tail(call.todo)
    BY <1>1, <1>2, <1>3, <1>4, ShortCalls
  <2> QED
    BY <2>1 DEF PutCall
<1>6. ASSUME NEW d \in Caller, d # c
      PROVE  \/ calls'[d] = calls[d]
             \/ calls[d].kind = "get_tuple" /\ calls'[d].kind = "get_tuple"
  <2>1. CASE calls[d].kind = "get_tuple" /\ calls[d].thread = t
    <3>1. calls'[d] \in ReadCall
      BY <1>1, <1>2, <1>3, <1>4, <1>6, <2>1, ShortOther
    <3> QED
      BY <2>1, <3>1 DEF ReadCall
  <2>2. CASE ~ (calls[d].kind = "get_tuple" /\ calls[d].thread = t)
    BY <1>1, <1>2, <1>3, <1>4, <1>6, <2>2, ShortOther
  <2> QED
    BY <2>1, <2>2
<1>7. CallSound(c)'
  <2>1. PutSound(c)
    BY DEF Undisturbed, CallSound
  <2>2. /\ call.checkpoint \in DOMAIN made
        /\ made[call.checkpoint].before = call.current
        /\ call.current = 0 => Parent \notin Left(call.todo)
    BY <1>1, <1>4, <2>1 DEF PutSound
  <2>3. Left(call.todo) = {Head(call.todo)} \cup Left(Tail(call.todo))
    BY <1>1, LeftOver DEF PutCall
  <2>4. t \in spoilt'.store
    BY <1>3 DEF Undisturbed, Spoil
  <2>5. ~ Trusted(c)'
    BY <1>5, <2>4 DEF Trusted
  <2>6. PutSound(c)'
    BY <1>3, <1>5, <2>2, <2>3, <2>4, <2>5 DEF PutSound
  <2> QED
    BY <1>5, <2>6 DEF CallSound, DeleteSound, CopySound, PruneSound
<1>8. calls[c].kind \in Writers /\ t = calls[c].thread
  BY <1>1, <1>2, <1>4 DEF Writers
<1>9. calls'[c].kind = calls[c].kind /\ calls'[c].thread = t /\ (calls'[c].alone => calls[c].alone)
  BY <1>4, <1>5
<1> QED
  BY <1>3, <1>6, <1>7, <1>8, <1>9, LossStep

LEMMA PutCountUndisturbed ==
    ASSUME IInv, IInv', Undisturbed, NEW c \in Caller, PutCount(c)
    PROVE  Undisturbed'
<1>1. PICK call : call = calls[c]
  OBVIOUS
<1>2. call \in PutCall /\ call.todo = <<>>
  BY <1>1, Kinds DEF IInv, Typed, PutCount, PutCall
<1>3. PICK t \in Thread : t = call.thread
  BY <1>2 DEF PutCall
<1>4. PICK next : next = [call EXCEPT !.counted = TRUE]
  OBVIOUS
<1>5. calls' = [calls EXCEPT ![c] = next] /\ UNCHANGED <<store, replica, made, spoilt>>
  BY <1>1, <1>4 DEF PutCount, IInv, Typed
<1>6. /\ next.kind = "put" /\ next.thread = t /\ next.alone = call.alone /\ next.todo = call.todo
      /\ next.checkpoint = call.checkpoint /\ next.current = call.current
  BY <1>2, <1>3, <1>4 DEF PutCall
<1>7. calls'[c] = next
  BY <1>5 DEF IInv, Typed
<1>8. CallSound(c)'
  <2>1. PutSound(c)
    BY DEF Undisturbed, CallSound
  <2>2. Trusted(c)' <=> Trusted(c)
    BY <1>1, <1>3, <1>5, <1>6, <1>7 DEF Trusted
  <2>3. /\ call.checkpoint \in DOMAIN made
        /\ made[call.checkpoint].before = call.current
        /\ call.current = 0 => Parent \notin Left(call.todo)
        /\ t \notin spoilt.store /\ call.current = 0 => store.key[t][Parent] = 0
    BY <1>1, <1>2, <1>3, <2>1 DEF PutSound, PutCall
  <2>4. Trusted(c) =>
           /\ \A q \in {Latest, Id, Meta} : q \in Left(call.todo) \/ store.key[t][q] = call.checkpoint
           /\ call.current # 0 => Parent \in Left(call.todo) \/ store.key[t][Parent] = call.current
    BY <1>1, <1>2, <1>3, <2>1 DEF PutSound, PutCall
  <2>5. PutSound(c)'
    BY <1>5, <1>6, <1>7, <2>2, <2>3, <2>4 DEF PutSound
  <2> QED
    BY <1>6, <1>7, <2>5 DEF CallSound, DeleteSound, CopySound, PruneSound
<1>9. /\ calls[c].kind \in Writers /\ t = calls[c].thread
      /\ next.kind = calls[c].kind /\ next.alone = calls[c].alone /\ next # Idle
  BY <1>1, <1>2, <1>3, <1>6 DEF PutCall, Writers, Idle
<1>10. \A u \in Thread : u # t => store'.key[u] = store.key[u]
  BY <1>5
<1>11. UNCHANGED <<replica, made>> /\ spoilt' = spoilt
  BY <1>5
<1> QED
  BY <1>5, <1>6, <1>8, <1>9, <1>10, <1>11, WriterStep

(* A put that ran alone ends with a whole checkpoint, if the parent is     *)
(* right.                                                                  *)
LEMMA PutEndsUndisturbed ==
    ASSUME IInv, IInv', Undisturbed, NEW c \in Caller, PutEnds(c), UNCHANGED <<replica, made>>,
           UNCHANGED store \/ Set(calls[c].thread, NextSlot, Entry(calls[c]))
    PROVE  Undisturbed'
<1>1. PICK call : call = calls[c]
  OBVIOUS
<1>2. call \in PutCall /\ call.todo = <<>>
  BY <1>1, Kinds DEF IInv, Typed, PutEnds, PutCall
<1>3. PICK t \in Thread : t = call.thread
  BY <1>2 DEF PutCall
<1>4. PICK p : p = NextSlot
  OBVIOUS
<1>5. /\ calls' = [calls EXCEPT ![c] = Idle]
      /\ store' = store \/ store' = [store EXCEPT !.key[t][p] = Entry(call)]
      /\ spoilt' = [spoilt EXCEPT !.store = IF Repairs(call) THEN @ \ {t} ELSE @]
      /\ UNCHANGED <<replica, made>>
  BY <1>1, <1>3, <1>4 DEF PutEnds, Set
<1>6. /\ \A u \in Thread : u # t => store'.key[u] = store.key[u]
      /\ \A q \in Core : store'.key[t][q] = store.key[t][q]
  <2>1. p \notin Core
    BY <1>4, Parts DEF NextSlot
  <2>2. CASE store' = store
    BY <2>2
  <2>3. CASE store' = [store EXCEPT !.key[t][p] = Entry(call)]
    BY <2>1, <2>3, Parts DEF IInv, Typed, Map
  <2> QED
    BY <1>5, <2>2, <2>3
<1>7. calls'[c] = Idle
  BY <1>5 DEF IInv, Typed
<1>8. CallSound(c)'
  BY <1>7 DEF CallSound, PutSound, DeleteSound, CopySound, PruneSound, Idle
<1>9. \/ spoilt' = spoilt
      \/ call.alone /\ spoilt' = [spoilt EXCEPT !.store = @ \ {t}]
  <2>1. CASE Repairs(call)
    BY <1>5, <2>1 DEF Repairs
  <2>2. CASE ~ Repairs(call)
    BY <1>5, <2>2 DEF Undisturbed
  <2> QED
    BY <2>1, <2>2
<1>10. ASSUME t \notin spoilt'.store PROVE Whole(store'.key[t])
  <2>1. PutSound(c)
    BY DEF Undisturbed, CallSound
  <2>2. PICK key : key = store.key[t]
    OBVIOUS
  <2>3. Repairs(call) \/ t \notin spoilt.store
    BY <1>5, <1>10 DEF Undisturbed
  <2>4. Trusted(c)
    BY <1>1, <1>3, <2>3 DEF Repairs, Trusted
  <2>5. call.current = 0 => key[Parent] = 0
    BY <1>1, <1>2, <1>3, <2>1, <2>2, <2>3 DEF Repairs, PutSound, PutCall
  <2>6. /\ call.checkpoint \in DOMAIN made
        /\ made[call.checkpoint].before = call.current
        /\ key[Latest] = call.checkpoint /\ key[Id] = call.checkpoint /\ key[Meta] = call.checkpoint
        /\ call.current # 0 => key[Parent] = call.current
    BY <1>1, <1>2, <1>3, <2>1, <2>2, <2>4, LeftNone DEF PutSound, PutCall
  <2>7. call.checkpoint # 0
    BY <2>6 DEF IInv, Typed
  <2>8. Whole(key)
    BY <2>5, <2>6, <2>7 DEF Whole, Before
  <2> QED
    BY <1>6, <2>2, <2>8 DEF Whole, Core
<1>11. /\ calls[c].kind \in Writers /\ t = calls[c].thread
  BY <1>1, <1>2, <1>3 DEF PutCall, Writers
<1>12. PICK next : next = Idle
  OBVIOUS
<1>13. \/ spoilt' = spoilt
       \/ next = Idle /\ calls[c].alone /\ spoilt' = [spoilt EXCEPT !.store = @ \ {t}]
  BY <1>1, <1>9, <1>12
<1>14. calls' = [calls EXCEPT ![c] = next]
  BY <1>5, <1>12
<1>15. UNCHANGED <<replica, made>>
  BY <1>5
<1> QED
  BY <1>6, <1>8, <1>10, <1>11, <1>12, <1>13, <1>14, <1>15, WriterStep

LEMMA PutHistoryUndisturbed ==
    ASSUME IInv, IInv', Undisturbed, NEW c \in Caller, PutHistory(c) \/ HistoryDropped(c)
    PROVE  Undisturbed'
BY PutEndsUndisturbed DEF PutHistory, HistoryDropped

LEMMA RemoveUndisturbed ==
    ASSUME IInv, IInv', Undisturbed, NEW c \in Caller, RemoveKey(c)
    PROVE  Undisturbed'
<1>1. PICK call : call = calls[c]
  OBVIOUS
<1>2. call \in DeleteCall \cup PruneCall
  BY <1>1, Kinds DEF IInv, Typed, RemoveKey
<1>3. PICK p \in Part, todo \in Seq(Part) : p = Head(call.todo) /\ todo = Tail(call.todo)
  <2>1. call.todo \in Seq(Part) /\ call.todo # <<>>
    BY <1>2 DEF DeleteCall, PruneCall
  <2> QED
    BY <2>1, LeftOver
<1>4. /\ Left(call.todo) = {p} \cup Left(todo)
      /\ Len(call.todo) = 1 => Left(call.todo) = {p}
  <2>1. call.todo \in Seq(Part) /\ call.todo # <<>>
    BY <1>2 DEF DeleteCall, PruneCall
  <2> QED
    BY <1>3, <2>1, LeftOver
<1>5. PICK t \in Thread : t = call.thread
  BY <1>2 DEF DeleteCall, PruneCall
<1>6. PICK next : next = IF Len(call.todo) = 1 THEN Idle ELSE [call EXCEPT !.todo = todo]
  OBVIOUS
<1>7. /\ calls' = [calls EXCEPT ![c] = next]
      /\ store' = [store EXCEPT !.key[t][p] = 0]
      /\ UNCHANGED <<replica, made>>
  <2>1. Set(t, p, 0) /\ UNCHANGED <<replica, made>>
    BY <1>1, <1>3, <1>5 DEF RemoveKey
  <2>2. CASE Len(call.todo) = 1
    BY <1>1, <1>6, <2>1, <2>2 DEF RemoveKey, Set
  <2>3. CASE Len(call.todo) # 1
    <3>1. calls' = Rest(c)
      BY <1>1, <2>3 DEF RemoveKey
    <3> QED
      BY <1>1, <1>3, <1>6, <2>1, <2>3, <3>1 DEF Rest, Set, IInv, Typed
  <2> QED
    BY <2>2, <2>3
<1>8. calls'[c] = next /\ \A d \in Caller : d # c => calls'[d] = calls[d]
  BY <1>7 DEF IInv, Typed
<1>9. /\ \A u \in Thread : u # t => store'.key[u] = store.key[u]
      /\ store'.key[t][p] = 0
      /\ \A q \in Part : q # p => store'.key[t][q] = store.key[t][q]
  BY <1>7 DEF IInv, Typed, Map
<1>10. CASE call \in DeleteCall
  <2>1. DeleteSound(c)
    BY DEF Undisturbed, CallSound
  <2>2. Trusted(c) => \A q \in Core : q \in Left(call.todo) \/ store.key[t][q] = 0
    BY <1>1, <1>5, <1>10, <2>1 DEF DeleteSound, DeleteCall
  <2>3. Trusted(c) => \A q \in Core : q \in Left(todo) \/ store'.key[t][q] = 0
    BY <1>4, <1>9, <2>2, Parts
  <2>4. \/ spoilt' = spoilt
        \/ next = Idle /\ call.alone /\ spoilt' = [spoilt EXCEPT !.store = @ \ {t}]
    <3>1. CASE Len(call.todo) = 1 /\ call.alone
      BY <1>1, <1>5, <1>6, <1>10, <3>1 DEF RemoveKey, DeleteCall
    <3>2. CASE ~ (Len(call.todo) = 1 /\ call.alone)
      BY <1>1, <3>2 DEF RemoveKey, Undisturbed
    <3> QED
      BY <3>1, <3>2
  <2>5. ASSUME next = Idle, t \notin spoilt'.store PROVE Whole(store'.key[t])
    <3>1. Len(call.todo) = 1
      BY <1>6, <1>10, <2>5 DEF DeleteCall, Idle
    <3>2. Trusted(c)
      BY <1>1, <1>5, <2>4, <2>5 DEF Trusted
    <3>3. \A q \in Core : store'.key[t][q] = 0
      BY <1>4, <1>9, <2>2, <3>1, <3>2, Parts
    <3> QED
      BY <3>3 DEF Whole, Before, Core
  <2>6. CallSound(c)'
    <3>1. CASE next = Idle
      BY <1>8, <3>1 DEF CallSound, PutSound, DeleteSound, CopySound, PruneSound, Idle
    <3>2. CASE next # Idle
      <4>1. next.kind = "delete" /\ next.thread = t /\ next.alone = call.alone /\ next.todo = todo
        BY <1>5, <1>6, <1>10, <3>2 DEF DeleteCall
      <4>2. spoilt' = spoilt
        BY <2>4, <3>2
      <4>3. Trusted(c)' <=> Trusted(c)
        BY <1>1, <1>5, <1>8, <4>1, <4>2 DEF Trusted
      <4> QED
        BY <1>8, <2>3, <4>1, <4>3 DEF CallSound, PutSound, DeleteSound, CopySound, PruneSound
    <3> QED
      BY <3>1, <3>2
  <2>7. /\ calls[c].kind \in Writers /\ t = calls[c].thread
        /\ \/ next = Idle
           \/ next.kind = calls[c].kind /\ next.thread = t /\ next.alone = calls[c].alone
    BY <1>1, <1>5, <1>6, <1>10 DEF DeleteCall, Writers
  <2>8. \/ spoilt' = spoilt
        \/ next = Idle /\ calls[c].alone /\ spoilt' = [spoilt EXCEPT !.store = @ \ {t}]
    BY <1>1, <2>4
  <2>9. UNCHANGED <<replica, made>>
    BY <1>7
  <2> QED
    BY <1>7, <1>9, <2>5, <2>6, <2>7, <2>8, <2>9, WriterStep
<1>11. CASE call \in PruneCall
  <2>1. PruneSound(c)
    BY DEF Undisturbed, CallSound
  <2>2. call.kind = "prune" /\ Left(call.todo) \cap Core = {}
    BY <1>1, <1>11, <2>1 DEF PruneSound, PruneCall
  <2>3. \A u \in Thread, q \in Core : store'.key[u][q] = store.key[u][q]
    BY <1>4, <1>9, <2>2, Parts
  <2>4. spoilt' = spoilt
    BY <1>1, <2>2 DEF RemoveKey, Undisturbed
  <2>5. next = Idle \/ (next.kind = "prune" /\ next.todo = todo)
    BY <1>6, <1>11 DEF PruneCall
  <2>6. calls[c].kind \notin Writers /\ calls'[c].kind \notin Writers
    BY <1>1, <1>8, <2>2, <2>5 DEF Writers, Idle
  <2>7. PruneSound(c)'
    BY <1>4, <1>8, <2>2, <2>5 DEF PruneSound, Idle
  <2>8. UNCHANGED <<replica, made, spoilt>>
    BY <1>7, <2>4
  <2> QED
    BY <1>8, <2>3, <2>6, <2>7, <2>8, BystanderStep
<1> QED
  BY <1>2, <1>10, <1>11

(* What is known of a copy whose target is not spoilt. *)
LEMMA CopyFacts ==
    ASSUME IInv, Undisturbed, NEW c \in Caller, calls[c].kind = "copy",
           NEW call, call = calls[c], NEW t, t = call.thread, NEW s, s = call.source
    PROVE  /\ call \in CopyCall
           /\ t \in Thread /\ s \in Thread
           /\ Head(call.todo) \in Part
           /\ Left(call.todo) = {Head(call.todo)} \cup Left(Tail(call.todo))
           /\ Len(call.todo) = 1 => Left(call.todo) = {Head(call.todo)}
           /\ t \notin spoilt.store =>
                /\ s \notin spoilt.store /\ ~ Written(s) /\ s # t
                /\ \A q \in Core : /\ store.key[t][q] \in {0, store.key[s][q]}
                                   /\ q \in Left(call.todo) \/ store.key[t][q] = store.key[s][q]
                /\ call.at = "set" /\ Head(call.todo) \in Core
                     => call.held = store.key[s][Head(call.todo)]
                /\ Whole(store.key[s])
<1>1. call \in CopyCall
  BY Kinds DEF IInv, Typed
<1>2. t \in Thread /\ s \in Thread /\ call.todo \in Seq(Part) /\ call.todo # <<>>
  BY <1>1 DEF CopyCall
<1>3. CopySound(c)
  BY DEF Undisturbed, CallSound
<1>4. ASSUME t \notin spoilt.store
      PROVE  /\ s \notin spoilt.store /\ ~ Written(s)
             /\ \A q \in Core : /\ store.key[t][q] \in {0, store.key[s][q]}
                                /\ q \in Left(call.todo) \/ store.key[t][q] = store.key[s][q]
             /\ call.at = "set" /\ Head(call.todo) \in Core
                  => call.held = store.key[s][Head(call.todo)]
  BY <1>3, <1>4 DEF CopySound
<1>5. Writes(c, t)
  BY DEF Writes, Writers
<1>6. t \notin spoilt.store => s # t /\ Whole(store.key[s])
  BY <1>2, <1>4, <1>5 DEF Written, Undisturbed, TornOnlyWhenDisturbed
<1> QED
  BY <1>1, <1>2, <1>4, <1>6, LeftOver

(* A copy of all core keys of a whole checkpoint is whole. *)
LEMMA CopyWhole ==
    ASSUME NEW key, NEW source, Whole(source), \A q \in Core : key[q] = source[q]
    PROVE  Whole(key)
BY DEF Whole, Core

OthersKept(t) == \A u \in Thread : u # t => store'.key[u] = store.key[u]

(* The target of a copy has nothing but what the source has, and all that  *)
(* is not left to do.                                                      *)
Copied(source, key, todo) ==
    \A q \in Core : key[q] \in {0, source[q]} /\ (q \in Left(todo) \/ key[q] = source[q])

(* A copy gets on: what it has dealt with is as in the source.             *)
LEMMA CopyGoesOn ==
    ASSUME IInv, IInv', Undisturbed, NEW c \in Caller, calls[c].kind = "copy",
           NEW t \in Thread, t = calls[c].thread, NEW s \in Thread, s = calls[c].source,
           NEW next, calls' = [calls EXCEPT ![c] = next],
           next.kind = "copy", next.thread = t, next.source = s, next.alone = calls[c].alone,
           UNCHANGED <<replica, made, spoilt>>,
           OthersKept(t),
           t \notin spoilt.store => Copied(store.key[s], store'.key[t], next.todo),
           t \notin spoilt.store /\ next.at = "set" /\ Head(next.todo) \in Core
                => next.held = store.key[s][Head(next.todo)]
    PROVE  Undisturbed'
<1>1. calls'[c] = next /\ \A d \in Caller : d # c => calls'[d] = calls[d]
  BY DEF IInv, Typed
<1>2. t \in Thread /\ s \in Thread
  BY CopyFacts
<1>3. \A u : Written(u)' <=> Written(u)
  BY <1>1 DEF Written, Writes
<1>4. CopySound(c)'
  <2> SUFFICES ASSUME t \notin spoilt.store PROVE CopySound(c)'
    BY <1>1 DEF CopySound
  <2>1. s \notin spoilt.store /\ ~ Written(s)' /\ s # t
    BY <1>3, CopyFacts
  <2>2. store'.key[s] = store.key[s]
    BY <1>2, <2>1 DEF OthersKept
  <2>3. \A q \in Core : /\ store'.key[t][q] \in {0, store'.key[s][q]}
                        /\ q \in Left(next.todo) \/ store'.key[t][q] = store'.key[s][q]
    BY <2>2 DEF Copied
  <2>4. next.at = "set" /\ Head(next.todo) \in Core => next.held = store'.key[s][Head(next.todo)]
    BY <2>2
  <2>5. /\ calls'[c].thread = t /\ calls'[c].source = s
        /\ calls'[c].todo = next.todo /\ calls'[c].at = next.at /\ calls'[c].held = next.held
    BY <1>1
  <2>6. /\ spoilt'.store = spoilt.store
        /\ calls'[c].source \notin spoilt'.store
    BY <2>1, <2>5
  <2>7. ~ Written(calls[c].source)'
    BY <2>1, <2>5
  <2>8. /\ \A q \in Core : /\ store'.key[calls'[c].thread][q] \in {0, store'.key[calls'[c].source][q]}
                           /\ \/ q \in Left(calls'[c].todo)
                              \/ store'.key[calls'[c].thread][q] = store'.key[calls'[c].source][q]
        /\ calls'[c].at = "set" /\ Head(calls'[c].todo) \in Core
             => calls'[c].held = store'.key[calls'[c].source][Head(calls'[c].todo)]
    BY <2>3, <2>4, <2>5
  <2> QED
    BY <2>6, <2>7, <2>8 DEF CopySound
<1>5. CallSound(c)'
  BY <1>1, <1>4 DEF CallSound, PutSound, DeleteSound, PruneSound
<1>6. /\ calls[c].kind \in Writers /\ t = calls[c].thread
      /\ next.kind = calls[c].kind /\ next.alone = calls[c].alone /\ next # Idle
  BY DEF Writers, Idle
<1>7. UNCHANGED <<replica, made>> /\ spoilt' = spoilt
  OBVIOUS
<1>8. \A u \in Thread : u # t => store'.key[u] = store.key[u]
  BY DEF OthersKept
<1> QED
  BY <1>5, <1>6, <1>7, <1>8, WriterStep

(* A copy ends: the target has what the source has. *)
LEMMA CopyEnds ==
    ASSUME IInv, IInv', Undisturbed, NEW c \in Caller, calls[c].kind = "copy",
           NEW t \in Thread, t = calls[c].thread, NEW s \in Thread, s = calls[c].source,
           calls' = [calls EXCEPT ![c] = Idle],
           UNCHANGED <<replica, made, spoilt>>,
           OthersKept(t),
           t \notin spoilt.store => Copied(store.key[s], store'.key[t], <<>>)
    PROVE  Undisturbed'
<1>1. calls'[c] = Idle
  BY DEF IInv, Typed
<1>2. t \notin spoilt.store => Whole(store.key[s])
  BY CopyFacts
<1>3. t \notin spoilt.store => Whole(store'.key[t])
  BY <1>2, CopyWhole, LeftNone DEF Copied
<1>4. CallSound(c)'
  BY <1>1 DEF CallSound, PutSound, DeleteSound, CopySound, PruneSound, Idle
<1>5. calls[c].kind \in Writers
  BY DEF Writers
<1>6. PICK next : next = Idle
  OBVIOUS
<1>7. calls' = [calls EXCEPT ![c] = next] /\ UNCHANGED <<replica, made>> /\ spoilt' = spoilt
  BY <1>6
<1>8. \A u \in Thread : u # t => store'.key[u] = store.key[u]
  BY DEF OthersKept
<1> QED
  BY <1>3, <1>4, <1>5, <1>6, <1>7, <1>8, WriterStep

LEMMA CopyGetUndisturbed ==
    ASSUME IInv, IInv', Undisturbed, NEW c \in Caller, CopyGet(c)
    PROVE  Undisturbed'
<1>1. PICK call, t, s : call = calls[c] /\ t = call.thread /\ s = call.source
  OBVIOUS
<1>2. calls[c].kind = "copy" /\ UNCHANGED <<store, replica, made, spoilt>>
  BY DEF CopyGet
<1>3. PICK p, todo : p = Head(call.todo) /\ todo = Tail(call.todo)
  OBVIOUS
<1>4. /\ call \in CopyCall
      /\ t \in Thread /\ s \in Thread /\ p \in Part
      /\ Left(call.todo) = {p} \cup Left(todo)
      /\ Len(call.todo) = 1 => Left(call.todo) = {p}
  BY <1>1, <1>2, <1>3, CopyFacts
<1>5. t \notin spoilt.store =>
         \A q \in Core : /\ store.key[t][q] \in {0, store.key[s][q]}
                         /\ q \in Left(call.todo) \/ store.key[t][q] = store.key[s][q]
  BY <1>1, <1>2, CopyFacts
<1>6. PICK value : value = store.key[s][p]
  OBVIOUS
<1>11. calls[c].kind = "copy" /\ t = calls[c].thread /\ s = calls[c].source
  BY <1>1, <1>2
<1>12. OthersKept(t)
  BY <1>2 DEF OthersKept
<1>13. UNCHANGED <<replica, made, spoilt>>
  BY <1>2
<1>14. t \in Thread /\ s \in Thread
  BY <1>4
<1>7. CASE value # 0
  <2>1. PICK next : next = [call EXCEPT !.held = value, !.at = "set"]
    OBVIOUS
  <2>2. calls' = [calls EXCEPT ![c] = next]
    <3>1. calls' = [calls EXCEPT ![c].held = value, ![c].at = "set"]
      BY <1>1, <1>3, <1>6, <1>7 DEF CopyGet
    <3> QED
      BY <1>1, <2>1, <3>1 DEF IInv, Typed
  <2>3. /\ next.kind = "copy" /\ next.thread = t /\ next.source = s /\ next.alone = call.alone
        /\ next.todo = call.todo /\ next.held = value
    BY <1>1, <1>4, <2>1 DEF CopyCall
  <2>4. t \notin spoilt.store => Copied(store.key[s], store'.key[t], next.todo)
    BY <1>2, <1>5, <2>3 DEF Copied
  <2>5. next.held = store.key[s][Head(next.todo)]
    BY <1>3, <1>6, <2>3
  <2>6. next.alone = calls[c].alone
    BY <1>1, <2>3
  <2> QED
    BY <1>11, <1>12, <1>13, <1>14, <2>2, <2>3, <2>4, <2>5, <2>6, CopyGoesOn
<1>8. CASE value = 0
  <2>1. t \notin spoilt.store /\ p \in Core => store.key[t][p] = store.key[s][p]
    BY <1>5, <1>6, <1>8
  <2>2. CASE Len(call.todo) = 1
    <3>1. calls' = [calls EXCEPT ![c] = Idle]
      BY <1>1, <1>3, <1>6, <1>8, <2>2 DEF CopyGet
    <3>2. t \notin spoilt.store => Copied(store.key[s], store'.key[t], <<>>)
      BY <1>2, <1>4, <1>5, <2>1, <2>2 DEF Copied
    <3> QED
      BY <1>11, <1>12, <1>13, <1>14, <3>1, <3>2, CopyEnds
  <2>3. CASE Len(call.todo) # 1
    <3>1. PICK next : next = [call EXCEPT !.todo = todo]
      OBVIOUS
    <3>2. calls' = [calls EXCEPT ![c] = next]
      <4>1. calls' = Rest(c)
        BY <1>1, <1>3, <1>6, <1>8, <2>3 DEF CopyGet
      <4> QED
        BY <1>1, <1>3, <3>1, <4>1 DEF Rest, IInv, Typed
    <3>3. /\ next.kind = "copy" /\ next.thread = t /\ next.source = s /\ next.alone = call.alone
          /\ next.todo = todo /\ next.at = call.at
      BY <1>1, <1>4, <3>1 DEF CopyCall
    <3>4. t \notin spoilt.store => Copied(store.key[s], store'.key[t], next.todo)
      BY <1>2, <1>4, <1>5, <2>1, <3>3 DEF Copied
    <3>5. next.at # "set"
      BY <1>1, <3>3 DEF CopyGet
    <3>6. next.alone = calls[c].alone
      BY <1>1, <3>3
    <3> QED
      BY <1>11, <1>12, <1>13, <1>14, <3>2, <3>3, <3>4, <3>5, <3>6, CopyGoesOn
  <2> QED
    BY <2>2, <2>3
<1> QED
  BY <1>7, <1>8

(* The target gets the key, or loses one that is not of the core.          *)
LEMMA OnwardUndisturbed ==
    ASSUME IInv, IInv', Undisturbed, NEW c \in Caller,
           calls[c].kind = "copy", calls[c].at = "set", calls' = Onward(c),
           \/ Set(calls[c].thread, Head(calls[c].todo), calls[c].held)
           \/ UNCHANGED store /\ Head(calls[c].todo) \notin Core,
           UNCHANGED <<replica, made, spoilt>>
    PROVE  Undisturbed'
<1>1. PICK call, t, s : call = calls[c] /\ t = call.thread /\ s = call.source
  OBVIOUS
<1>2. PICK p, todo : p = Head(call.todo) /\ todo = Tail(call.todo)
  OBVIOUS
<1>3. /\ calls[c].kind = "copy" /\ call.at = "set"
      /\ \/ store' = [store EXCEPT !.key[t][p] = call.held]
         \/ store' = store /\ p \notin Core
      /\ UNCHANGED <<replica, made, spoilt>>
  BY <1>1, <1>2 DEF Set
<1>4. /\ call \in CopyCall
      /\ t \in Thread /\ s \in Thread /\ p \in Part
      /\ Left(call.todo) = {p} \cup Left(todo)
      /\ Len(call.todo) = 1 => Left(call.todo) = {p}
  <2>1. calls[c].kind = "copy"
    BY <1>3
  <2>2. /\ call \in CopyCall
        /\ t \in Thread /\ s \in Thread /\ Head(call.todo) \in Part
        /\ Left(call.todo) = {Head(call.todo)} \cup Left(Tail(call.todo))
        /\ Len(call.todo) = 1 => Left(call.todo) = {Head(call.todo)}
    BY <1>1, <2>1, CopyFacts
  <2> QED
    BY <1>2, <2>2
<1>5. /\ \A u \in Thread : u # t => store'.key[u] = store.key[u]
      /\ p \in Core => store'.key[t][p] = call.held
      /\ \A q \in Part : q # p => store'.key[t][q] = store.key[t][q]
  BY <1>3, <1>4 DEF IInv, Typed, Map
<1>6. ASSUME t \notin spoilt.store, NEW q \in Core
      PROVE  /\ store'.key[t][q] \in {0, store.key[s][q]}
             /\ q \in Left(call.todo) \ {p} \/ store'.key[t][q] = store.key[s][q]
  <2>1. /\ store.key[t][q] \in {0, store.key[s][q]}
        /\ q \in Left(call.todo) \/ store.key[t][q] = store.key[s][q]
        /\ p \in Core => call.held = store.key[s][p]
    BY <1>1, <1>2, <1>3, <1>6, CopyFacts
  <2> QED
    BY <1>5, <2>1, Parts
<1>9. calls[c].kind = "copy" /\ t = calls[c].thread /\ s = calls[c].source
  BY <1>1, <1>3
<1>10. OthersKept(t)
  BY <1>5 DEF OthersKept
<1>11. UNCHANGED <<replica, made, spoilt>>
  BY <1>3
<1>12. t \in Thread /\ s \in Thread
  BY <1>4
<1>7. CASE Len(call.todo) = 1
  <2>1. calls' = [calls EXCEPT ![c] = Idle]
    BY <1>1, <1>7 DEF Onward
  <2>2. t \notin spoilt.store => Copied(store.key[s], store'.key[t], <<>>)
    BY <1>4, <1>6, <1>7 DEF Copied
  <2> QED
    BY <1>9, <1>10, <1>11, <1>12, <2>1, <2>2, CopyEnds
<1>8. CASE Len(call.todo) # 1
  <2>1. PICK next : next = [call EXCEPT !.at = "get", !.held = 0, !.todo = todo]
    OBVIOUS
  <2>2. calls' = [calls EXCEPT ![c] = next]
    <3>1. calls' = [calls EXCEPT ![c].at = "get", ![c].held = 0, ![c].todo = Tail(@)]
      BY <1>1, <1>8 DEF Onward
    <3> QED
      BY <1>1, <1>2, <2>1, <3>1 DEF IInv, Typed
  <2>3. /\ next.kind = "copy" /\ next.thread = t /\ next.source = s /\ next.alone = call.alone
        /\ next.todo = todo /\ next.at # "set"
    BY <1>1, <1>4, <2>1 DEF CopyCall
  <2>4. t \notin spoilt.store => Copied(store.key[s], store'.key[t], next.todo)
    BY <1>4, <1>6, <2>3 DEF Copied
  <2>5. next.alone = calls[c].alone
    BY <1>1, <2>3
  <2> QED
    BY <1>9, <1>10, <1>11, <1>12, <2>2, <2>3, <2>4, <2>5, CopyGoesOn
<1> QED
  BY <1>7, <1>8

(* What only reads, or keeps to keys that no checkpoint is made of. *)

LEMMA CopySetUndisturbed ==
    ASSUME IInv, IInv', Undisturbed, NEW c \in Caller, CopySet(c)
    PROVE  Undisturbed'
BY OnwardUndisturbed DEF CopySet

LEMMA CopyDroppedUndisturbed ==
    ASSUME IInv, IInv', Undisturbed, NEW c \in Caller, CopyDropped(c)
    PROVE  Undisturbed'
<1>1. PICK call, t, p : call = calls[c] /\ t = call.thread /\ p = Head(call.todo)
  OBVIOUS
<1>2. /\ calls[c].kind = "copy" /\ calls[c].at = "set" /\ calls' = Onward(c)
      /\ UNCHANGED <<store, replica, made>>
      /\ Spoil(IF p \in Slots THEN {} ELSE {t})
  BY <1>1 DEF CopyDropped
<1>3. call \in CopyCall /\ t \in Thread
  BY <1>1, <1>2, Kinds DEF IInv, Typed, CopyCall
<1>4. CASE p \in Slots
  <2>1. UNCHANGED spoilt
    BY <1>2, <1>4 DEF Spoil, Undisturbed
  <2>2. p \notin Core
    BY <1>4, Parts DEF Slots
  <2> QED
    BY <1>1, <1>2, <2>1, <2>2, OnwardUndisturbed
<1>5. CASE p \notin Slots
  <2>1. PICK next \in CallSet : Onward(c) = [calls EXCEPT ![c] = next]
    BY <1>1, <1>3, OnwardCall
  <2>2. calls'[c] = next /\ \A d \in Caller : d # c => calls'[d] = calls[d]
    BY <1>2, <2>1 DEF IInv, Typed
  <2>3. \/ calls'[c] = Idle
        \/ calls'[c].kind = "copy" /\ calls'[c].thread = t /\ calls'[c].alone = call.alone
    <3>1. CASE Len(call.todo) = 1
      BY <1>1, <1>2, <3>1 DEF Onward, IInv, Typed
    <3>2. CASE Len(call.todo) # 1
      <4>1. calls' = [calls EXCEPT ![c].at = "get", ![c].held = 0, ![c].todo = Tail(@)]
        BY <1>1, <1>2, <3>2 DEF Onward
      <4>2. calls'[c] = [call EXCEPT !.at = "get", !.held = 0, !.todo = Tail(@)]
        BY <1>1, <4>1 DEF IInv, Typed
      <4> QED
        BY <1>1, <1>3, <4>2 DEF CopyCall
    <3> QED
      BY <3>1, <3>2
  <2>4. Spoil({t}) /\ t \in spoilt'.store
    BY <1>2, <1>5 DEF Spoil, Undisturbed
  <2>5. CallSound(c)'
    BY <2>3, <2>4 DEF CallSound, PutSound, DeleteSound, CopySound, PruneSound, Idle
  <2>6. calls[c].kind \in Writers /\ t = calls[c].thread
    BY <1>1, <1>2 DEF Writers
  <2>7. \/ calls'[c].kind \notin Writers
        \/ /\ calls'[c].kind = calls[c].kind /\ calls'[c].thread = t
           /\ calls'[c].alone => calls[c].alone
    BY <1>1, <1>2, <2>3 DEF Idle, Writers
  <2> QED
    BY <1>2, <1>3, <2>2, <2>4, <2>5, <2>6, <2>7, LossStep
<1> QED
  BY <1>4, <1>5

LEMMA PruneUndisturbed ==
    ASSUME IInv, IInv', Undisturbed, NEW c \in Caller, NEW t \in Thread, Prune(c, t)
    PROVE  Undisturbed'
<1>1. /\ calls[c] = Idle
      /\ calls' = [calls EXCEPT ![c] = [kind |-> "prune", thread |-> t, todo |-> SlotsInOrder]]
      /\ UNCHANGED <<store, replica, made, spoilt>>
  BY DEF Prune, Starts
<1>2. /\ calls'[c] = [kind |-> "prune", thread |-> t, todo |-> SlotsInOrder]
      /\ \A d \in Caller : d # c => calls'[d] = calls[d]
  BY <1>1 DEF IInv, Typed
<1>3. calls[c].kind \notin Writers /\ calls'[c].kind \notin Writers /\ PruneSound(c)'
  BY <1>1, <1>2, OrdersLeft DEF Writers, Idle, PruneSound
<1> QED
  BY <1>1, <1>2, <1>3, BystanderStep

LEMMA ReaderUndisturbed ==
    ASSUME IInv, IInv', Undisturbed, NEW c \in Caller, calls[c].kind \notin Writers,
           NEW next, next.kind \notin Writers \cup {"prune"}, calls' = [calls EXCEPT ![c] = next],
           UNCHANGED <<store, replica, made, spoilt>>
    PROVE  Undisturbed'
<1>1. calls'[c] = next /\ \A d \in Caller : d # c => calls'[d] = calls[d]
  BY DEF IInv, Typed
<1>2. calls'[c].kind \notin Writers /\ PruneSound(c)'
  BY <1>1 DEF PruneSound
<1> QED
  BY <1>1, <1>2, BystanderStep

LEMMA GetTupleUndisturbed ==
    ASSUME IInv, IInv', Undisturbed, NEW c \in Caller, NEW t \in Thread, GetTuple(c, t)
    PROVE  Undisturbed'
<1>1. PICK call :
         call = [kind |-> "get_tuple", thread |-> t, got |-> Absent, todo |-> ReadOrder,
                 alone |-> t \notin spoilt.store /\ ~ Written(t),
                 calm |-> /\ t \notin spoilt.store
                          /\ \A d \in Caller : Writes(d, t) => calls[d].kind = "put"]
  OBVIOUS
<1>2. /\ calls[c].kind \notin Writers /\ call.kind \notin Writers \cup {"prune"}
      /\ calls' = [calls EXCEPT ![c] = call]
  BY <1>1 DEF GetTuple, Starts, Writers, Idle
<1>3. UNCHANGED <<store, replica, made, spoilt>>
  BY DEF GetTuple
<1> QED
  BY <1>2, <1>3, ReaderUndisturbed

LEMMA ReadUndisturbed ==
    ASSUME IInv, IInv', Undisturbed, NEW c \in Caller, Read(c)
    PROVE  Undisturbed'
<1>1. calls[c].kind = "get_tuple" /\ UNCHANGED <<store, replica, made, spoilt>>
  BY DEF Read
<1>2. PICK call, p, value, todo :
         /\ call = calls[c] /\ p = Head(call.todo) /\ value = store.key[call.thread][p]
         /\ todo = IF p = Latest /\ value = 0 THEN <<>> ELSE Tail(call.todo)
  OBVIOUS
<1>3. PICK next : next = [call EXCEPT !.got[p] = value, !.todo = todo]
  OBVIOUS
<1>4. calls' = [calls EXCEPT ![c] = next]
  <2>1. calls' = [calls EXCEPT ![c].got[p] = value,
                               ![c].todo = IF p = Latest /\ value = 0 THEN <<>> ELSE Tail(@)]
    BY <1>2 DEF Read
  <2> QED
    BY <1>2, <1>3, <2>1 DEF IInv, Typed
<1>5. next.kind = "get_tuple"
  <2>1. call \in ReadCall
    BY <1>1, <1>2, Kinds DEF IInv, Typed
  <2> QED
    BY <1>3, <2>1 DEF ReadCall
<1>6. calls[c].kind \notin Writers /\ next.kind \notin Writers \cup {"prune"}
  BY <1>1, <1>5 DEF Writers
<1> QED
  BY <1>1, <1>4, <1>6, ReaderUndisturbed

LEMMA ReturnUndisturbed ==
    ASSUME IInv, IInv', Undisturbed, NEW c \in Caller, Return(c)
    PROVE  Undisturbed'
<1>1. PICK next : next = Idle
  OBVIOUS
<1>2. /\ calls[c].kind \notin Writers /\ next.kind \notin Writers \cup {"prune"}
      /\ calls' = [calls EXCEPT ![c] = next]
  BY <1>1 DEF Return, Writers, Idle
<1>3. UNCHANGED <<store, replica, made, spoilt>>
  BY DEF Return
<1> QED
  BY <1>2, <1>3, ReaderUndisturbed

LEMMA PutWritesUndisturbed ==
    ASSUME IInv, IInv', Undisturbed, NEW t \in Thread, NEW task \in Task, PutWrites(t, task)
    PROVE  Undisturbed'
<1>1. store' = [store EXCEPT !.writes[t] = @ \cup {task}] /\ UNCHANGED <<replica, made, spoilt, calls>>
  BY DEF PutWrites
<1>2. \A u \in Thread, q \in Core : store'.key[u][q] = store.key[u][q]
  BY <1>1 DEF IInv, Typed, Map
<1>3. UNCHANGED <<replica, made, spoilt>> /\ \A d \in Caller : calls'[d] = calls[d]
  BY <1>1
<1> QED
  BY <1>2, <1>3, BystanderStep

(* The peer gets what the store has; threads that are written then may be  *)
(* torn there.                                                             *)
LEMMA GossipUndisturbed ==
    ASSUME Undisturbed, Gossip
    PROVE  Undisturbed'
<1>1. /\ replica' = store /\ UNCHANGED <<store, calls, made>>
      /\ spoilt' = [spoilt EXCEPT !.replica = spoilt.store \cup {t \in Thread : Written(t)}]
  BY DEF Gossip, Snapshot
<1>2. /\ spoilt' \in [store : SUBSET Thread, replica : SUBSET Thread]
      /\ spoilt'.store = spoilt.store
      /\ spoilt'.replica = spoilt.store \cup {t \in Thread : Written(t)}
  BY <1>1 DEF Undisturbed
<1>3. /\ \A c : Trusted(c)' <=> Trusted(c)
      /\ \A t : Written(t)' <=> Written(t)
      /\ \A c, t : Sole(c, t)' <=> Sole(c, t)
  BY <1>1, <1>2 DEF Trusted, Written, Sole, Writes
<1>4. TornOnlyWhenDisturbed'
  <2>1. \A t \in Thread : t \notin spoilt.store /\ ~ Written(t) => Whole(store.key[t])
    BY DEF Undisturbed, TornOnlyWhenDisturbed
  <2>2. \A t \in Thread : t \notin spoilt.store /\ ~ Written(t) => Whole(store.key[t])'
    BY <1>1, <2>1 DEF Whole, Before
  <2> QED
    BY <1>1, <1>2, <1>3, <2>2 DEF TornOnlyWhenDisturbed
<1>5. SoleWriters'
  BY <1>1, <1>3 DEF Undisturbed, SoleWriters
<1>6. ASSUME NEW c \in Caller PROVE CallSound(c)'
  <2>1. CallSound(c)
    BY DEF Undisturbed
  <2>2. PutSound(c)' /\ DeleteSound(c)' /\ PruneSound(c)'
    BY <1>1, <1>2, <1>3, <2>1 DEF CallSound, PutSound, DeleteSound, PruneSound
  <2>3. CopySound(c)'
    BY <1>1, <1>2, <1>3, <2>1 DEF CallSound, CopySound
  <2> QED
    BY <2>2, <2>3 DEF CallSound
<1> QED
  BY <1>2, <1>4, <1>5, <1>6 DEF Undisturbed

(* After a crash nobody is at work. *)
LEMMA CrashUndisturbed ==
    ASSUME Undisturbed, Crash
    PROVE  Undisturbed'
<1>1. /\ store' = replica /\ made' = made
      /\ spoilt' = [store |-> spoilt.replica, replica |-> {}]
      /\ \A c \in Caller : calls'[c].kind = "idle"
      /\ \A t \in Thread, p \in Part : replica'.key[t][p] = 0
  BY DEF Crash, Idle, Absent
<1>2. spoilt' \in [store : SUBSET Thread, replica : SUBSET Thread]
  BY <1>1 DEF Undisturbed
<1>3. SoleWriters' /\ \A c \in Caller : CallSound(c)'
  BY <1>1 DEF SoleWriters, Writers, CallSound, PutSound, DeleteSound, CopySound, PruneSound
<1>4. ASSUME NEW t \in Thread, t \notin spoilt.replica PROVE Whole(store.key[t])'
  <2>1. Whole(replica.key[t])
    BY <1>4 DEF Undisturbed, TornOnlyWhenDisturbed
  <2> QED
    BY <1>1, <2>1 DEF Whole, Before
<1>5. ASSUME NEW t \in Thread PROVE Whole(replica.key[t])'
  BY <1>1 DEF Whole, Before, Part
<1> QED
  BY <1>1, <1>2, <1>3, <1>4, <1>5 DEF Undisturbed, TornOnlyWhenDisturbed

LEMMA StepUndisturbed == IInv /\ IInv' /\ Undisturbed /\ [Next]_vars => Undisturbed'
<1> SUFFICES ASSUME IInv, IInv', Undisturbed, [Next]_vars PROVE Undisturbed'
  OBVIOUS
<1>1. CASE \E c \in Caller, t \in Thread : Put(c, t)
  BY <1>1, PutUndisturbed
<1>2. CASE \E c \in Caller, t \in Thread : DeleteThread(c, t)
  BY <1>2, DeleteUndisturbed
<1>3. CASE \E c \in Caller, t \in Thread : Prune(c, t)
  BY <1>3, PruneUndisturbed
<1>4. CASE \E c \in Caller, t \in Thread : GetTuple(c, t)
  BY <1>4, GetTupleUndisturbed
<1>5. CASE \E c \in Caller, s, t \in Thread : CopyThread(c, s, t)
  BY <1>5, CopyThreadUndisturbed
<1>6. CASE \E c \in Caller :
            PutSet(c) \/ PutDropped(c) \/ PutCount(c) \/ PutHistory(c) \/ HistoryDropped(c)
  BY <1>6, PutSetUndisturbed, PutDroppedUndisturbed, PutCountUndisturbed, PutHistoryUndisturbed
<1>7. CASE \E c \in Caller : RemoveKey(c)
  BY <1>7, RemoveUndisturbed
<1>8. CASE \E c \in Caller : CopyGet(c) \/ CopySet(c) \/ CopyDropped(c)
  BY <1>8, CopyGetUndisturbed, CopySetUndisturbed, CopyDroppedUndisturbed
<1>9. CASE \E c \in Caller : Read(c) \/ Return(c)
  BY <1>9, ReadUndisturbed, ReturnUndisturbed
<1>10. CASE \E t \in Thread, task \in Task : PutWrites(t, task)
  BY <1>10, PutWritesUndisturbed
<1>11. CASE Gossip
  BY <1>11, GossipUndisturbed
<1>12. CASE Crash
  BY <1>12, CrashUndisturbed
<1>13. CASE UNCHANGED vars \/ \E t \in Thread, task \in Task : WritesDropped(t, task)
  <2>1. UNCHANGED <<replica, made, spoilt>> /\ \A d \in Caller : calls'[d] = calls[d]
    BY <1>13 DEF vars, WritesDropped
  <2>2. \A u \in Thread, q \in Core : store'.key[u][q] = store.key[u][q]
    BY <1>13 DEF vars, WritesDropped
  <2> QED
    BY <2>1, <2>2, BystanderStep
<1> QED
  BY <1>1, <1>2, <1>3, <1>4, <1>5, <1>6, <1>7, <1>8, <1>9, <1>10, <1>11, <1>12, <1>13 DEF Next

(* Threads invariants hold throughout. *)
LEMMA StaysUndisturbed == Spec => [](IInv /\ Undisturbed)
<1>1. Init => Undisturbed
  BY InitUndisturbed
<1>2. IInv /\ IInv' /\ Undisturbed /\ [Next]_vars => Undisturbed'
  BY StepUndisturbed
<1> QED
  BY <1>1, <1>2, Inductive, PTL DEF Spec

(* The keys of a thread are one checkpoint with its parent unless writers  *)
(* met on it, a copy came over another thread or from one at work, the map *)
(* was full for one of its keys, or a crash cut a write short.  One delete *)
(* by itself mends that; and so does one put that found room for its keys, *)
(* unless it found no id and left an old parent where it was.              *)
THEOREM TornOnlyThen == Spec => []TornOnlyWhenDisturbed
<1>1. Undisturbed => TornOnlyWhenDisturbed
  BY DEF Undisturbed
<1> QED
  BY <1>1, StaysUndisturbed, PTL

-----------------------------------------------------------------------------
(* The history of a thread has its current checkpoint. *)

HasLatest(key) == key[Latest] # 0 => \E slot \in Slots : key[slot] = key[Latest]

Threads == [store : SUBSET Thread, replica : SUBSET Thread]

(* What is pruned or copied to is taken for a thread without its history,  *)
(* and no writer takes that back while a prune or a copy is under way.     *)
Remembered ==
    /\ checkpoint_counter \in Nat
    /\ pruned \in Threads
    /\ \A t \in Thread :
          /\ t \notin spoilt.store \cup pruned.store /\ ~ Written(t) => HasLatest(store.key[t])
          /\ t \notin spoilt.replica \cup pruned.replica => HasLatest(replica.key[t])
    /\ \A c \in Caller :
          /\ calls[c].kind = "prune" => calls[c].thread \in pruned.store
          /\ calls[c].kind = "copy" => calls[c].thread \in pruned.store \cup spoilt.store

LEMMA InitRemembered == Init => Remembered
<1> SUFFICES ASSUME Init PROVE Remembered
  OBVIOUS
<1>1. \A t \in Thread : HasLatest(store.key[t]) /\ HasLatest(replica.key[t])
  BY DEF Init, Absent, HasLatest, Part
<1>2. \A c \in Caller : calls[c].kind = "idle"
  BY DEF Init, Idle
<1> QED
  BY <1>1, <1>2 DEF Init, Remembered, Threads

(* A step on the store: what was not at rest before must be in order now.  *)
LEMMA RememberedStep ==
    ASSUME Remembered, UNCHANGED replica, checkpoint_counter' \in Nat,
           pruned' \in Threads, pruned'.replica = pruned.replica,
           spoilt'.replica = spoilt.replica,
           \A t \in Thread :
              \/ t \in spoilt'.store \cup pruned'.store
              \/ Written(t)'
              \/ HasLatest(store'.key[t])
              \/ t \notin spoilt.store \cup pruned.store /\ ~ Written(t) /\ store'.key[t] = store.key[t],
           \A c \in Caller :
              /\ calls'[c].kind = "prune" => calls'[c].thread \in pruned'.store
              /\ calls'[c].kind = "copy" => calls'[c].thread \in pruned'.store \cup spoilt'.store
    PROVE  Remembered'
<1>1. ASSUME NEW t \in Thread, t \notin spoilt'.store \cup pruned'.store, ~ Written(t)'
      PROVE  HasLatest(store.key[t])'
  <2>1. CASE HasLatest(store'.key[t])
    BY <2>1 DEF HasLatest
  <2>2. CASE t \notin spoilt.store \cup pruned.store /\ ~ Written(t) /\ store'.key[t] = store.key[t]
    BY <2>2 DEF Remembered, HasLatest
  <2> QED
    BY <1>1, <2>1, <2>2
<1>2. ASSUME NEW t \in Thread, t \notin spoilt'.replica \cup pruned'.replica
      PROVE  HasLatest(replica.key[t])'
  BY <1>2 DEF Remembered, HasLatest
<1> QED
  BY <1>1, <1>2 DEF Remembered

(* A writer comes to t. *)
LEMMA BeginRemembered ==
    ASSUME IInv, Undisturbed, Remembered, NEW c \in Caller, calls[c] = Idle,
           NEW t \in Thread, NEW call, call.kind \in Writers, call.thread = t, Begin(c, call),
           UNCHANGED <<store, replica, checkpoint_counter>>,
           NEW extra \in {{}, {t}}, Spoil(Disturbs(t) \cup extra),
           NEW added \in {{}, {t}}, pruned' = [pruned EXCEPT !.store = @ \cup added],
           call.kind = "copy" => added = {t}
    PROVE  Remembered'
<1>1. /\ calls'[c] = call
      /\ \A d \in Caller : d # c => calls'[d] = Crossed(call.kind, t)[d]
  <2>1. PICK crossed : crossed = Crossed(call.kind, t)
    OBVIOUS
  <2>2. crossed \in [Caller -> CallSet]
    BY <2>1, CrossedTyped DEF IInv
  <2>3. calls' = [crossed EXCEPT ![c] = call]
    BY <2>1 DEF Begin
  <2> QED
    BY <2>1, <2>2, <2>3
<1>2. ASSUME NEW d \in Caller, d # c
      PROVE  /\ calls'[d].kind = calls[d].kind
             /\ calls[d].kind # "get_tuple" => calls'[d].thread = calls[d].thread
  <2>1. PICK kind, other : kind = call.kind /\ other = Crossed(kind, t)[d]
    OBVIOUS
  <2>2. calls'[d] = other
    BY <1>1, <1>2, <2>1
  <2>3. /\ other.kind = calls[d].kind
        /\ calls[d].kind \notin Writers \cup {"get_tuple"} => other = calls[d]
        /\ calls[d].kind \in Writers => SameWork(other, calls[d])
    BY <2>1, CrossedWriters
  <2> QED
    BY <2>2, <2>3 DEF SameWork
<1>3. /\ pruned' \in Threads /\ pruned'.replica = pruned.replica
      /\ pruned'.store = pruned.store \cup added
      /\ spoilt'.replica = spoilt.replica
      /\ spoilt.store \subseteq spoilt'.store
  BY DEF Remembered, Threads, Spoil, Undisturbed
<1>4. Written(t)' /\ \A u : Written(u) => Written(u)'
  <2>1. Writes(c, t)'
    BY <1>1 DEF Writes
  <2>2. ASSUME NEW d \in Caller, NEW u, Writes(d, u) PROVE Writes(d, u)'
    <3>1. d # c /\ calls[d].kind # "get_tuple"
      BY <2>2 DEF Writes, Writers, Idle
    <3> QED
      BY <1>2, <2>2, <3>1 DEF Writes
  <2> QED
    BY <2>1, <2>2 DEF Written
<1>5. ASSUME NEW u \in Thread
      PROVE  \/ u \in spoilt'.store \cup pruned'.store
             \/ Written(u)'
             \/ u \notin spoilt.store \cup pruned.store /\ ~ Written(u) /\ store'.key[u] = store.key[u]
  BY <1>3, <1>4
<1>6. ASSUME NEW d \in Caller
      PROVE  /\ calls'[d].kind = "prune" => calls'[d].thread \in pruned'.store
             /\ calls'[d].kind = "copy" => calls'[d].thread \in pruned'.store \cup spoilt'.store
  <2>1. CASE d = c
    BY <1>1, <1>3, <2>1 DEF Writers
  <2>2. CASE d # c
    BY <1>2, <1>3, <2>2 DEF Remembered
  <2> QED
    BY <2>1, <2>2
<1>7. UNCHANGED replica /\ checkpoint_counter' \in Nat
  BY DEF Remembered
<1> QED
  BY <1>3, <1>5, <1>6, <1>7, RememberedStep

(* A writer gets on. *)
LEMMA GoOnRemembered ==
    ASSUME IInv, Remembered, NEW c \in Caller, calls[c].kind \in Writers,
           NEW t \in Thread, t = calls[c].thread,
           NEW next, calls' = [calls EXCEPT ![c] = next], next.kind = calls[c].kind, next.thread = t,
           checkpoint_counter' \in Nat, UNCHANGED <<replica, spoilt, pruned>>, OthersKept(t)
    PROVE  Remembered'
<1>1. calls'[c] = next /\ \A d \in Caller : d # c => calls'[d] = calls[d]
  BY DEF IInv, Typed
<1>2. \A d \in Caller : calls'[d].kind = calls[d].kind /\ (d # c => calls'[d].thread = calls[d].thread)
  BY <1>1
<1>3. calls'[c].thread = calls[c].thread
  BY <1>1
<1>4. \A u : Written(u)' <=> Written(u)
  BY <1>1 DEF Written, Writes
<1>5. Written(t)
  BY DEF Written, Writes
<1>6. ASSUME NEW u \in Thread
      PROVE  \/ u \in spoilt'.store \cup pruned'.store
             \/ Written(u)'
             \/ u \notin spoilt.store \cup pruned.store /\ ~ Written(u) /\ store'.key[u] = store.key[u]
  BY <1>4, <1>5 DEF OthersKept
<1>7. ASSUME NEW d \in Caller
      PROVE  /\ calls'[d].kind = "prune" => calls'[d].thread \in pruned'.store
             /\ calls'[d].kind = "copy" => calls'[d].thread \in pruned'.store \cup spoilt'.store
  BY <1>2, <1>3 DEF Remembered
<1>8. pruned' \in Threads /\ pruned'.replica = pruned.replica /\ spoilt'.replica = spoilt.replica
  BY DEF Remembered
<1>9. UNCHANGED replica
  OBVIOUS
<1> QED
  BY <1>6, <1>7, <1>8, <1>9, RememberedStep

(* A writer ends. *)
LEMMA EndRemembered ==
    ASSUME IInv, Undisturbed, Remembered, NEW c \in Caller, calls[c].kind \in Writers,
           NEW t \in Thread, t = calls[c].thread, calls' = [calls EXCEPT ![c] = Idle],
           UNCHANGED <<replica, checkpoint_counter>>, OthersKept(t),
           \/ spoilt' = spoilt
           \/ calls[c].alone /\ spoilt' = [spoilt EXCEPT !.store = @ \ {t}],
           \/ pruned' = pruned
           \/ /\ calls[c].kind = "put" /\ pruned' = [pruned EXCEPT !.store = @ \ {t}]
              /\ \A d \in Caller : ~ (calls[d].kind = "prune" /\ calls[d].thread = t),
           t \in spoilt'.store \cup pruned'.store \/ HasLatest(store'.key[t])
    PROVE  Remembered'
<1>1. calls'[c] = Idle /\ \A d \in Caller : d # c => calls'[d] = calls[d]
  BY DEF IInv, Typed
<1>2. /\ pruned' \in Threads /\ pruned'.replica = pruned.replica
      /\ spoilt'.replica = spoilt.replica
      /\ \A u : u # t => (u \in spoilt'.store <=> u \in spoilt.store)
      /\ \A u : u # t => (u \in pruned'.store <=> u \in pruned.store)
      /\ t \in spoilt.store /\ t \notin spoilt'.store => calls[c].alone
      /\ t \in pruned.store /\ t \notin pruned'.store =>
           /\ calls[c].kind = "put"
           /\ \A d \in Caller : ~ (calls[d].kind = "prune" /\ calls[d].thread = t)
  BY DEF Remembered, Threads, Undisturbed
<1>3. \A u : u # t => (Written(u)' <=> Written(u))
  BY <1>1 DEF Written, Writes, Writers, Idle
<1>4. ASSUME NEW u \in Thread
      PROVE  \/ u \in spoilt'.store \cup pruned'.store
             \/ Written(u)'
             \/ HasLatest(store'.key[u])
             \/ u \notin spoilt.store \cup pruned.store /\ ~ Written(u) /\ store'.key[u] = store.key[u]
  BY <1>2, <1>3 DEF OthersKept
<1>5. ASSUME NEW d \in Caller, d # c, calls[d].kind = "copy", calls[d].thread = t
      PROVE  t \in spoilt.store /\ ~ calls[c].alone
  <2>1. Writes(d, t)
    BY <1>5 DEF Writes, Writers
  <2>2. ~ Sole(c, t)
    BY <1>5, <2>1 DEF Sole
  <2> QED
    BY <2>2 DEF Undisturbed, SoleWriters, Trusted
<1>6. ASSUME NEW d \in Caller
      PROVE  /\ calls'[d].kind = "prune" => calls'[d].thread \in pruned'.store
             /\ calls'[d].kind = "copy" => calls'[d].thread \in pruned'.store \cup spoilt'.store
  <2>1. CASE d = c
    BY <1>1, <2>1 DEF Idle
  <2>2. CASE d # c
    <3>1. /\ calls[d].kind = "prune" => calls[d].thread \in pruned.store
          /\ calls[d].kind = "copy" => calls[d].thread \in pruned.store \cup spoilt.store
      BY DEF Remembered
    <3>2. calls[d].kind = "prune" => calls[d].thread \in pruned'.store
      BY <1>2, <3>1
    <3>3. calls[d].kind = "copy" => calls[d].thread \in pruned'.store \cup spoilt'.store
      BY <1>2, <1>5, <2>2, <3>1
    <3> QED
      BY <1>1, <2>2, <3>2, <3>3
  <2> QED
    BY <2>1, <2>2
<1>7. UNCHANGED replica /\ checkpoint_counter' \in Nat
  BY DEF Remembered
<1> QED
  BY <1>2, <1>4, <1>6, <1>7, RememberedStep

(* Nobody who writes takes a step; a thread that is pruned is known to be. *)
LEMMA OtherRemembered ==
    ASSUME IInv, Remembered, NEW c \in Caller, calls[c].kind \notin Writers,
           NEW next, calls' = [calls EXCEPT ![c] = next], next.kind \notin Writers,
           next.kind = "prune" => next.thread \in pruned'.store,
           NEW added \in SUBSET Thread, pruned' = [pruned EXCEPT !.store = @ \cup added],
           UNCHANGED <<replica, checkpoint_counter, spoilt>>,
           \A u \in Thread : store'.key[u] = store.key[u] \/ u \in pruned.store
    PROVE  Remembered'
<1>1. calls'[c] = next /\ \A d \in Caller : d # c => calls'[d] = calls[d]
  BY DEF IInv, Typed
<1>2. \A u : Written(u)' <=> Written(u)
  BY <1>1 DEF Written, Writes
<1>3. /\ pruned' \in Threads /\ pruned'.replica = pruned.replica
      /\ pruned.store \subseteq pruned'.store
      /\ spoilt' = spoilt
  BY DEF Remembered, Threads
<1>4. ASSUME NEW u \in Thread
      PROVE  \/ u \in spoilt'.store \cup pruned'.store
             \/ Written(u)'
             \/ u \notin spoilt.store \cup pruned.store /\ ~ Written(u) /\ store'.key[u] = store.key[u]
  BY <1>2, <1>3
<1>5. ASSUME NEW d \in Caller
      PROVE  /\ calls'[d].kind = "prune" => calls'[d].thread \in pruned'.store
             /\ calls'[d].kind = "copy" => calls'[d].thread \in pruned'.store \cup spoilt'.store
  <2>1. CASE d = c
    BY <1>1, <2>1 DEF Writers
  <2>2. CASE d # c
    BY <1>1, <1>3, <2>2 DEF Remembered
  <2> QED
    BY <2>1, <2>2
<1>6. UNCHANGED replica /\ checkpoint_counter' \in Nat
  BY DEF Remembered
<1> QED
  BY <1>3, <1>4, <1>5, <1>6, RememberedStep

LEMMA BeginsRemembered ==
    ASSUME IInv, Undisturbed, Remembered, NEW c \in Caller, NEW t \in Thread,
           Put(c, t) \/ DeleteThread(c, t)
    PROVE  Remembered'
<1>1. PICK call : /\ call.kind \in {"put", "delete"} /\ call.thread = t
                  /\ Begin(c, call)
  <2>1. CASE Put(c, t)
    <3>1. PICK call : call = [kind |-> "put", thread |-> t, checkpoint |-> Len(made) + 1,
                     current |-> store.key[t][Id], alone |-> ~ Crosses(t), counted |-> FALSE,
                     todo |-> (IF store.key[t][Id] = 0 THEN <<>> ELSE <<Parent>>) \o <<Latest, Id, Meta>>]
      OBVIOUS
    <3>2. Begin(c, call)
      BY <2>1, <3>1 DEF Put
    <3> QED
      BY <3>1, <3>2
  <2>2. CASE DeleteThread(c, t)
    <3>1. PICK call : call = [kind |-> "delete", thread |-> t, alone |-> ~ Crosses(t), todo |-> DeleteOrder]
      OBVIOUS
    <3>2. Begin(c, call)
      BY <2>2, <3>1 DEF DeleteThread
    <3> QED
      BY <3>1, <3>2
  <2> QED
    BY <2>1, <2>2
<1>2. /\ calls[c] = Idle /\ Spoil(Disturbs(t)) /\ pruned' = pruned
      /\ UNCHANGED <<store, replica, checkpoint_counter>>
  BY DEF Put, DeleteThread, Starts
<1>3. PICK extra \in {{}, {t}} : Spoil(Disturbs(t) \cup extra)
  <2>1. Disturbs(t) \cup {} = Disturbs(t)
    OBVIOUS
  <2> QED
    BY <1>2, <2>1
<1>4. PICK added \in {{}, {t}} : added = {}
  OBVIOUS
<1>5. pruned' = [pruned EXCEPT !.store = @ \cup added]
  BY <1>2, <1>4 DEF Remembered, Threads
<1>6. call.kind \in Writers /\ call.kind # "copy"
  BY <1>1 DEF Writers
<1> QED
  BY <1>1, <1>2, <1>3, <1>5, <1>6, BeginRemembered

LEMMA CopyThreadRemembered ==
    ASSUME IInv, Undisturbed, Remembered, NEW c \in Caller, NEW source \in Thread, NEW t \in Thread,
           CopyThread(c, source, t)
    PROVE  Remembered'
<1>1. PICK call : call = [kind |-> "copy", thread |-> t, source |-> source, held |-> 0,
                          alone |-> ~ Crosses(t), at |-> "get", todo |-> DeleteOrder]
  OBVIOUS
<1>2. PICK extra \in {{}, {t}} :
         extra = IF \/ store.key[t] # Absent
                    \/ source \in spoilt.store
                    \/ Written(source)
                 THEN {t} ELSE {}
  OBVIOUS
<1>3. PICK added \in {{}, {t}} : added = {t}
  OBVIOUS
<1>4. /\ calls[c] = Idle /\ Begin(c, call)
      /\ Spoil(Disturbs(t) \cup extra)
      /\ pruned' = [pruned EXCEPT !.store = @ \cup added]
      /\ UNCHANGED <<store, replica, checkpoint_counter>>
  BY <1>1, <1>2, <1>3 DEF CopyThread, Starts
<1>5. call.kind \in Writers /\ call.thread = t
  BY <1>1 DEF Writers
<1> QED
  BY <1>3, <1>4, <1>5, BeginRemembered

LEMMA PutSetRemembered ==
    ASSUME IInv, Remembered, NEW c \in Caller, PutSet(c)
    PROVE  Remembered'
<1>1. PICK call, t : call = calls[c] /\ t = call.thread
  OBVIOUS
<1>2. call \in PutCall /\ t \in Thread
  BY <1>1, Kinds DEF IInv, Typed, PutSet, PutCall
<1>3. PICK next : next = [call EXCEPT !.todo = Tail(@)]
  OBVIOUS
<1>4. /\ calls' = [calls EXCEPT ![c] = next]
      /\ OthersKept(t)
      /\ UNCHANGED <<replica, spoilt, pruned>> /\ checkpoint_counter' \in Nat
  <2>1. calls' = Rest(c)
    BY <1>1 DEF PutSet
  <2>2. calls' = [calls EXCEPT ![c] = next]
    BY <1>1, <1>3, <2>1 DEF Rest, IInv, Typed
  <2>3. OthersKept(t)
    BY <1>1 DEF PutSet, Set, OthersKept, IInv, Typed, Map
  <2> QED
    BY <2>2, <2>3 DEF PutSet, Remembered
<1>5. next.kind = calls[c].kind /\ next.thread = t /\ calls[c].kind \in Writers /\ t = calls[c].thread
  BY <1>1, <1>2, <1>3 DEF PutCall, Writers
<1> QED
  BY <1>2, <1>4, <1>5, GoOnRemembered

LEMMA PutCountRemembered ==
    ASSUME IInv, Remembered, NEW c \in Caller, PutCount(c)
    PROVE  Remembered'
<1>1. PICK call, t : call = calls[c] /\ t = call.thread
  OBVIOUS
<1>2. call \in PutCall /\ t \in Thread
  BY <1>1, Kinds DEF IInv, Typed, PutCount, PutCall
<1>3. PICK next : next = [call EXCEPT !.counted = TRUE]
  OBVIOUS
<1>4. /\ calls' = [calls EXCEPT ![c] = next]
      /\ OthersKept(t)
      /\ UNCHANGED <<replica, spoilt, pruned>> /\ checkpoint_counter' \in Nat
  <2>1. calls' = [calls EXCEPT ![c] = next]
    BY <1>1, <1>3 DEF PutCount, IInv, Typed
  <2>2. checkpoint_counter' \in Nat
    BY DEF PutCount, NextCount, Remembered
  <2> QED
    BY <2>1, <2>2 DEF PutCount, OthersKept
<1>5. next.kind = calls[c].kind /\ next.thread = t /\ calls[c].kind \in Writers /\ t = calls[c].thread
  BY <1>1, <1>2, <1>3 DEF PutCall, Writers
<1> QED
  BY <1>2, <1>4, <1>5, GoOnRemembered

(* A put leaves its checkpoint in the history, and as the latest one if it *)
(* could be trusted.                                                       *)
LEMMA PutHistoryRemembered ==
    ASSUME IInv, Undisturbed, Remembered, NEW c \in Caller, PutHistory(c)
    PROVE  Remembered'
<1>1. PICK call, t : call = calls[c] /\ t = call.thread
  OBVIOUS
<1>2. call \in PutCall /\ t \in Thread /\ call.todo = <<>>
  BY <1>1, Kinds DEF IInv, Typed, PutHistory, PutEnds, PutCall
<1>3. PICK slot : slot = NextSlot
  OBVIOUS
<1>4. slot \in Slots
  <2>1. checkpoint_counter % max_history \in 0..(max_history - 1)
    BY CheckpointsAssumption DEF Remembered
  <2> QED
    BY <1>3, <2>1 DEF Slots, NextSlot
<1>5. /\ calls' = [calls EXCEPT ![c] = Idle]
      /\ store' = [store EXCEPT !.key[t][slot] = call.checkpoint]
      /\ spoilt' = [spoilt EXCEPT !.store = IF Repairs(call) THEN @ \ {t} ELSE @]
      /\ pruned' = [pruned EXCEPT !.store =
                       IF \E d \in Caller : calls[d].kind = "prune" /\ calls[d].thread = t
                       THEN @ ELSE @ \ {t}]
      /\ UNCHANGED <<replica, checkpoint_counter>>
  BY <1>1, <1>3 DEF PutHistory, PutEnds, Set, Entry
<1>6. /\ OthersKept(t)
      /\ store'.key[t][slot] = call.checkpoint
      /\ store'.key[t][Latest] = store.key[t][Latest]
  <2>1. slot \in Part /\ slot # Latest /\ Latest \in Part
    BY <1>4, Parts DEF Core
  <2> QED
    BY <1>2, <1>5, <2>1 DEF OthersKept, IInv, Typed, Map
<1>7. \/ spoilt' = spoilt
      \/ call.alone /\ spoilt' = [spoilt EXCEPT !.store = @ \ {t}]
  <2>1. CASE Repairs(call)
    BY <1>5, <2>1 DEF Repairs
  <2>2. CASE ~ Repairs(call)
    BY <1>5, <2>2 DEF Undisturbed
  <2> QED
    BY <2>1, <2>2
<1>8. \/ pruned' = pruned
      \/ /\ pruned' = [pruned EXCEPT !.store = @ \ {t}]
         /\ \A d \in Caller : ~ (calls[d].kind = "prune" /\ calls[d].thread = t)
  <2>1. CASE \E d \in Caller : calls[d].kind = "prune" /\ calls[d].thread = t
    BY <1>5, <2>1 DEF Remembered, Threads
  <2>2. CASE ~ \E d \in Caller : calls[d].kind = "prune" /\ calls[d].thread = t
    BY <1>5, <2>2
  <2> QED
    BY <2>1, <2>2
<1>9. t \in spoilt'.store \/ HasLatest(store'.key[t])
  <2> SUFFICES ASSUME t \notin spoilt'.store PROVE HasLatest(store'.key[t])
    OBVIOUS
  <2>1. Trusted(c)
    BY <1>1, <1>7 DEF Trusted
  <2>2. PutSound(c)
    BY DEF Undisturbed, CallSound
  <2>3. store.key[t][Latest] = call.checkpoint
    BY <1>1, <1>2, <2>1, <2>2, LeftNone DEF PutSound, PutCall
  <2> QED
    BY <1>4, <1>6, <2>3 DEF HasLatest
<1>10. calls[c].kind = "put" /\ calls[c].kind \in Writers /\ t = calls[c].thread
  BY <1>1, <1>2 DEF PutCall, Writers
<1>11. \/ spoilt' = spoilt
       \/ calls[c].alone /\ spoilt' = [spoilt EXCEPT !.store = @ \ {t}]
  BY <1>1, <1>7
<1>12. calls' = [calls EXCEPT ![c] = Idle] /\ UNCHANGED <<replica, checkpoint_counter>>
  BY <1>5
<1> QED
  BY <1>2, <1>6, <1>8, <1>9, <1>10, <1>11, <1>12, EndRemembered

LEMMA RemoveRemembered ==
    ASSUME IInv, Undisturbed, Remembered, NEW c \in Caller, RemoveKey(c)
    PROVE  Remembered'
<1>1. PICK call, t : call = calls[c] /\ t = call.thread
  OBVIOUS
<1>2. call \in DeleteCall \cup PruneCall /\ t \in Thread
  BY <1>1, Kinds DEF IInv, Typed, RemoveKey, DeleteCall, PruneCall
<1>3. PICK p : p = Head(call.todo)
  OBVIOUS
<1>4. /\ store' = [store EXCEPT !.key[t][p] = 0]
      /\ UNCHANGED <<replica, checkpoint_counter, pruned>>
  BY <1>1, <1>3 DEF RemoveKey, Set
<1>5. OthersKept(t)
  BY <1>4 DEF OthersKept, IInv, Typed, Map
<1>6. PICK next : next = IF Len(call.todo) = 1 THEN Idle ELSE [call EXCEPT !.todo = Tail(@)]
  OBVIOUS
<1>7. calls' = [calls EXCEPT ![c] = next]
  <2>1. CASE Len(call.todo) = 1
    BY <1>1, <1>6, <2>1 DEF RemoveKey
  <2>2. CASE Len(call.todo) # 1
    <3>1. calls' = Rest(c)
      BY <1>1, <2>2 DEF RemoveKey
    <3> QED
      BY <1>1, <1>6, <2>2, <3>1 DEF Rest, IInv, Typed
  <2> QED
    BY <2>1, <2>2
<1>8. CASE call \in DeleteCall /\ Len(call.todo) # 1
  <2>1. /\ calls[c].kind \in Writers /\ t = calls[c].thread
        /\ next.kind = calls[c].kind /\ next.thread = t
    BY <1>1, <1>6, <1>8 DEF DeleteCall, Writers
  <2>2. spoilt' = spoilt
    BY <1>1, <1>8 DEF RemoveKey, Undisturbed
  <2>3. UNCHANGED <<replica, spoilt, pruned>> /\ checkpoint_counter' \in Nat
    BY <1>4, <2>2 DEF Remembered
  <2> QED
    BY <1>2, <1>5, <1>7, <2>1, <2>3, GoOnRemembered
<1>9. CASE call \in DeleteCall /\ Len(call.todo) = 1
  <2>1. calls[c].kind \in Writers /\ t = calls[c].thread
    BY <1>1, <1>9 DEF DeleteCall, Writers
  <2>2. \/ spoilt' = spoilt
        \/ calls[c].alone /\ spoilt' = [spoilt EXCEPT !.store = @ \ {t}]
    <3>1. CASE call.alone
      BY <1>1, <1>9, <3>1 DEF RemoveKey, DeleteCall
    <3>2. CASE ~ call.alone
      BY <1>1, <3>2 DEF RemoveKey, Undisturbed
    <3> QED
      BY <3>1, <3>2
  <2>3. t \in spoilt'.store \/ HasLatest(store'.key[t])
    <3> SUFFICES ASSUME t \notin spoilt'.store PROVE HasLatest(store'.key[t])
      OBVIOUS
    <3>1. Trusted(c)
      BY <1>1, <2>2 DEF Trusted
    <3>2. DeleteSound(c)
      BY DEF Undisturbed, CallSound
    <3>3. Latest \in Left(call.todo) \/ store.key[t][Latest] = 0
      BY <1>1, <1>9, <3>1, <3>2 DEF DeleteSound, DeleteCall, Core
    <3>4. Left(call.todo) = {p} /\ p \in Part /\ Latest \in Part
      <4>1. call.todo \in Seq(Part) /\ call.todo # <<>>
        BY <1>9 DEF DeleteCall
      <4> QED
        BY <1>3, <1>9, <4>1, LeftOver DEF Part
    <3>5. store'.key[t][Latest] = 0
      BY <1>2, <1>4, <3>3, <3>4 DEF IInv, Typed, Map
    <3> QED
      BY <3>5 DEF HasLatest
  <2>4. calls' = [calls EXCEPT ![c] = Idle]
    BY <1>6, <1>7, <1>9
  <2>5. UNCHANGED <<replica, checkpoint_counter>> /\ pruned' = pruned
    BY <1>4
  <2> QED
    BY <1>2, <1>5, <2>1, <2>2, <2>3, <2>4, <2>5, EndRemembered
<1>10. CASE call \in PruneCall
  <2>1. calls[c].kind \notin Writers /\ calls[c].kind = "prune"
    BY <1>1, <1>10 DEF PruneCall, Writers
  <2>2. t \in pruned.store
    BY <1>1, <2>1 DEF Remembered
  <2>3. next.kind \notin Writers /\ (next.kind = "prune" => next.thread = t)
    BY <1>1, <1>6, <1>10 DEF PruneCall, Writers, Idle
  <2>4. PICK added \in SUBSET Thread : added = {}
    OBVIOUS
  <2>5. pruned' = [pruned EXCEPT !.store = @ \cup added]
    BY <1>4, <2>4 DEF Remembered, Threads
  <2>6. next.kind = "prune" => next.thread \in pruned'.store
    BY <1>4, <2>2, <2>3
  <2>7. \A u \in Thread : store'.key[u] = store.key[u] \/ u \in pruned.store
    BY <1>5, <2>2 DEF OthersKept
  <2>8. UNCHANGED <<replica, checkpoint_counter, spoilt>>
    BY <1>1, <1>4, <2>1 DEF RemoveKey, Undisturbed
  <2> QED
    BY <1>7, <2>1, <2>3, <2>5, <2>6, <2>7, <2>8, OtherRemembered
<1> QED
  BY <1>2, <1>8, <1>9, <1>10

(* A copy changes its target only, whose history is not counted on.        *)
LEMMA CopyRemembered ==
    ASSUME IInv, Undisturbed, Remembered, NEW c \in Caller, CopyGet(c) \/ CopySet(c)
    PROVE  Remembered'
<1>1. PICK call, t : call = calls[c] /\ t = call.thread
  OBVIOUS
<1>2. call \in CopyCall /\ t \in Thread
  BY <1>1, Kinds DEF IInv, Typed, CopyGet, CopySet, CopyCall
<1>3. /\ calls[c].kind = "copy" /\ calls[c].kind \in Writers /\ t = calls[c].thread
      /\ t \in spoilt.store \cup pruned.store
  BY <1>1, <1>2 DEF CopyCall, Writers, Remembered
<1>4. UNCHANGED <<replica, checkpoint_counter, spoilt, pruned>>
  BY DEF CopyGet, CopySet
<1>5. OthersKept(t)
  <2>1. CASE UNCHANGED store
    BY <2>1 DEF OthersKept
  <2>2. CASE CopySet(c)
    BY <1>1, <2>2 DEF CopySet, Set, OthersKept, IInv, Typed, Map
  <2> QED
    BY <2>1, <2>2 DEF CopyGet
<1>6. CASE calls' = [calls EXCEPT ![c] = Idle]
  <2>1. spoilt' = spoilt /\ pruned' = pruned /\ UNCHANGED <<replica, checkpoint_counter>>
    BY <1>4
  <2>2. t \in spoilt'.store \cup pruned'.store
    BY <1>3, <2>1
  <2> QED
    BY <1>2, <1>3, <1>5, <1>6, <2>1, <2>2, EndRemembered
<1>7. CASE calls' # [calls EXCEPT ![c] = Idle]
  <2>1. PICK value : value = store.key[call.source][Head(call.todo)]
    OBVIOUS
  <2>2. PICK next : /\ calls' = [calls EXCEPT ![c] = next]
                    /\ next \in {[call EXCEPT !.held = value, !.at = "set"],
                                 [call EXCEPT !.todo = Tail(@)],
                                 [call EXCEPT !.at = "get", !.held = 0, !.todo = Tail(@)]}
    <3>1. CASE CopyGet(c)
      <4>1. \/ calls' = [calls EXCEPT ![c].held = value, ![c].at = "set"]
            \/ calls' = [calls EXCEPT ![c].todo = Tail(@)]
        BY <1>1, <1>7, <2>1, <3>1 DEF CopyGet, Rest
      <4> QED
        BY <1>1, <4>1 DEF IInv, Typed
    <3>2. CASE CopySet(c)
      <4>1. calls' = [calls EXCEPT ![c].at = "get", ![c].held = 0, ![c].todo = Tail(@)]
        BY <1>1, <1>7, <3>2 DEF CopySet, Onward
      <4> QED
        BY <1>1, <4>1 DEF IInv, Typed
    <3> QED
      BY <3>1, <3>2
  <2>3. next.kind = calls[c].kind /\ next.thread = t
    BY <1>1, <1>2, <2>2 DEF CopyCall
  <2>4. UNCHANGED <<replica, spoilt, pruned>> /\ checkpoint_counter' \in Nat
    BY <1>4 DEF Remembered
  <2> QED
    BY <1>2, <1>3, <1>5, <2>2, <2>3, <2>4, GoOnRemembered
<1> QED
  BY <1>6, <1>7

(* A writer of t loses a key, and t is not relied on any more.             *)
LEMMA LostRemembered ==
    ASSUME Undisturbed, Remembered, NEW c \in Caller, NEW t \in Thread, t = calls[c].thread,
           calls[c].kind \in Writers,
           \/ calls'[c].kind \notin Writers \cup {"prune"}
           \/ calls'[c].kind = calls[c].kind /\ calls'[c].thread = t,
           \A d \in Caller : d # c => \/ calls'[d] = calls[d]
                                      \/ calls[d].kind = "get_tuple" /\ calls'[d].kind = "get_tuple",
           UNCHANGED <<store, replica, checkpoint_counter>>,
           pruned' \in Threads, pruned'.replica = pruned.replica, pruned.store \subseteq pruned'.store,
           spoilt'.replica = spoilt.replica,
           \A u \in Thread : u # t => (u \in spoilt'.store <=> u \in spoilt.store),
           t \in spoilt'.store \cup pruned'.store
    PROVE  Remembered'
<1>1. \A u : u # t => (Written(u)' <=> Written(u))
  BY DEF Written, Writes, Writers
<1>2. ASSUME NEW u \in Thread
      PROVE  \/ u \in spoilt'.store \cup pruned'.store
             \/ Written(u)'
             \/ u \notin spoilt.store \cup pruned.store /\ ~ Written(u) /\ store'.key[u] = store.key[u]
  BY <1>1
<1>3. ASSUME NEW d \in Caller
      PROVE  /\ calls'[d].kind = "prune" => calls'[d].thread \in pruned'.store
             /\ calls'[d].kind = "copy" => calls'[d].thread \in pruned'.store \cup spoilt'.store
  <2>1. CASE d = c
    BY <2>1 DEF Writers
  <2>2. CASE d # c /\ calls'[d] = calls[d]
    <3>1. /\ calls[d].kind = "prune" => calls[d].thread \in pruned.store
          /\ calls[d].kind = "copy" => calls[d].thread \in pruned.store \cup spoilt.store
      BY DEF Remembered
    <3>2. pruned.store \cup spoilt.store \subseteq Thread
      BY DEF Remembered, Threads, Undisturbed
    <3> QED
      BY <2>2, <3>1, <3>2
  <2>3. CASE calls'[d].kind = "get_tuple"
    BY <2>3
  <2> QED
    BY <2>1, <2>2, <2>3
<1>4. UNCHANGED replica /\ checkpoint_counter' \in Nat
  BY DEF Remembered
<1> QED
  BY <1>2, <1>3, <1>4, RememberedStep

LEMMA DropsRemembered ==
    ASSUME IInv, Undisturbed, Remembered, NEW c \in Caller,
           PutDropped(c) \/ HistoryDropped(c) \/ CopyDropped(c)
    PROVE  Remembered'
<1>1. PICK t : t = calls[c].thread
  OBVIOUS
<1>2. calls[c].kind \in {"put", "copy"}
  BY DEF PutDropped, HistoryDropped, PutEnds, CopyDropped
<1>3. calls[c].kind \in Writers /\ t \in Thread
  BY <1>1, <1>2, Kinds DEF IInv, Typed, Writers, PutCall, CopyCall
<1>4. /\ \/ calls'[c].kind \notin Writers \cup {"prune"}
         \/ calls'[c].kind = calls[c].kind /\ calls'[c].thread = t
      /\ \A d \in Caller : d # c => \/ calls'[d] = calls[d]
                                    \/ calls[d].kind = "get_tuple" /\ calls'[d].kind = "get_tuple"
  <2>1. CASE PutDropped(c)
    <3>1. calls' = Short(c) /\ calls[c].kind = "put" /\ calls[c].todo # <<>>
      BY <2>1 DEF PutDropped
    <3>2. calls'[c].kind = "put" /\ calls'[c].thread = t
      BY <1>1, <3>1, ShortCalls DEF PutCall
    <3>3. ASSUME NEW d \in Caller, d # c
          PROVE  \/ calls'[d] = calls[d]
                 \/ calls[d].kind = "get_tuple" /\ calls'[d].kind = "get_tuple"
      <4>1. CASE calls[d].kind = "get_tuple" /\ calls[d].thread = calls[c].thread
        <5>1. calls'[d] \in ReadCall
          BY <3>1, <3>3, <4>1, ShortCalls
        <5> QED
          BY <4>1, <5>1 DEF ReadCall
      <4>2. CASE ~ (calls[d].kind = "get_tuple" /\ calls[d].thread = calls[c].thread)
        BY <3>1, <3>3, <4>2, ShortCalls
      <4> QED
        BY <4>1, <4>2
    <3> QED
      BY <3>1, <3>2, <3>3
  <2>2. CASE HistoryDropped(c)
    BY <2>2 DEF HistoryDropped, PutEnds, IInv, Typed, Idle, Writers
  <2>3. CASE CopyDropped(c)
    <3>1. calls[c] \in CopyCall /\ calls' = Onward(c)
      BY <2>3, Kinds DEF CopyDropped, IInv, Typed
    <3>2. CASE Len(calls[c].todo) = 1
      BY <3>1, <3>2 DEF Onward, IInv, Typed, Idle, Writers
    <3>3. CASE Len(calls[c].todo) # 1
      <4>1. calls' = [calls EXCEPT ![c].at = "get", ![c].held = 0, ![c].todo = Tail(@)]
        BY <3>1, <3>3 DEF Onward
      <4>2. /\ calls'[c] = [calls[c] EXCEPT !.at = "get", !.held = 0, !.todo = Tail(@)]
            /\ \A d \in Caller : d # c => calls'[d] = calls[d]
        BY <4>1 DEF IInv, Typed
      <4>3. calls'[c].kind = calls[c].kind /\ calls'[c].thread = t
        BY <1>1, <3>1, <4>2 DEF CopyCall
      <4> QED
        BY <4>2, <4>3
    <3> QED
      BY <3>2, <3>3
  <2> QED
    BY <2>1, <2>2, <2>3
<1>5. /\ UNCHANGED <<store, replica, checkpoint_counter>>
      /\ pruned' \in Threads /\ pruned'.replica = pruned.replica /\ pruned.store \subseteq pruned'.store
      /\ spoilt'.replica = spoilt.replica
      /\ \A u \in Thread : u # t => (u \in spoilt'.store <=> u \in spoilt.store)
      /\ t \in spoilt'.store \cup pruned'.store
  <2>1. CASE PutDropped(c)
    BY <1>1, <1>3, <2>1 DEF PutDropped, Spoil, Remembered, Threads, Undisturbed
  <2>2. CASE HistoryDropped(c)
    <3>1. pruned' = [pruned EXCEPT !.store = @ \cup {t}] /\ UNCHANGED <<store, replica, checkpoint_counter>>
      BY <1>1, <2>2 DEF HistoryDropped
    <3>2. \/ spoilt' = spoilt
          \/ spoilt' = [spoilt EXCEPT !.store = @ \ {t}]
      <4>1. spoilt' = [spoilt EXCEPT !.store = IF Repairs(calls[c]) THEN @ \ {t} ELSE @]
        BY <1>1, <2>2 DEF HistoryDropped, PutEnds
      <4> QED
        BY <4>1 DEF Undisturbed
    <3> QED
      BY <1>3, <3>1, <3>2 DEF Remembered, Threads, Undisturbed
  <2>3. CASE CopyDropped(c)
    <3>1. /\ UNCHANGED <<store, replica, checkpoint_counter, pruned>>
          /\ calls[c].kind = "copy"
          /\ Spoil({}) \/ Spoil({t})
      BY <1>1, <2>3 DEF CopyDropped
    <3> QED
      BY <1>1, <3>1 DEF Spoil, Remembered, Threads, Undisturbed
  <2> QED
    BY <2>1, <2>2, <2>3
<1> QED
  BY <1>1, <1>3, <1>4, <1>5, LostRemembered

LEMMA PruneRemembered ==
    ASSUME IInv, Remembered, NEW c \in Caller, NEW t \in Thread, Prune(c, t)
    PROVE  Remembered'
<1>1. PICK next : next = [kind |-> "prune", thread |-> t, todo |-> SlotsInOrder]
  OBVIOUS
<1>2. PICK added \in SUBSET Thread : added = {t}
  OBVIOUS
<1>3. /\ calls[c] = Idle /\ calls' = [calls EXCEPT ![c] = next]
      /\ pruned' = [pruned EXCEPT !.store = @ \cup added]
      /\ UNCHANGED <<store, replica, checkpoint_counter, spoilt>>
  BY <1>1, <1>2 DEF Prune, Starts
<1>4. /\ calls[c].kind \notin Writers
      /\ next.kind \notin Writers /\ next.thread \in pruned'.store
  BY <1>1, <1>2, <1>3 DEF Idle, Writers, Remembered, Threads
<1>5. UNCHANGED <<replica, checkpoint_counter, spoilt>> /\ \A u \in Thread : store'.key[u] = store.key[u]
  BY <1>3
<1> QED
  BY <1>3, <1>4, <1>5, OtherRemembered

LEMMA ReadersRemembered ==
    ASSUME IInv, Remembered, NEW c \in Caller,
           \/ \E t \in Thread : GetTuple(c, t)
           \/ Read(c)
           \/ Return(c)
    PROVE  Remembered'
<1>1. /\ calls[c] = Idle \/ calls[c].kind = "get_tuple"
      /\ UNCHANGED <<store, replica, checkpoint_counter, spoilt, pruned>>
  BY DEF GetTuple, Starts, Read, Return
<1>2. PICK next : calls' = [calls EXCEPT ![c] = next] /\ next.kind \in {"idle", "get_tuple"}
  <2>1. CASE \E t \in Thread : GetTuple(c, t)
    <3>3. PICK t \in Thread : GetTuple(c, t)
      BY <2>1
    <3>1. PICK next : next = [kind |-> "get_tuple", thread |-> t, got |-> Absent, todo |-> ReadOrder,
                              alone |-> t \notin spoilt.store /\ ~ Written(t),
                              calm |-> /\ t \notin spoilt.store
                                       /\ \A d \in Caller : Writes(d, t) => calls[d].kind = "put"]
      OBVIOUS
    <3>2. next.kind = "get_tuple"
      BY <3>1
    <3> QED
      BY <3>1, <3>2, <3>3 DEF GetTuple
  <2>2. CASE Read(c)
    <3>1. PICK call, p, value, todo :
             /\ call = calls[c] /\ p = Head(call.todo) /\ value = store.key[call.thread][p]
             /\ todo = IF p = Latest /\ value = 0 THEN <<>> ELSE Tail(call.todo)
      OBVIOUS
    <3>2. PICK next : next = [call EXCEPT !.got[p] = value, !.todo = todo]
      OBVIOUS
    <3>3. calls' = [calls EXCEPT ![c] = next]
      <4>1. calls' = [calls EXCEPT ![c].got[p] = value,
                                   ![c].todo = IF p = Latest /\ value = 0 THEN <<>> ELSE Tail(@)]
        BY <2>2, <3>1 DEF Read
      <4> QED
        BY <3>1, <3>2, <4>1 DEF IInv, Typed
    <3>4. next.kind = "get_tuple"
      <4>1. call \in ReadCall
        BY <2>2, <3>1, Kinds DEF IInv, Typed, Read
      <4> QED
        BY <3>2, <4>1 DEF ReadCall
    <3> QED
      BY <3>3, <3>4
  <2>3. CASE Return(c)
    <3>1. calls' = [calls EXCEPT ![c] = Idle] /\ Idle.kind = "idle"
      BY <2>3 DEF Return, Idle
    <3> QED
      BY <3>1
  <2> QED
    BY <2>1, <2>2, <2>3
<1>3. PICK added \in SUBSET Thread : added = {}
  OBVIOUS
<1>4. pruned' = [pruned EXCEPT !.store = @ \cup added]
  BY <1>1, <1>3 DEF Remembered, Threads
<1>5. calls[c].kind \notin Writers /\ next.kind \notin Writers /\ next.kind # "prune"
  BY <1>1, <1>2 DEF Writers, Idle
<1>6. UNCHANGED <<replica, checkpoint_counter, spoilt>> /\ \A u \in Thread : store'.key[u] = store.key[u]
  BY <1>1
<1> QED
  BY <1>2, <1>4, <1>5, <1>6, OtherRemembered

(* The peer learns what is known of the threads along with their keys.     *)
LEMMA GossipRemembered ==
    ASSUME IInv, Remembered, Gossip
    PROVE  Remembered'
<1>1. /\ replica' = store /\ UNCHANGED <<store, calls, checkpoint_counter>>
      /\ spoilt'.replica = spoilt.store \cup {t \in Thread : Written(t)}
      /\ spoilt'.store = spoilt.store
      /\ pruned' \in Threads /\ pruned'.store = pruned.store /\ pruned'.replica = pruned.store
  BY DEF Gossip, Snapshot, Remembered, Threads, IInv
<1>2. \A t : Written(t)' <=> Written(t)
  BY <1>1 DEF Written, Writes
<1>3. \A t \in Thread :
         /\ t \notin spoilt'.store \cup pruned'.store /\ ~ Written(t)' => HasLatest(store.key[t])'
         /\ t \notin spoilt'.replica \cup pruned'.replica => HasLatest(replica.key[t])'
  BY <1>1, <1>2 DEF Remembered, HasLatest
<1> QED
  BY <1>1, <1>3 DEF Remembered

LEMMA CrashRemembered ==
    ASSUME Remembered, Crash
    PROVE  Remembered'
<1>1. /\ store' = replica /\ checkpoint_counter' = 0
      /\ spoilt' = [store |-> spoilt.replica, replica |-> {}]
      /\ pruned' = [store |-> pruned.replica, replica |-> {}]
      /\ \A c \in Caller : calls'[c].kind = "idle"
      /\ \A t \in Thread, p \in Part : replica'.key[t][p] = 0
  BY DEF Crash, Idle, Absent
<1>2. \A t \in Thread :
         /\ t \notin spoilt'.store \cup pruned'.store => HasLatest(store.key[t])'
         /\ HasLatest(replica.key[t])'
  BY <1>1 DEF Remembered, HasLatest, Part
<1>3. pruned' \in Threads
  BY <1>1 DEF Remembered, Threads
<1> QED
  BY <1>1, <1>2, <1>3 DEF Remembered

LEMMA StillRemembered ==
    ASSUME IInv, Remembered, UNCHANGED <<replica, checkpoint_counter, calls, spoilt, pruned>>,
           \A u \in Thread : store'.key[u] = store.key[u]
    PROVE  Remembered'
<1>1. \A u : Written(u)' <=> Written(u)
  BY DEF Written, Writes
<1>2. \A t \in Thread :
         /\ t \notin spoilt.store \cup pruned.store /\ ~ Written(t)' => HasLatest(store.key[t])'
         /\ t \notin spoilt.replica \cup pruned.replica => HasLatest(replica.key[t])'
  BY <1>1 DEF Remembered, HasLatest
<1> QED
  BY <1>2 DEF Remembered

LEMMA StepRemembered == IInv /\ Undisturbed /\ Remembered /\ [Next]_vars => Remembered'
<1> SUFFICES ASSUME IInv, Undisturbed, Remembered, [Next]_vars PROVE Remembered'
  OBVIOUS
<1>1. CASE \E c \in Caller, t \in Thread : Put(c, t) \/ DeleteThread(c, t)
  BY <1>1, BeginsRemembered
<1>2. CASE \E c \in Caller, t \in Thread : Prune(c, t)
  BY <1>2, PruneRemembered
<1>3. CASE \E c \in Caller : (\E t \in Thread : GetTuple(c, t)) \/ Read(c) \/ Return(c)
  BY <1>3, ReadersRemembered
<1>4. CASE \E c \in Caller, s, t \in Thread : CopyThread(c, s, t)
  BY <1>4, CopyThreadRemembered
<1>5. CASE \E c \in Caller : PutSet(c) \/ PutCount(c) \/ PutHistory(c)
  BY <1>5, PutSetRemembered, PutCountRemembered, PutHistoryRemembered
<1>6. CASE \E c \in Caller : RemoveKey(c)
  BY <1>6, RemoveRemembered
<1>7. CASE \E c \in Caller : CopyGet(c) \/ CopySet(c)
  BY <1>7, CopyRemembered
<1>12. CASE \E c \in Caller : PutDropped(c) \/ HistoryDropped(c) \/ CopyDropped(c)
  BY <1>12, DropsRemembered
<1>13. CASE \E t \in Thread, task \in Task : WritesDropped(t, task)
  BY <1>13, StillRemembered DEF WritesDropped
<1>8. CASE \E t \in Thread, task \in Task : PutWrites(t, task)
  <2>1. UNCHANGED <<replica, checkpoint_counter, calls, spoilt, pruned>>
    BY <1>8 DEF PutWrites
  <2>2. \A u \in Thread : store'.key[u] = store.key[u]
    BY <1>8 DEF PutWrites, IInv, Typed, Map
  <2> QED
    BY <2>1, <2>2, StillRemembered
<1>9. CASE Gossip
  BY <1>9, GossipRemembered
<1>10. CASE Crash
  BY <1>10, CrashRemembered
<1>11. CASE UNCHANGED vars
  BY <1>11, StillRemembered DEF vars
<1> QED
  BY <1>1, <1>2, <1>3, <1>4, <1>5, <1>6, <1>7, <1>8, <1>9, <1>10, <1>11, <1>12, <1>13 DEF Next

(* However one counter spreads the slots of the history over the threads,  *)
(* and wherever it starts over, the current checkpoint of a thread is in   *)
(* its history, from the first put whose entry found room in the map: one  *)
(* that found none counts like prune(), and the next good put mends it.    *)
THEOREM LatestInHistory == Spec => []HistoryHasLatest
<1>1. Init => Remembered
  BY InitRemembered
<1>2. IInv /\ Undisturbed /\ Remembered /\ [Next]_vars => Remembered'
  BY StepRemembered
<1>3. Remembered => HistoryHasLatest
  BY DEF Remembered, HistoryHasLatest, HasLatest
<1> QED
  BY <1>1, <1>2, <1>3, StaysUndisturbed, PTL DEF Spec

-----------------------------------------------------------------------------
(* What get_tuple() reads is nearly whole. *)

(* The keys a put sets belong to it or to the checkpoint it replaces, which *)
(* is older.                                                               *)
PutFresh(c) ==
    LET call == calls[c]
    IN  call.kind = "put" =>
          /\ call.current < call.checkpoint
          /\ call.thread \notin spoilt.store =>
               \A p \in {Latest, Id, Meta} :
                  store.key[call.thread][p] \in {call.current, call.checkpoint}

(* What a reader has got, or would get now. *)
Now(call, key, p) == IF p \in Left(call.todo) THEN key[p] ELSE call.got[p]

Near(list, n, m) == m = list[n].before \/ m >= n

SeenWhole(call, key) == \A p \in Core : p \in Left(call.todo) \/ call.got[p] = key[p]

SeenNear(list, call, key) ==
    /\ call.got[Latest] \in DOMAIN list
    /\ \A p \in {Id, Meta} : Near(list, call.got[Latest], Now(call, key, p))

(* Nothing is read before the checkpoint; a reader that runs alone sees    *)
(* the keys as they are, and one beside puts may see those after.          *)
ReadSound(c) ==
    LET call == calls[c]
        t == call.thread
        n == call.got[Latest]
    IN  call.kind = "get_tuple" =>
          /\ IF n = 0 THEN call.todo \in {<<>>, ReadOrder} ELSE Latest \notin Left(call.todo)
          /\ call.alone =>
               /\ t \notin spoilt.store /\ ~ Written(t)
               /\ n # 0 => SeenWhole(call, store.key[t])
          /\ call.calm =>
               /\ t \notin spoilt.store
               /\ \A d \in Caller : Writes(d, t) => /\ calls[d].kind = "put"
                                                    /\ n <= calls[d].checkpoint
               /\ n # 0 => SeenNear(made, call, store.key[t])

Readable(c) == PutFresh(c) /\ ReadSound(c)

(* The keys to read, in their order. *)
LEMMA ReadOrderParts ==
    /\ ReadOrder \in Seq(Part) /\ ReadOrder # <<>>
    /\ Head(ReadOrder) = Latest
    /\ Latest \notin Left(Tail(ReadOrder))
    /\ Core \subseteq Left(ReadOrder)
<1>1. PICK order : order = ReadOrder
  OBVIOUS
<1>2. order \in Seq(Part)
  BY <1>1, Orders
<1>3. /\ Len(order) = 4
      /\ order[1] = Latest /\ order[2] = Id /\ order[3] = Meta /\ order[4] = Parent
  BY <1>1 DEF ReadOrder
<1>4. order # <<>> /\ Head(order) = Latest
  BY <1>2, <1>3
<1>5. /\ Tail(order) \in Seq(Part)
      /\ Len(Tail(order)) = 3
      /\ \A i \in 1..3 : Tail(order)[i] = order[i + 1]
  <2>1. /\ Tail(order) \in Seq(Part)
        /\ Len(Tail(order)) = Len(order) - 1
        /\ \A i \in 1..Len(Tail(order)) : Tail(order)[i] = order[i + 1]
    BY <1>2, <1>4, HeadTailProperties
  <2>2. Len(Tail(order)) = 3
    BY <1>3, <2>1
  <2> QED
    BY <2>1, <2>2
<1>6. Latest \notin Left(Tail(order))
  <2> SUFFICES ASSUME NEW i \in DOMAIN Tail(order), Tail(order)[i] = Latest PROVE FALSE
    BY DEF Left
  <2>1. i \in 1..3
    BY <1>5, LenProperties
  <2>2. Latest \notin {Id, Meta, Parent}
    BY DEF Latest, Id, Meta, Parent
  <2>3. CASE i = 1
    BY <1>3, <1>5, <2>1, <2>2, <2>3
  <2>4. CASE i = 2
    BY <1>3, <1>5, <2>1, <2>2, <2>4
  <2>5. CASE i = 3
    BY <1>3, <1>5, <2>1, <2>2, <2>5
  <2> QED
    BY <2>1, <2>3, <2>4, <2>5
<1>7. 1 \in DOMAIN order /\ 2 \in DOMAIN order /\ 3 \in DOMAIN order /\ 4 \in DOMAIN order
  BY <1>2, <1>3
<1>8. {Latest, Id, Meta, Parent} \subseteq Left(order)
  BY <1>3, <1>7 DEF Left
<1> QED
  BY <1>1, <1>2, <1>4, <1>6, <1>8 DEF Core

LEMMA InitReadable == Init => \A c \in Caller : Readable(c)
BY DEF Init, Idle, Readable, PutFresh, ReadSound

(* A reader d stays what it is while others go on. *)
SameReader(next, call) ==
    /\ call.kind = "get_tuple" /\ next.kind = "get_tuple"
    /\ next.thread = call.thread /\ next.got = call.got /\ next.todo = call.todo
    /\ next.alone => call.alone
    /\ next.calm => call.calm

(* What others may do on its thread t. *)
Keeps(t, next) ==
    /\ next.alone => /\ t \notin spoilt'.store /\ ~ Written(t)'
                     /\ \A p \in Core : store'.key[t][p] = store.key[t][p]
    /\ next.calm =>
         /\ t \notin spoilt'.store
         /\ \A e \in Caller : Writes(e, t)' => /\ calls'[e].kind = "put"
                                               /\ next.got[Latest] <= calls'[e].checkpoint
         /\ next.got[Latest] # 0 =>
              \A p \in {Id, Meta} : \/ store'.key[t][p] = store.key[t][p]
                                    \/ store'.key[t][p] >= next.got[Latest]

MadeGrows == \A i \in DOMAIN made : i \in DOMAIN made' /\ made'[i] = made[i]

LEMMA ReaderStays ==
    ASSUME IInv, NEW d \in Caller, ReadSound(d), NEW call, call = calls[d], NEW next, next = calls'[d],
           SameReader(next, call), NEW t, t = call.thread, MadeGrows, Keeps(t, next)
    PROVE  ReadSound(d)'
<1> USE DEF SameReader, Keeps, MadeGrows
<1>1. PICK n : n = call.got[Latest]
  OBVIOUS
<1>2. IF n = 0 THEN call.todo \in {<<>>, ReadOrder} ELSE Latest \notin Left(call.todo)
  BY <1>1 DEF ReadSound
<1>3. ASSUME next.alone, n # 0 PROVE SeenWhole(next, store'.key[t])
  <2>1. SeenWhole(call, store.key[t])
    BY <1>1, <1>3 DEF ReadSound
  <2> QED
    BY <1>3, <2>1 DEF SeenWhole
<1>4. ASSUME next.calm, n # 0 PROVE SeenNear(made', next, store'.key[t])
  <2>1. SeenNear(made, call, store.key[t])
    BY <1>1, <1>4 DEF ReadSound
  <2>2. n \in DOMAIN made' /\ made'[n].before = made[n].before
    BY <1>1, <2>1 DEF SeenNear
  <2>3. ASSUME NEW p \in {Id, Meta} PROVE Near(made', n, Now(next, store'.key[t], p))
    <3>1. Near(made, n, Now(call, store.key[t], p))
      BY <1>1, <2>1 DEF SeenNear
    <3> QED
      BY <1>1, <1>4, <2>2, <3>1 DEF Near, Now
  <2> QED
    BY <1>1, <2>2, <2>3 DEF SeenNear
<1>5. /\ next.thread = t /\ next.got[Latest] = n /\ next.todo = call.todo
      /\ next.alone => t \notin spoilt'.store /\ ~ Written(t)'
      /\ next.calm => t \notin spoilt'.store
  BY <1>1
<1>6. next.calm => \A e \in Caller : Writes(e, t)' => /\ calls'[e].kind = "put"
                                                     /\ n <= calls'[e].checkpoint
  BY <1>1
<1> HIDE DEF SameReader, Keeps, MadeGrows
<1> SUFFICES ASSUME calls'[d].kind = "get_tuple"
             PROVE  /\ IF n = 0 THEN next.todo \in {<<>>, ReadOrder} ELSE Latest \notin Left(next.todo)
                    /\ next.alone => /\ t \notin spoilt'.store /\ ~ Written(t)'
                                     /\ n # 0 => SeenWhole(next, store'.key[t])
                    /\ next.calm => /\ t \notin spoilt'.store
                                    /\ \A e \in Caller : Writes(e, t)' => /\ calls'[e].kind = "put"
                                                                         /\ n <= calls'[e].checkpoint
                                    /\ n # 0 => SeenNear(made', next, store'.key[t])
  BY <1>5 DEF ReadSound
<1> QED
  BY <1>2, <1>3, <1>4, <1>5, <1>6

(* A writer c takes a step on its thread t, or ends.  A reader that still  *)
(* counts there knows c for a put.                                         *)
LEMMA WriterReadable ==
    ASSUME IInv, Undisturbed, \A d \in Caller : Readable(d),
           NEW c \in Caller, calls[c].kind \in Writers,
           NEW t \in Thread, t = calls[c].thread,
           NEW next, calls' = [calls EXCEPT ![c] = next],
           next = Idle \/ (next.kind = calls[c].kind /\ next.thread = t),
           calls[c].kind = "put" /\ next # Idle => next.checkpoint = calls[c].checkpoint,
           UNCHANGED made, OthersKept(t),
           \/ spoilt' = spoilt
           \/ calls[c].alone /\ spoilt' = [spoilt EXCEPT !.store = @ \ {t}],
           calls[c].kind = "put" =>
              \A p \in {Id, Meta} : store'.key[t][p] \in {store.key[t][p], calls[c].checkpoint},
           PutFresh(c)'
    PROVE  \A d \in Caller : Readable(d)'
<1>1. calls'[c] = next /\ \A d \in Caller : d # c => calls'[d] = calls[d]
  BY DEF IInv, Typed
<1>2. /\ spoilt'.store \subseteq spoilt.store
      /\ \A u : u # t => (u \in spoilt'.store <=> u \in spoilt.store)
      /\ t \notin spoilt'.store => Trusted(c)
  BY DEF Undisturbed, Trusted
<1>3. Writes(c, t)
  BY DEF Writes
<1>4. ASSUME NEW u, NEW e \in Caller, Writes(e, u)'
      PROVE  /\ Writes(e, u)
             /\ calls'[e].kind = calls[e].kind
             /\ calls[e].kind = "put" => calls'[e].checkpoint = calls[e].checkpoint
  BY <1>1, <1>4 DEF Writes, Writers, Idle
<1>5. ReadSound(c)'
  BY <1>1 DEF ReadSound, Writers, Idle
<1>6. ASSUME NEW d \in Caller, d # c PROVE PutFresh(d)'
  <2>1. PutFresh(d)
    BY DEF Readable
  <2> SUFFICES ASSUME calls[d].kind = "put" PROVE PutFresh(d)'
    BY <1>1, <1>6 DEF PutFresh
  <2>2. PICK u, call : call = calls[d] /\ u = call.thread
    OBVIOUS
  <2>3. u \in Thread
    BY <2>2, Kinds DEF IInv, Typed, PutCall
  <2>4. CASE u # t
    <3>1. store'.key[u] = store.key[u]
      BY <2>3, <2>4 DEF OthersKept
    <3>2. calls'[d] = call /\ (u \in spoilt'.store <=> u \in spoilt.store)
      BY <1>1, <1>2, <1>6, <2>2, <2>4
    <3>3. /\ call.current < call.checkpoint
          /\ u \notin spoilt.store =>
               \A p \in {Latest, Id, Meta} : store.key[u][p] \in {call.current, call.checkpoint}
      BY <2>1, <2>2 DEF PutFresh
    <3> QED
      BY <2>2, <3>1, <3>2, <3>3 DEF PutFresh
  <2>5. CASE u = t
    <3>1. Writes(d, t)
      BY <2>2, <2>5 DEF Writes, Writers
    <3>2. ~ Sole(c, t)
      BY <1>6, <3>1 DEF Sole
    <3>3. ~ Trusted(c)
      BY <3>2 DEF Undisturbed, SoleWriters
    <3>4. t \in spoilt'.store
      BY <1>2, <3>3
    <3> QED
      BY <1>1, <1>6, <2>1, <2>2, <2>5, <3>4 DEF PutFresh
  <2> QED
    BY <2>4, <2>5
<1>7. ASSUME NEW d \in Caller, d # c, calls[d].kind = "get_tuple" PROVE ReadSound(d)'
  <2>1. ReadSound(d)
    BY DEF Readable
  <2>2. PICK call, u, n : call = calls[d] /\ u = call.thread /\ n = call.got[Latest]
    OBVIOUS
  <2>3. u \in Thread /\ calls'[d] = call
    BY <1>1, <1>7, <2>2, Kinds DEF IInv, Typed, ReadCall
  <2>4. ASSUME call.alone
        PROVE  /\ u \notin spoilt'.store /\ ~ Written(u)'
               /\ \A p \in Core : store'.key[u][p] = store.key[u][p]
    <3>1. u \notin spoilt.store /\ ~ Written(u)
      BY <1>7, <2>1, <2>2, <2>4 DEF ReadSound
    <3>2. u # t
      BY <1>3, <3>1 DEF Written
    <3>3. ~ Written(u)'
      BY <1>4, <3>1 DEF Written
    <3> QED
      BY <1>2, <2>3, <3>1, <3>2, <3>3 DEF OthersKept
  <2>5. ASSUME call.calm
        PROVE  /\ u \notin spoilt'.store
               /\ \A e \in Caller : Writes(e, u)' => calls'[e].kind = "put" /\ n <= calls'[e].checkpoint
               /\ n # 0 => \A p \in {Id, Meta} : \/ store'.key[u][p] = store.key[u][p]
                                                 \/ store'.key[u][p] >= n
    <3>1. /\ u \notin spoilt.store
          /\ \A e \in Caller : Writes(e, u) => calls[e].kind = "put" /\ n <= calls[e].checkpoint
      BY <1>7, <2>1, <2>2, <2>5 DEF ReadSound
    <3>2. \A e \in Caller : Writes(e, u)' => calls'[e].kind = "put" /\ n <= calls'[e].checkpoint
      BY <1>4, <3>1
    <3>3. CASE u = t
      <4>1. calls[c].kind = "put" /\ n <= calls[c].checkpoint
        BY <1>3, <3>1, <3>3
      <4>2. calls[c].checkpoint \in Nat /\ n \in Nat
        BY <1>7, <2>2, <4>1, Kinds DEF IInv, Typed, PutCall, ReadCall, Part
      <4>3. \A p \in {Id, Meta} : store'.key[u][p] = store.key[u][p] \/ store'.key[u][p] >= n
        BY <3>3, <4>1, <4>2
      <4> QED
        BY <1>2, <3>1, <3>2, <4>3
    <3>4. CASE u # t
      BY <1>2, <2>3, <3>1, <3>2, <3>4 DEF OthersKept
    <3> QED
      BY <3>3, <3>4
  <2>6. MadeGrows
    BY DEF MadeGrows
  <2>7. SameReader(call, call) /\ call = calls[d] /\ u = call.thread
    BY <1>7, <2>2 DEF SameReader
  <2>8. Keeps(u, call)
    BY <2>2, <2>4, <2>5 DEF Keeps
  <2> QED
    BY <2>1, <2>3, <2>6, <2>7, <2>8, ReaderStays
<1>8. ASSUME NEW d \in Caller, d # c, calls[d].kind # "get_tuple" PROVE ReadSound(d)'
  BY <1>1, <1>8 DEF ReadSound
<1> QED
  BY <1>5, <1>6, <1>7, <1>8 DEF Readable

(* A step that sets no key a checkpoint is made of and concerns no writer: *)
(* those it does not concern go on as before.                              *)
LEMMA BystanderReadable ==
    ASSUME IInv, UNCHANGED <<made, spoilt>>, NEW d \in Caller, Readable(d), calls'[d] = calls[d],
           \A u \in Thread, q \in Core : store'.key[u][q] = store.key[u][q],
           \A e \in Caller : \/ calls'[e] = calls[e]
                             \/ calls[e].kind \notin Writers /\ calls'[e].kind \notin Writers
    PROVE  Readable(d)'
<1>1. ASSUME NEW e \in Caller, NEW u
      PROVE  /\ Writes(e, u)' <=> Writes(e, u)
             /\ Writes(e, u) => calls'[e] = calls[e]
  BY DEF Writes
<1>2. PutFresh(d)'
  <2>1. PutFresh(d)
    BY DEF Readable
  <2> SUFFICES ASSUME calls[d].kind = "put" PROVE PutFresh(d)'
    BY DEF PutFresh
  <2>2. calls[d].thread \in Thread
    BY Kinds DEF IInv, Typed, PutCall
  <2>3. {Latest, Id, Meta} \subseteq Core
    BY DEF Core
  <2> QED
    BY <2>1, <2>2, <2>3 DEF PutFresh
<1>3. CASE calls[d].kind # "get_tuple"
  BY <1>2, <1>3 DEF Readable, ReadSound
<1>4. CASE calls[d].kind = "get_tuple"
  <2>1. ReadSound(d)
    BY DEF Readable
  <2>2. PICK call, t : call = calls[d] /\ t = call.thread
    OBVIOUS
  <2>3. t \in Thread
    BY <1>4, <2>2, Kinds DEF IInv, Typed, ReadCall
  <2>4. \A p \in Core : store'.key[t][p] = store.key[t][p]
    BY <2>3
  <2>5. call.alone => t \notin spoilt'.store /\ ~ Written(t)'
    BY <1>1, <1>4, <2>1, <2>2 DEF ReadSound, Written
  <2>6. call.calm => /\ t \notin spoilt'.store
                     /\ \A e \in Caller : Writes(e, t)' => /\ calls'[e].kind = "put"
                                                           /\ call.got[Latest] <= calls'[e].checkpoint
    BY <1>1, <1>4, <2>1, <2>2 DEF ReadSound
  <2>7. \A p \in {Id, Meta} : store'.key[t][p] = store.key[t][p]
    BY <2>4 DEF Core
  <2>8. MadeGrows /\ SameReader(call, call) /\ Keeps(t, call)
    BY <1>4, <2>2, <2>4, <2>5, <2>6, <2>7 DEF MadeGrows, SameReader, Keeps
  <2>9. ReadSound(d)'
    BY <2>1, <2>2, <2>8, ReaderStays
  <2> QED
    BY <1>2, <2>9 DEF Readable
<1> QED
  BY <1>3, <1>4

(* A call c that is no writer goes on, ends or begins as one that is none. *)
LEMMA OtherReadable ==
    ASSUME IInv, \A d \in Caller : Readable(d), NEW c \in Caller, calls[c].kind \notin Writers,
           NEW next, calls' = [calls EXCEPT ![c] = next], next.kind \notin Writers,
           UNCHANGED <<made, spoilt>>,
           \A u \in Thread, q \in Core : store'.key[u][q] = store.key[u][q],
           ReadSound(c)'
    PROVE  \A d \in Caller : Readable(d)'
<1>1. calls'[c] = next /\ \A d \in Caller : d # c => calls'[d] = calls[d]
  BY DEF IInv, Typed
<1>2. \A e \in Caller : \/ calls'[e] = calls[e]
                        \/ calls[e].kind \notin Writers /\ calls'[e].kind \notin Writers
  BY <1>1
<1>3. Readable(c)'
  BY <1>1 DEF Readable, PutFresh, Writers
<1>4. ASSUME NEW d \in Caller, d # c PROVE Readable(d)'
  <2>1. Readable(d) /\ calls'[d] = calls[d]
    BY <1>1, <1>4
  <2> QED
    BY <1>2, <2>1, BystanderReadable
<1> QED
  BY <1>3, <1>4

(* What Crossed leaves of a reader. *)
LEMMA CrossedReaders ==
    ASSUME IInv, NEW kind, NEW t \in Thread, NEW d \in Caller, calls[d].kind = "get_tuple",
           NEW next, next = Crossed(kind, t)[d], NEW call, call = calls[d]
    PROVE  /\ SameReader(next, call)
           /\ call.thread = t => ~ next.alone /\ (next.calm => kind = "put" /\ ~ Written(t))
<1>1. call \in ReadCall
  BY Kinds DEF IInv, Typed
<1>2. ~ Uses(d, t)
  BY DEF Uses, Writes, Writers
<1>3. CASE call.thread = t
  <2>1. next = [call EXCEPT !.alone = FALSE, !.calm = @ /\ kind = "put" /\ ~ Written(t)]
    BY <1>2, <1>3 DEF Crossed
  <2>2. PICK calm \in BOOLEAN : calm = (call.calm /\ kind = "put" /\ ~ Written(t))
    OBVIOUS
  <2>3. next = [call EXCEPT !.alone = FALSE, !.calm = calm]
    BY <2>1, <2>2
  <2>4. next.calm = calm /\ next.alone = FALSE /\ next.kind = "get_tuple"
        /\ next.thread = call.thread /\ next.got = call.got /\ next.todo = call.todo
    BY <1>1, <2>3 DEF ReadCall
  <2> QED
    BY <2>2, <2>4 DEF SameReader
<1>4. CASE call.thread # t
  <2>1. next = call
    BY <1>2, <1>4 DEF Crossed
  <2> QED
    BY <1>4, <2>1 DEF SameReader
<1> QED
  BY <1>3, <1>4

(* A writer c comes to t: only a put that comes alone leaves a reader      *)
(* there calm.                                                             *)
LEMMA BeginReadable ==
    ASSUME IInv, Undisturbed, \A d \in Caller : Readable(d), NEW c \in Caller, calls[c] = Idle,
           NEW t \in Thread, NEW call, call.kind \in Writers, call.thread = t, Begin(c, call),
           UNCHANGED store, MadeGrows,
           NEW extra \in {{}, {t}}, Spoil(Disturbs(t) \cup extra),
           call.kind = "put" => /\ extra = {} /\ call.checkpoint \in Nat
                                /\ \A i \in DOMAIN made : i <= call.checkpoint,
           PutFresh(c)'
    PROVE  \A d \in Caller : Readable(d)'
<1>1. /\ calls'[c] = call
      /\ \A d \in Caller : d # c => calls'[d] = Crossed(call.kind, t)[d]
  <2>1. PICK crossed : crossed = Crossed(call.kind, t)
    OBVIOUS
  <2>2. crossed \in [Caller -> CallSet]
    BY <2>1, CrossedTyped DEF IInv
  <2>3. calls' = [crossed EXCEPT ![c] = call]
    BY <2>1 DEF Begin
  <2> QED
    BY <2>1, <2>2, <2>3
<1>2. ASSUME NEW d \in Caller, d # c
      PROVE  /\ calls'[d].kind = calls[d].kind
             /\ calls[d].kind \in Writers => SameWork(calls'[d], calls[d])
  <2>1. PICK kind, other : kind = call.kind /\ other = Crossed(kind, t)[d]
    OBVIOUS
  <2>2. calls'[d] = other
    BY <1>1, <1>2, <2>1
  <2>3. other.kind = calls[d].kind /\ (calls[d].kind \in Writers => SameWork(other, calls[d]))
    BY <2>1, CrossedWriters
  <2> QED
    BY <2>2, <2>3
<1>3. spoilt'.store = spoilt.store \cup Disturbs(t) \cup extra
  BY DEF Spoil, Undisturbed
<1>4. ASSUME NEW e \in Caller, NEW u, Writes(e, u)'
      PROVE  IF e = c THEN u = t ELSE Writes(e, u) /\ SameWork(calls'[e], calls[e])
  BY <1>1, <1>2, <1>4 DEF Writes, SameWork
<1>5. ReadSound(c)'
  BY <1>1 DEF ReadSound, Writers
<1>6. ASSUME NEW d \in Caller, d # c PROVE PutFresh(d)'
  <2>1. PutFresh(d)
    BY DEF Readable
  <2> SUFFICES ASSUME calls[d].kind = "put" PROVE PutFresh(d)'
    BY <1>2, <1>6 DEF PutFresh
  <2>2. SameWork(calls'[d], calls[d])
    BY <1>2, <1>6 DEF Writers
  <2> QED
    BY <1>3, <2>1, <2>2 DEF PutFresh, SameWork
<1>7. ASSUME NEW d \in Caller, d # c, calls[d].kind = "get_tuple" PROVE ReadSound(d)'
  <2>1. ReadSound(d)
    BY DEF Readable
  <2>2. PICK reader, next, u, kind : /\ reader = calls[d] /\ next = Crossed(kind, t)[d]
                                     /\ u = reader.thread /\ kind = call.kind
    OBVIOUS
  <2>3. /\ next = calls'[d] /\ SameReader(next, reader)
        /\ u = t => ~ next.alone /\ (next.calm => kind = "put" /\ ~ Written(t))
    BY <1>1, <1>7, <2>2, CrossedReaders
  <2>4. PICK n : n = reader.got[Latest]
    OBVIOUS
  <2>5. ASSUME next.alone PROVE u \notin spoilt'.store /\ ~ Written(u)'
    <3>1. u # t /\ u \notin spoilt.store /\ ~ Written(u)
      BY <1>7, <2>1, <2>2, <2>3, <2>5 DEF ReadSound, SameReader
    <3>2. u \notin Disturbs(t)
      BY <3>1 DEF Disturbs, Written, Writes, Writers
    <3>3. ~ Written(u)'
      BY <1>4, <3>1 DEF Written
    <3> QED
      BY <1>3, <3>1, <3>2, <3>3
  <2>6. ASSUME next.calm
        PROVE  /\ u \notin spoilt'.store
               /\ \A e \in Caller : Writes(e, u)' => calls'[e].kind = "put" /\ n <= calls'[e].checkpoint
    <3>1. /\ u \notin spoilt.store
          /\ \A e \in Caller : Writes(e, u) => calls[e].kind = "put" /\ n <= calls[e].checkpoint
          /\ n # 0 => n \in DOMAIN made
      BY <1>7, <2>1, <2>2, <2>3, <2>4, <2>6 DEF ReadSound, SameReader, SeenNear
    <3>2. u \notin Disturbs(t)
      <4> SUFFICES ASSUME u \in Disturbs(t) PROVE FALSE
        OBVIOUS
      <4>1. ~ (u = t /\ Written(t))
        BY <2>3, <2>6
      <4>2. PICK e \in Caller : calls[e].kind = "copy" /\ u = calls[e].thread
        BY <4>1 DEF Disturbs
      <4>3. Writes(e, u)
        BY <4>2 DEF Writes, Writers
      <4> QED
        BY <3>1, <4>2, <4>3
    <3>3. u \notin extra
      BY <2>2, <2>3, <2>6
    <3>4. ASSUME NEW e \in Caller, Writes(e, u)'
          PROVE  calls'[e].kind = "put" /\ n <= calls'[e].checkpoint
      <4>1. CASE e = c
        <5>1. u = t
          BY <1>4, <3>4, <4>1
        <5>2. call.kind = "put" /\ call.checkpoint \in Nat /\ \A i \in DOMAIN made : i <= call.checkpoint
          BY <2>2, <2>3, <2>6, <5>1
        <5> QED
          BY <1>1, <3>1, <4>1, <5>2
      <4>2. CASE e # c
        <5>1. Writes(e, u) /\ SameWork(calls'[e], calls[e])
          BY <1>4, <3>4, <4>2
        <5> QED
          BY <3>1, <5>1 DEF SameWork
      <4> QED
        BY <4>1, <4>2
    <3> QED
      BY <1>3, <3>1, <3>2, <3>3, <3>4
  <2>7. Keeps(u, next)
    BY <2>3, <2>4, <2>5, <2>6 DEF Keeps, SameReader
  <2> QED
    BY <2>1, <2>2, <2>3, <2>7, ReaderStays
<1>8. ASSUME NEW d \in Caller, d # c, calls[d].kind # "get_tuple" PROVE ReadSound(d)'
  BY <1>2, <1>8 DEF ReadSound
<1> QED
  BY <1>5, <1>6, <1>7, <1>8 DEF Readable

LEMMA PutReadable ==
    ASSUME IInv, Undisturbed, \A d \in Caller : Readable(d),
           NEW c \in Caller, NEW t \in Thread, Put(c, t)
    PROVE  \A d \in Caller : Readable(d)'
<1>1. PICK current : current = store.key[t][Id]
  OBVIOUS
<1>2. PICK call : call = [kind |-> "put", thread |-> t, checkpoint |-> Len(made) + 1,
                          current |-> current, alone |-> ~ Crosses(t), counted |-> FALSE,
                          todo |-> (IF current = 0 THEN <<>> ELSE <<Parent>>) \o <<Latest, Id, Meta>>]
  OBVIOUS
<1>3. PICK entry : entry = [thread |-> t, before |-> current, seen |-> store.writes[t]]
  OBVIOUS
<1>4. /\ calls[c] = Idle /\ Begin(c, call) /\ Spoil(Disturbs(t))
      /\ UNCHANGED store /\ made' = Append(made, entry)
  BY <1>1, <1>2, <1>3 DEF Put, Starts
<1>5. /\ call.kind = "put" /\ call.thread = t
      /\ call.checkpoint = Len(made) + 1 /\ call.current = current
  BY <1>2
<1>6. current \in Nat /\ Len(made) \in Nat /\ DOMAIN made = 1..Len(made) /\ MadeGrows
  <2>1. current \in Nat
    BY <1>1 DEF IInv, Typed, Map, Part
  <2>2. entry \in Made /\ made \in Seq(Made)
    BY <1>3, <2>1 DEF IInv, Typed, Made, Map
  <2> QED
    BY <1>4, <2>1, <2>2 DEF MadeGrows
<1>7. current < call.checkpoint /\ call.checkpoint \in Nat /\ \A i \in DOMAIN made : i <= call.checkpoint
  <2>1. current # 0 => current \in DOMAIN made
    BY <1>1 DEF IInv, Covered, KeysCovered, Covers, Part
  <2> QED
    BY <1>5, <1>6, <2>1
<1>8. calls'[c] = call
  <2>1. Crossed(call.kind, t) \in [Caller -> CallSet]
    BY CrossedTyped DEF IInv
  <2> QED
    BY <1>4, <1>5, <2>1 DEF Begin
<1>9. t \notin spoilt'.store => \A p \in {Latest, Id, Meta} : store.key[t][p] = current
  <2> SUFFICES ASSUME t \notin spoilt'.store PROVE \A p \in {Latest, Id, Meta} : store.key[t][p] = current
    OBVIOUS
  <2>1. t \notin spoilt.store /\ ~ Written(t)
    BY <1>4 DEF Spoil, Disturbs, Undisturbed
  <2>2. Whole(store.key[t])
    BY <2>1 DEF Undisturbed, TornOnlyWhenDisturbed
  <2> QED
    BY <1>1, <2>2 DEF Whole
<1>10. PutFresh(c)'
  BY <1>4, <1>5, <1>7, <1>8, <1>9 DEF PutFresh
<1>11. PICK extra \in {{}, {t}} : extra = {} /\ Spoil(Disturbs(t) \cup extra)
  <2>1. Disturbs(t) \cup {} = Disturbs(t)
    OBVIOUS
  <2> QED
    BY <1>4, <2>1
<1>12. call.kind \in Writers
  BY <1>5 DEF Writers
<1> QED
  BY <1>4, <1>5, <1>6, <1>7, <1>10, <1>11, <1>12, BeginReadable

LEMMA DeleteReadable ==
    ASSUME IInv, Undisturbed, \A d \in Caller : Readable(d),
           NEW c \in Caller, NEW t \in Thread, DeleteThread(c, t)
    PROVE  \A d \in Caller : Readable(d)'
<1>1. PICK call : call = [kind |-> "delete", thread |-> t, alone |-> ~ Crosses(t), todo |-> DeleteOrder]
  OBVIOUS
<1>2. /\ calls[c] = Idle /\ Begin(c, call) /\ Spoil(Disturbs(t)) /\ UNCHANGED <<store, made>>
  BY <1>1 DEF DeleteThread, Starts
<1>3. call.kind = "delete" /\ call.kind \in Writers /\ call.thread = t
  BY <1>1 DEF Writers
<1>4. calls'[c] = call
  <2>1. Crossed(call.kind, t) \in [Caller -> CallSet]
    BY CrossedTyped DEF IInv
  <2> QED
    BY <1>2, <1>3, <2>1 DEF Begin
<1>5. PutFresh(c)' /\ MadeGrows /\ UNCHANGED store
  BY <1>2, <1>3, <1>4 DEF PutFresh, MadeGrows
<1>6. PICK extra \in {{}, {t}} : Spoil(Disturbs(t) \cup extra)
  <2>1. Disturbs(t) \cup {} = Disturbs(t)
    OBVIOUS
  <2> QED
    BY <1>2, <2>1
<1> QED
  BY <1>2, <1>3, <1>5, <1>6, BeginReadable

LEMMA CopyThreadReadable ==
    ASSUME IInv, Undisturbed, \A d \in Caller : Readable(d),
           NEW c \in Caller, NEW source \in Thread, NEW t \in Thread, CopyThread(c, source, t)
    PROVE  \A d \in Caller : Readable(d)'
<1>1. PICK call : call = [kind |-> "copy", thread |-> t, source |-> source, held |-> 0,
                          alone |-> ~ Crosses(t), at |-> "get", todo |-> DeleteOrder]
  OBVIOUS
<1>2. PICK extra \in {{}, {t}} :
         extra = IF \/ store.key[t] # Absent
                    \/ source \in spoilt.store
                    \/ Written(source)
                 THEN {t} ELSE {}
  OBVIOUS
<1>3. /\ calls[c] = Idle /\ Begin(c, call) /\ Spoil(Disturbs(t) \cup extra) /\ UNCHANGED <<store, made>>
  BY <1>1, <1>2 DEF CopyThread, Starts
<1>4. call.kind = "copy" /\ call.kind \in Writers /\ call.thread = t
  BY <1>1 DEF Writers
<1>5. calls'[c] = call
  <2>1. Crossed(call.kind, t) \in [Caller -> CallSet]
    BY CrossedTyped DEF IInv
  <2> QED
    BY <1>3, <1>4, <2>1 DEF Begin
<1>6. PutFresh(c)' /\ MadeGrows /\ UNCHANGED store
  BY <1>3, <1>4, <1>5 DEF PutFresh, MadeGrows
<1> QED
  BY <1>3, <1>4, <1>6, BeginReadable

LEMMA PutGoesReadable ==
    ASSUME IInv, Undisturbed, \A d \in Caller : Readable(d),
           NEW c \in Caller, PutSet(c) \/ PutCount(c)
    PROVE  \A d \in Caller : Readable(d)'
<1>1. PICK call, t : call = calls[c] /\ t = call.thread
  OBVIOUS
<1>2. call \in PutCall /\ t \in Thread
  BY <1>1, Kinds DEF IInv, Typed, PutSet, PutCount, PutCall
<1>3. UNCHANGED <<made, spoilt>>
  BY DEF PutSet, PutCount
<1>4. PICK next : /\ calls' = [calls EXCEPT ![c] = next]
                  /\ next \in {[call EXCEPT !.todo = Tail(@)], [call EXCEPT !.counted = TRUE]}
  <2>1. CASE PutSet(c)
    <3>1. calls' = [calls EXCEPT ![c].todo = Tail(@)]
      BY <2>1 DEF PutSet, Rest
    <3> QED
      BY <1>1, <3>1 DEF IInv, Typed
  <2>2. CASE PutCount(c)
    BY <1>1, <2>2 DEF PutCount, IInv, Typed
  <2> QED
    BY <2>1, <2>2
<1>5. /\ next.kind = "put" /\ next.thread = t /\ next # Idle
      /\ next.checkpoint = call.checkpoint /\ next.current = call.current
  BY <1>1, <1>2, <1>4 DEF PutCall, Idle
<1>6. /\ OthersKept(t)
      /\ \A p \in {Latest, Id, Meta} : store'.key[t][p] \in {store.key[t][p], call.checkpoint}
  <2>1. CASE UNCHANGED store
    BY <2>1 DEF OthersKept
  <2>2. CASE PutSet(c)
    <3>1. PICK p, value : /\ p = Head(call.todo)
                          /\ value = IF p = Parent THEN call.current ELSE call.checkpoint
      OBVIOUS
    <3>2. store' = [store EXCEPT !.key[t][p] = value]
      BY <1>1, <2>2, <3>1 DEF PutSet, Set
    <3>3. \A q \in {Latest, Id, Meta} : q \in Part /\ q # Parent
      BY Parts DEF Core
    <3>4. ASSUME NEW q \in {Latest, Id, Meta} PROVE store'.key[t][q] = IF q = p THEN value ELSE store.key[t][q]
      BY <1>2, <3>2, <3>3 DEF IInv, Typed, Map
    <3>5. OthersKept(t)
      BY <3>2 DEF OthersKept, IInv, Typed, Map
    <3> QED
      BY <3>1, <3>3, <3>4, <3>5
  <2> QED
    BY <2>1, <2>2 DEF PutCount
<1>7. PutFresh(c)'
  <2>1. calls'[c] = next
    BY <1>4 DEF IInv, Typed
  <2>2. PutFresh(c)
    BY DEF Readable
  <2>3. /\ call.current < call.checkpoint
        /\ t \notin spoilt.store =>
             \A p \in {Latest, Id, Meta} : store.key[t][p] \in {call.current, call.checkpoint}
    BY <1>1, <1>2, <2>2 DEF PutFresh, PutCall
  <2> QED
    BY <1>3, <1>5, <1>6, <2>1, <2>3 DEF PutFresh
<1>8. /\ calls[c].kind \in Writers /\ t = calls[c].thread /\ next.kind = calls[c].kind
      /\ next.checkpoint = calls[c].checkpoint
      /\ \A p \in {Id, Meta} : store'.key[t][p] \in {store.key[t][p], calls[c].checkpoint}
  BY <1>1, <1>2, <1>5, <1>6 DEF PutCall, Writers
<1>9. UNCHANGED made /\ spoilt' = spoilt
  BY <1>3
<1> QED
  BY <1>2, <1>4, <1>5, <1>6, <1>7, <1>8, <1>9, WriterReadable

LEMMA PutHistoryReadable ==
    ASSUME IInv, Undisturbed, \A d \in Caller : Readable(d),
           NEW c \in Caller, PutHistory(c) \/ HistoryDropped(c)
    PROVE  \A d \in Caller : Readable(d)'
<1>1. PICK call, t : call = calls[c] /\ t = call.thread
  OBVIOUS
<1>2. call \in PutCall /\ t \in Thread
  BY <1>1, Kinds DEF IInv, Typed, PutHistory, HistoryDropped, PutEnds, PutCall
<1>3. PICK slot : slot = NextSlot
  OBVIOUS
<1>4. /\ calls' = [calls EXCEPT ![c] = Idle]
      /\ store' = store \/ store' = [store EXCEPT !.key[t][slot] = Entry(call)]
      /\ spoilt' = [spoilt EXCEPT !.store = IF Repairs(call) THEN @ \ {t} ELSE @]
      /\ UNCHANGED made
  BY <1>1, <1>3 DEF PutHistory, HistoryDropped, PutEnds, Set
<1>5. OthersKept(t) /\ \A p \in {Id, Meta} : store'.key[t][p] = store.key[t][p]
  <2>1. slot \notin Core /\ Id \in Core /\ Meta \in Core
    BY <1>3, Parts DEF Core, NextSlot
  <2>2. CASE store' = store
    BY <2>2 DEF OthersKept
  <2>3. CASE store' = [store EXCEPT !.key[t][slot] = Entry(call)]
    BY <1>2, <2>1, <2>3, Parts DEF OthersKept, IInv, Typed, Map
  <2> QED
    BY <1>4, <2>2, <2>3
<1>6. \/ spoilt' = spoilt
      \/ calls[c].alone /\ spoilt' = [spoilt EXCEPT !.store = @ \ {t}]
  <2>1. CASE Repairs(call)
    BY <1>1, <1>4, <2>1 DEF Repairs
  <2>2. CASE ~ Repairs(call)
    BY <1>4, <2>2 DEF Undisturbed
  <2> QED
    BY <2>1, <2>2
<1>7. PICK next : next = Idle
  OBVIOUS
<1>8. calls' = [calls EXCEPT ![c] = next] /\ UNCHANGED made
  BY <1>4, <1>7
<1>9. PutFresh(c)'
  BY <1>4 DEF PutFresh, IInv, Typed, Idle
<1>10. calls[c].kind \in Writers /\ t = calls[c].thread
  BY <1>1, <1>2 DEF PutCall, Writers
<1>11. \A p \in {Id, Meta} : store'.key[t][p] \in {store.key[t][p], calls[c].checkpoint}
  BY <1>5
<1> QED
  BY <1>2, <1>5, <1>6, <1>7, <1>8, <1>9, <1>10, <1>11, WriterReadable

LEMMA RemoveReadable ==
    ASSUME IInv, Undisturbed, \A d \in Caller : Readable(d), NEW c \in Caller, RemoveKey(c)
    PROVE  \A d \in Caller : Readable(d)'
<1>1. PICK call, t, p : call = calls[c] /\ t = call.thread /\ p = Head(call.todo)
  OBVIOUS
<1>2. call \in DeleteCall \cup PruneCall /\ t \in Thread
  BY <1>1, Kinds DEF IInv, Typed, RemoveKey, DeleteCall, PruneCall
<1>3. p \in Part /\ p \in Left(call.todo)
  <2>1. call.todo \in Seq(Part) /\ call.todo # <<>>
    BY <1>2 DEF DeleteCall, PruneCall
  <2> QED
    BY <1>1, <2>1, LeftOver
<1>4. store' = [store EXCEPT !.key[t][p] = 0] /\ made' = made
  BY <1>1 DEF RemoveKey, Set
<1>5. PICK next : next = IF Len(call.todo) = 1 THEN Idle ELSE [call EXCEPT !.todo = Tail(@)]
  OBVIOUS
<1>6. calls' = [calls EXCEPT ![c] = next]
  <2>1. CASE Len(call.todo) = 1
    BY <1>1, <1>5, <2>1 DEF RemoveKey
  <2>2. CASE Len(call.todo) # 1
    <3>1. calls' = Rest(c)
      BY <1>1, <2>2 DEF RemoveKey
    <3> QED
      BY <1>1, <1>5, <2>2, <3>1 DEF Rest, IInv, Typed
  <2> QED
    BY <2>1, <2>2
<1>7. CASE call \in DeleteCall
  <2>1. /\ calls[c].kind = "delete" /\ calls[c].kind \in Writers /\ t = calls[c].thread
        /\ next = Idle \/ (next.kind = calls[c].kind /\ next.thread = t)
    BY <1>1, <1>5, <1>7 DEF DeleteCall, Writers
  <2>2. OthersKept(t)
    BY <1>4 DEF OthersKept, IInv, Typed, Map
  <2>3. \/ spoilt' = spoilt
        \/ calls[c].alone /\ spoilt' = [spoilt EXCEPT !.store = @ \ {t}]
    <3>1. CASE Len(call.todo) = 1 /\ call.alone
      BY <1>1, <1>7, <3>1 DEF RemoveKey, DeleteCall
    <3>2. CASE ~ (Len(call.todo) = 1 /\ call.alone)
      BY <1>1, <3>2 DEF RemoveKey, Undisturbed
    <3> QED
      BY <3>1, <3>2
  <2>4. PutFresh(c)'
    <3>1. calls'[c] = next
      BY <1>6 DEF IInv, Typed
    <3> QED
      BY <2>1, <3>1 DEF PutFresh, Idle
  <2>5. calls[c].kind # "put" /\ UNCHANGED made
    BY <1>4, <2>1
  <2> QED
    BY <1>2, <1>6, <2>1, <2>2, <2>3, <2>4, <2>5, WriterReadable
<1>8. CASE call \in PruneCall
  <2>1. calls[c].kind = "prune" /\ calls[c].kind \notin Writers
    BY <1>1, <1>8 DEF PruneCall, Writers
  <2>2. next.kind \notin Writers \cup {"get_tuple"}
    BY <1>5, <1>8 DEF PruneCall, Writers, Idle
  <2>3. p \notin Core
    BY <1>1, <1>3, <2>1 DEF Undisturbed, CallSound, PruneSound
  <2>4. \A u \in Thread, q \in Core : store'.key[u][q] = store.key[u][q]
    BY <1>2, <1>4, <2>3, Parts DEF IInv, Typed, Map
  <2>5. UNCHANGED <<made, spoilt>>
    BY <1>1, <1>4, <2>1 DEF RemoveKey, Undisturbed
  <2>6. ReadSound(c)'
    <3>1. calls'[c] = next
      BY <1>6 DEF IInv, Typed
    <3> QED
      BY <2>2, <3>1 DEF ReadSound
  <2>7. next.kind \notin Writers
    BY <2>2
  <2> QED
    BY <1>6, <2>1, <2>4, <2>5, <2>6, <2>7, OtherReadable
<1> QED
  BY <1>2, <1>7, <1>8

LEMMA CopyReadable ==
    ASSUME IInv, Undisturbed, \A d \in Caller : Readable(d),
           NEW c \in Caller, CopyGet(c) \/ CopySet(c)
    PROVE  \A d \in Caller : Readable(d)'
<1>1. PICK call, t : call = calls[c] /\ t = call.thread
  OBVIOUS
<1>2. call \in CopyCall /\ t \in Thread
  BY <1>1, Kinds DEF IInv, Typed, CopyGet, CopySet, CopyCall
<1>3. calls[c].kind = "copy" /\ calls[c].kind \in Writers /\ t = calls[c].thread
  BY <1>1, <1>2 DEF CopyCall, Writers
<1>4. spoilt' = spoilt /\ UNCHANGED made
  BY DEF CopyGet, CopySet
<1>5. OthersKept(t)
  <2>1. CASE UNCHANGED store
    BY <2>1 DEF OthersKept
  <2>2. CASE CopySet(c)
    BY <1>1, <2>2 DEF CopySet, Set, OthersKept, IInv, Typed, Map
  <2> QED
    BY <2>1, <2>2 DEF CopyGet
<1>6. PICK next : /\ calls' = [calls EXCEPT ![c] = next]
                  /\ next \in {Idle,
                               [call EXCEPT !.held = store.key[call.source][Head(call.todo)], !.at = "set"],
                               [call EXCEPT !.todo = Tail(@)],
                               [call EXCEPT !.at = "get", !.held = 0, !.todo = Tail(@)]}
  <2>1. PICK value : value = store.key[call.source][Head(call.todo)]
    OBVIOUS
  <2>2. CASE CopyGet(c)
    <3>1. \/ calls' = [calls EXCEPT ![c] = Idle]
          \/ calls' = [calls EXCEPT ![c].held = value, ![c].at = "set"]
          \/ calls' = [calls EXCEPT ![c].todo = Tail(@)]
      BY <1>1, <2>1, <2>2 DEF CopyGet, Rest
    <3>2. calls \in [Caller -> CallSet]
      BY DEF IInv, Typed
    <3>3. CASE calls' = [calls EXCEPT ![c] = Idle]
      BY <3>3
    <3>4. CASE calls' = [calls EXCEPT ![c].held = value, ![c].at = "set"]
      <4>1. calls' = [calls EXCEPT ![c] = [call EXCEPT !.held = value, !.at = "set"]]
        BY <1>1, <3>2, <3>4
      <4> QED
        BY <2>1, <4>1
    <3>5. CASE calls' = [calls EXCEPT ![c].todo = Tail(@)]
      <4>1. calls' = [calls EXCEPT ![c] = [call EXCEPT !.todo = Tail(@)]]
        BY <1>1, <3>2, <3>5
      <4> QED
        BY <4>1
    <3> QED
      BY <3>1, <3>3, <3>4, <3>5
  <2>3. CASE CopySet(c)
    <3>1. \/ calls' = [calls EXCEPT ![c] = Idle]
          \/ calls' = [calls EXCEPT ![c].at = "get", ![c].held = 0, ![c].todo = Tail(@)]
      BY <1>1, <2>3 DEF CopySet, Onward
    <3> QED
      BY <1>1, <3>1 DEF IInv, Typed
  <2> QED
    BY <2>2, <2>3
<1>7. next = Idle \/ (next.kind = calls[c].kind /\ next.thread = t)
  BY <1>1, <1>2, <1>6 DEF CopyCall
<1>8. PutFresh(c)'
  <2>1. calls'[c] = next
    BY <1>6 DEF IInv, Typed
  <2> QED
    BY <1>3, <1>7, <2>1 DEF PutFresh, Idle
<1>9. calls[c].kind # "put"
  BY <1>3
<1> QED
  BY <1>2, <1>3, <1>4, <1>5, <1>6, <1>7, <1>8, <1>9, WriterReadable

(* A writer c of t loses a key: no reader there counts any more.           *)
LEMMA LossReadable ==
    ASSUME IInv, \A d \in Caller : Readable(d), NEW c \in Caller, calls[c].kind \in Writers,
           NEW t \in Thread, t = calls[c].thread,
           \/ calls'[c].kind \notin Writers \cup {"get_tuple"}
           \/ calls'[c].kind = calls[c].kind /\ calls'[c].thread = t,
           calls'[c].kind = "put" => /\ calls'[c].checkpoint = calls[c].checkpoint
                                     /\ calls'[c].current = calls[c].current,
           \A d \in Caller : d # c =>
              \/ calls'[d] = calls[d] /\ ~ (calls[d].kind = "get_tuple" /\ calls[d].thread = t)
              \/ SameReader(calls'[d], calls[d]) /\ calls[d].thread = t /\ ~ calls'[d].calm,
           UNCHANGED <<store, made>>, spoilt'.store = spoilt.store \cup {t}
    PROVE  \A d \in Caller : Readable(d)'
<1>1. Writes(c, t)
  BY DEF Writes
<1>2. ASSUME NEW u, u # t, NEW e \in Caller
      PROVE  /\ Writes(e, u)' <=> Writes(e, u)
             /\ Writes(e, u) => calls'[e] = calls[e]
  BY <1>2 DEF Writes, Writers, SameReader
<1>3. ASSUME NEW d \in Caller PROVE PutFresh(d)'
  <2> SUFFICES ASSUME calls'[d].kind = "put" PROVE PutFresh(d)'
    BY DEF PutFresh
  <2>1. PutFresh(d)
    BY DEF Readable
  <2>2. /\ calls[d].kind = "put" /\ calls'[d].thread = calls[d].thread
        /\ calls'[d].checkpoint = calls[d].checkpoint /\ calls'[d].current = calls[d].current
    BY DEF SameReader, Writers
  <2> QED
    BY <2>1, <2>2 DEF PutFresh
<1>4. ASSUME NEW d \in Caller, calls'[d].kind = "get_tuple" PROVE ReadSound(d)'
  <2>1. d # c /\ calls[d].kind = "get_tuple" /\ ReadSound(d)
    BY <1>4 DEF Readable, SameReader, Writers
  <2>2. PICK call, next, u : call = calls[d] /\ next = calls'[d] /\ u = call.thread
    OBVIOUS
  <2>3. SameReader(next, call)
    BY <2>1, <2>2 DEF SameReader
  <2>4. Keeps(u, next)
    <3>1. CASE u = t
      <4>1. ~ call.alone
        BY <1>1, <2>1, <2>2, <3>1 DEF ReadSound, Written
      <4>2. ~ next.calm
        BY <2>1, <2>2, <3>1
      <4> QED
        BY <2>3, <4>1, <4>2 DEF Keeps, SameReader
    <3>2. CASE u # t
      <4>1. next = call
        BY <2>1, <2>2, <3>2
      <4>2. call.alone => u \notin spoilt'.store /\ ~ Written(u)'
        BY <1>2, <2>1, <2>2, <3>2 DEF ReadSound, Written
      <4>3. call.calm => /\ u \notin spoilt'.store
                         /\ \A e \in Caller : Writes(e, u)' => /\ calls'[e].kind = "put"
                                                               /\ call.got[Latest] <= calls'[e].checkpoint
        BY <1>2, <2>1, <2>2, <3>2 DEF ReadSound
      <4> QED
        BY <4>1, <4>2, <4>3 DEF Keeps
    <3> QED
      BY <3>1, <3>2
  <2>5. MadeGrows
    BY DEF MadeGrows
  <2> QED
    BY <2>1, <2>2, <2>3, <2>4, <2>5, ReaderStays
<1>5. ASSUME NEW d \in Caller, calls'[d].kind # "get_tuple" PROVE ReadSound(d)'
  BY <1>5 DEF ReadSound
<1> QED
  BY <1>3, <1>4, <1>5 DEF Readable

LEMMA PutDroppedReadable ==
    ASSUME IInv, Undisturbed, \A d \in Caller : Readable(d), NEW c \in Caller, PutDropped(c)
    PROVE  \A d \in Caller : Readable(d)'
<1>1. PICK t : t = calls[c].thread
  OBVIOUS
<1>2. calls[c].kind = "put" /\ calls[c].todo # <<>> /\ calls' = Short(c)
  BY DEF PutDropped
<1>3. calls[c].kind \in Writers /\ t \in Thread
  BY <1>1, <1>2, Kinds DEF IInv, Typed, Writers, PutCall
<1>4. /\ calls'[c].kind = calls[c].kind /\ calls'[c].thread = t
      /\ calls'[c].checkpoint = calls[c].checkpoint /\ calls'[c].current = calls[c].current
  BY <1>1, <1>2, ShortCalls DEF PutCall
<1>5. ASSUME NEW d \in Caller, d # c
      PROVE  \/ calls'[d] = calls[d] /\ ~ (calls[d].kind = "get_tuple" /\ calls[d].thread = t)
             \/ SameReader(calls'[d], calls[d]) /\ calls[d].thread = t /\ ~ calls'[d].calm
  <2>1. CASE calls[d].kind = "get_tuple" /\ calls[d].thread = t
    <3>1. PICK call \in ReadCall : call = calls[d]
      BY <1>1, <1>2, <1>5, <2>1, ShortOther
    <3>2. calls'[d] = [call EXCEPT !.calm = FALSE]
      BY <1>1, <1>2, <1>5, <2>1, <3>1, ShortOther
    <3>3. /\ calls'[d].kind = call.kind /\ calls'[d].thread = call.thread
          /\ calls'[d].got = call.got /\ calls'[d].todo = call.todo
          /\ calls'[d].alone = call.alone /\ ~ calls'[d].calm
      BY <3>1, <3>2 DEF ReadCall
    <3> QED
      BY <2>1, <3>1, <3>3 DEF SameReader
  <2>2. CASE ~ (calls[d].kind = "get_tuple" /\ calls[d].thread = t)
    BY <1>1, <1>2, <1>5, <2>2, ShortOther
  <2> QED
    BY <2>1, <2>2
<1>6. UNCHANGED <<store, made>> /\ spoilt'.store = spoilt.store \cup {t}
  BY <1>1 DEF PutDropped, Spoil, Undisturbed
<1> QED
  BY <1>1, <1>3, <1>4, <1>5, <1>6, LossReadable

LEMMA CopyDroppedReadable ==
    ASSUME IInv, Undisturbed, \A d \in Caller : Readable(d), NEW c \in Caller, CopyDropped(c)
    PROVE  \A d \in Caller : Readable(d)'
<1>1. PICK call, t : call = calls[c] /\ t = call.thread
  OBVIOUS
<1>2. call \in CopyCall /\ t \in Thread /\ calls' = Onward(c)
  BY <1>1, Kinds DEF IInv, Typed, CopyDropped, CopyCall
<1>3. PICK next : /\ calls' = [calls EXCEPT ![c] = next]
                  /\ next = Idle \/ (next.kind = call.kind /\ next.thread = t)
  <2>1. CASE Len(call.todo) = 1
    BY <1>1, <1>2, <2>1 DEF Onward
  <2>2. CASE Len(call.todo) # 1
    <3>1. calls' = [calls EXCEPT ![c].at = "get", ![c].held = 0, ![c].todo = Tail(@)]
      BY <1>1, <1>2, <2>2 DEF Onward
    <3>2. PICK next : next = [call EXCEPT !.at = "get", !.held = 0, !.todo = Tail(@)]
      OBVIOUS
    <3>3. calls' = [calls EXCEPT ![c] = next]
      BY <1>1, <3>1, <3>2 DEF IInv, Typed
    <3>4. next.kind = call.kind /\ next.thread = t
      BY <1>1, <1>2, <3>2 DEF CopyCall
    <3> QED
      BY <3>3, <3>4
  <2> QED
    BY <2>1, <2>2
<1>4. calls'[c] = next /\ \A d \in Caller : d # c => calls'[d] = calls[d]
  BY <1>3 DEF IInv, Typed
<1>5. /\ calls[c].kind = "copy" /\ calls[c].kind \in Writers /\ t = calls[c].thread
      /\ calls'[c].kind # "put"
  BY <1>1, <1>2, <1>3, <1>4 DEF CopyCall, Writers, Idle
<1>6. UNCHANGED <<store, made>>
  BY DEF CopyDropped
<1>7. CASE Head(call.todo) \in Slots
  <2>1. spoilt' = spoilt
    BY <1>1, <1>7 DEF CopyDropped, Spoil, Undisturbed
  <2>2. OthersKept(t) /\ PutFresh(c)'
    BY <1>5, <1>6 DEF OthersKept, PutFresh
  <2>3. next = Idle \/ (next.kind = calls[c].kind /\ next.thread = t)
    BY <1>1, <1>3
  <2>4. calls[c].kind # "put"
    BY <1>5
  <2> QED
    BY <1>2, <1>3, <1>5, <1>6, <2>1, <2>2, <2>3, <2>4, WriterReadable
<1>8. CASE Head(call.todo) \notin Slots
  <2>1. spoilt'.store = spoilt.store \cup {t}
    BY <1>1, <1>8 DEF CopyDropped, Spoil, Undisturbed
  <2>2. Writes(c, t)
    BY <1>5 DEF Writes
  <2>3. ASSUME NEW d \in Caller, d # c
        PROVE  \/ calls'[d] = calls[d] /\ ~ (calls[d].kind = "get_tuple" /\ calls[d].thread = t)
               \/ SameReader(calls'[d], calls[d]) /\ calls[d].thread = t /\ ~ calls'[d].calm
    <3>1. CASE calls[d].kind = "get_tuple" /\ calls[d].thread = t
      <4>1. ~ calls[d].calm
        BY <1>5, <2>2, <3>1 DEF Readable, ReadSound
      <4> QED
        BY <1>4, <2>3, <3>1, <4>1 DEF SameReader
    <3>2. CASE ~ (calls[d].kind = "get_tuple" /\ calls[d].thread = t)
      BY <1>4, <2>3, <3>2
    <3> QED
      BY <3>1, <3>2
  <2>4. \/ calls'[c].kind \notin Writers \cup {"get_tuple"}
        \/ calls'[c].kind = calls[c].kind /\ calls'[c].thread = t
    BY <1>1, <1>3, <1>4 DEF Idle, Writers
  <2> QED
    BY <1>2, <1>5, <1>6, <2>1, <2>3, <2>4, LossReadable
<1> QED
  BY <1>7, <1>8

LEMMA PruneReadable ==
    ASSUME IInv, \A d \in Caller : Readable(d), NEW c \in Caller, NEW t \in Thread, Prune(c, t)
    PROVE  \A d \in Caller : Readable(d)'
<1>1. PICK next : next = [kind |-> "prune", thread |-> t, todo |-> SlotsInOrder]
  OBVIOUS
<1>2. /\ calls[c] = Idle /\ calls' = [calls EXCEPT ![c] = next] /\ UNCHANGED <<store, made, spoilt>>
  BY <1>1 DEF Prune, Starts
<1>3. calls[c].kind \notin Writers /\ next.kind \notin Writers /\ next.kind # "get_tuple"
  BY <1>1, <1>2 DEF Idle, Writers
<1>4. ReadSound(c)'
  BY <1>2, <1>3 DEF ReadSound, IInv, Typed
<1>5. UNCHANGED <<made, spoilt>> /\ \A u \in Thread, q \in Core : store'.key[u][q] = store.key[u][q]
  BY <1>2
<1> QED
  BY <1>2, <1>3, <1>4, <1>5, OtherReadable

LEMMA GetTupleReadable ==
    ASSUME IInv, \A d \in Caller : Readable(d), NEW c \in Caller, NEW t \in Thread, GetTuple(c, t)
    PROVE  \A d \in Caller : Readable(d)'
<1>1. PICK next :
         next = [kind |-> "get_tuple", thread |-> t, got |-> Absent, todo |-> ReadOrder,
                 alone |-> t \notin spoilt.store /\ ~ Written(t),
                 calm |-> /\ t \notin spoilt.store
                          /\ \A d \in Caller : Writes(d, t) => calls[d].kind = "put"]
  OBVIOUS
<1>2. /\ calls[c] = Idle /\ calls' = [calls EXCEPT ![c] = next] /\ UNCHANGED <<store, made, spoilt>>
  BY <1>1 DEF GetTuple, Starts
<1>3. /\ next.kind = "get_tuple" /\ next.thread = t
      /\ next.got = Absent /\ next.todo = ReadOrder
      /\ next.alone => t \notin spoilt.store /\ ~ Written(t)
      /\ next.calm => /\ t \notin spoilt.store
                      /\ \A d \in Caller : Writes(d, t) => calls[d].kind = "put"
  BY <1>1
<1>4. calls[c].kind \notin Writers /\ next.kind \notin Writers
  BY <1>2, <1>3 DEF Idle, Writers
<1>5. calls'[c] = next /\ \A d \in Caller : d # c => calls'[d] = calls[d]
  BY <1>2 DEF IInv, Typed
<1>6. ASSUME NEW d \in Caller, Writes(d, t)' PROVE Writes(d, t) /\ calls'[d] = calls[d]
  BY <1>4, <1>5, <1>6 DEF Writes
<1>7. next.got[Latest] = 0
  BY <1>3 DEF Absent, Part
<1>8. ReadSound(c)'
  <2>1. next.alone => ~ Written(t)'
    BY <1>3, <1>6 DEF Written
  <2>2. ASSUME next.calm, NEW d \in Caller, Writes(d, t)'
        PROVE  calls'[d].kind = "put" /\ 0 <= calls'[d].checkpoint
    <3>1. calls'[d] = calls[d] /\ calls[d].kind = "put"
      BY <1>3, <1>6, <2>2
    <3> QED
      BY <3>1, Kinds DEF IInv, Typed, PutCall
  <2>3. next.calm => \A d \in Caller : Writes(d, t)' => calls'[d].kind = "put" /\ 0 <= calls'[d].checkpoint
    BY <2>2
  <2> QED
    BY <1>2, <1>3, <1>5, <1>7, <2>1, <2>3 DEF ReadSound
<1>9. UNCHANGED <<made, spoilt>> /\ \A u \in Thread, q \in Core : store'.key[u][q] = store.key[u][q]
  BY <1>2
<1> QED
  BY <1>2, <1>4, <1>8, <1>9, OtherReadable

(* Where only puts are at work and one after the other, the checkpoint     *)
(* that is there now is none that a put has still to set, and what comes   *)
(* with it is near.                                                        *)
LEMMA CalmKeys ==
    ASSUME IInv, Undisturbed, \A d \in Caller : Readable(d), NEW t \in Thread, t \notin spoilt.store,
           \A d \in Caller : Writes(d, t) => calls[d].kind = "put",
           NEW n, n = store.key[t][Latest], n # 0
    PROVE  /\ n \in DOMAIN made
           /\ \A d \in Caller : Writes(d, t) => n <= calls[d].checkpoint
           /\ \A p \in {Id, Meta} : Near(made, n, store.key[t][p])
<1>1. n \in DOMAIN made
  BY DEF IInv, Covered, KeysCovered, Covers, Part
<1>2. n \in Nat /\ \A p \in {Id, Meta} : store.key[t][p] \in Nat
  BY DEF IInv, Typed, Map, Part
<1>3. ASSUME NEW d \in Caller, Writes(d, t)
      PROVE  /\ n <= calls[d].checkpoint
             /\ \A p \in {Id, Meta} : Near(made, n, store.key[t][p])
  <2>1. calls[d].kind = "put" /\ calls[d].thread = t
    BY <1>3 DEF Writes
  <2>2. PICK current, checkpoint : current = calls[d].current /\ checkpoint = calls[d].checkpoint
    OBVIOUS
  <2>3. current \in Nat /\ checkpoint \in Nat
    BY <2>1, <2>2, Kinds DEF IInv, Typed, PutCall
  <2>4. PutFresh(d) /\ PutSound(d)
    BY DEF Readable, Undisturbed, CallSound
  <2>5. /\ current < checkpoint
        /\ \A p \in {Latest, Id, Meta} : store.key[t][p] \in {current, checkpoint}
    BY <2>1, <2>2, <2>4 DEF PutFresh
  <2>6. made[checkpoint].before = current
    BY <2>1, <2>2, <2>4 DEF PutSound
  <2> QED
    BY <2>2, <2>3, <2>5, <2>6 DEF Near
<1>4. CASE Written(t)
  BY <1>1, <1>3, <1>4 DEF Written
<1>5. CASE ~ Written(t)
  <2>1. Whole(store.key[t])
    BY <1>5 DEF Undisturbed, TornOnlyWhenDisturbed
  <2>2. \A p \in {Id, Meta} : store.key[t][p] = n
    BY <2>1 DEF Whole
  <2> QED
    BY <1>1, <1>2, <1>5, <2>2 DEF Written, Near
<1> QED
  BY <1>4, <1>5

LEMMA ReadReadable ==
    ASSUME IInv, Undisturbed, \A d \in Caller : Readable(d), NEW c \in Caller, Read(c)
    PROVE  \A d \in Caller : Readable(d)'
<1>1. calls[c].kind = "get_tuple" /\ calls[c].todo # <<>> /\ UNCHANGED <<store, made, spoilt>>
  BY DEF Read
<1>2. PICK call, t, key, p, value, todo :
         /\ call = calls[c] /\ t = call.thread /\ key = store.key[t]
         /\ p = Head(call.todo) /\ value = key[p]
         /\ todo = IF p = Latest /\ value = 0 THEN <<>> ELSE Tail(call.todo)
  OBVIOUS
<1>3. call \in ReadCall /\ t \in Thread /\ call.todo \in Seq(Part) /\ call.todo # <<>>
  BY <1>1, <1>2, Kinds DEF IInv, Typed, ReadCall
<1>4. PICK next : next = [call EXCEPT !.got[p] = value, !.todo = todo]
  OBVIOUS
<1>5. calls' = [calls EXCEPT ![c] = next]
  <2>1. calls' = [calls EXCEPT ![c].got[p] = value,
                               ![c].todo = IF p = Latest /\ value = 0 THEN <<>> ELSE Tail(@)]
    BY <1>2 DEF Read
  <2> QED
    BY <1>2, <1>4, <2>1 DEF IInv, Typed
<1>6. p \in Part /\ Left(call.todo) = {p} \cup Left(Tail(call.todo))
  BY <1>2, <1>3, LeftOver
<1>7. /\ next.kind = "get_tuple" /\ next.thread = t /\ next.todo = todo
      /\ next.alone = call.alone /\ next.calm = call.calm
      /\ next.got[p] = value
      /\ \A q \in Part : q # p => next.got[q] = call.got[q]
  BY <1>2, <1>3, <1>4, <1>6 DEF ReadCall
<1>8. calls'[c] = next /\ \A d \in Caller : d # c => calls'[d] = calls[d]
  BY <1>5 DEF IInv, Typed
<1>9. calls[c].kind \notin Writers /\ next.kind \notin Writers
  BY <1>1, <1>7 DEF Writers
<1>10. ASSUME NEW d \in Caller, Writes(d, t)' PROVE Writes(d, t) /\ calls'[d] = calls[d]
  BY <1>8, <1>9, <1>10 DEF Writes
<1>11. PICK n, m : n = call.got[Latest] /\ m = next.got[Latest]
  OBVIOUS
<1>12. /\ IF n = 0 THEN call.todo \in {<<>>, ReadOrder} ELSE Latest \notin Left(call.todo)
       /\ call.alone => /\ t \notin spoilt.store /\ ~ Written(t)
                        /\ n # 0 => SeenWhole(call, key)
       /\ call.calm => /\ t \notin spoilt.store
                       /\ \A d \in Caller : Writes(d, t) => calls[d].kind = "put" /\ n <= calls[d].checkpoint
                       /\ n # 0 => SeenNear(made, call, key)
  <2>1. ReadSound(c)
    BY DEF Readable
  <2> QED
    BY <1>1, <1>2, <1>11, <2>1 DEF ReadSound
<1>13. /\ IF m = 0 THEN todo \in {<<>>, ReadOrder} ELSE Latest \notin Left(todo)
       /\ call.alone /\ m # 0 => SeenWhole(next, key)
       /\ call.calm => \A d \in Caller : Writes(d, t) => m <= calls[d].checkpoint
       /\ call.calm /\ m # 0 => SeenNear(made, next, key)
  <2>1. CASE n = 0
    <3>1. call.todo = ReadOrder /\ p = Latest
      BY <1>2, <1>3, <1>12, <2>1, ReadOrderParts
    <3>2. m = value /\ value = key[Latest]
      BY <1>2, <1>7, <1>11, <3>1
    <3>3. CASE value = 0
      BY <1>2, <1>12, <2>1, <3>1, <3>2, <3>3
    <3>4. CASE value # 0
      <4>1. /\ todo = Tail(ReadOrder) /\ Latest \notin Left(todo)
            /\ \A q \in Core : q = Latest \/ q \in Left(todo)
        BY <1>2, <1>6, <3>1, <3>4, ReadOrderParts
      <4>2. SeenWhole(next, key)
        BY <1>7, <1>11, <3>2, <4>1 DEF SeenWhole
      <4>3. ASSUME call.calm
            PROVE  /\ \A d \in Caller : Writes(d, t) => m <= calls[d].checkpoint
                   /\ SeenNear(made, next, key)
        <5>1. /\ m \in DOMAIN made
              /\ \A d \in Caller : Writes(d, t) => m <= calls[d].checkpoint
              /\ \A q \in {Id, Meta} : Near(made, m, key[q])
          BY <1>2, <1>3, <1>12, <3>2, <3>4, <4>3, CalmKeys
        <5>2. ASSUME NEW q \in {Id, Meta} PROVE Now(next, key, q) = key[q]
          BY <1>7, <4>1 DEF Now, Core, Latest, Id, Meta
        <5> QED
          BY <1>11, <5>1, <5>2 DEF SeenNear
      <4> QED
        BY <3>2, <3>4, <4>1, <4>2, <4>3
    <3> QED
      BY <3>3, <3>4
  <2>2. CASE n # 0
    <3>1. p # Latest /\ Latest \notin Left(Tail(call.todo))
      BY <1>6, <1>12, <2>2
    <3>2. todo = Tail(call.todo) /\ m = n
      BY <1>2, <1>7, <1>11, <3>1 DEF Part
    <3>3. ASSUME call.alone PROVE SeenWhole(next, key)
      <4>1. SeenWhole(call, key)
        BY <1>12, <2>2, <3>3
      <4>2. ASSUME NEW q \in Core PROVE q \in Left(todo) \/ next.got[q] = key[q]
        BY <1>2, <1>6, <1>7, <3>2, <4>1, Parts DEF SeenWhole
      <4> QED
        BY <1>7, <4>2 DEF SeenWhole
    <3>4. ASSUME call.calm PROVE SeenNear(made, next, key)
      <4>1. SeenNear(made, call, key)
        BY <1>12, <2>2, <3>4
      <4>2. ASSUME NEW q \in {Id, Meta} PROVE Now(next, key, q) = Now(call, key, q)
        <5>1. q \in Part
          BY DEF Part
        <5> QED
          BY <1>2, <1>6, <1>7, <3>2, <5>1 DEF Now
      <4> QED
        BY <1>11, <3>2, <4>1, <4>2 DEF SeenNear
    <3> QED
      BY <1>12, <2>2, <3>1, <3>2, <3>3, <3>4
  <2> QED
    BY <2>1, <2>2
<1>14. ReadSound(c)'
  <2>1. call.alone => t \notin spoilt'.store /\ ~ Written(t)'
    BY <1>1, <1>10, <1>12 DEF Written
  <2>2. call.calm => /\ t \notin spoilt'.store
                     /\ \A d \in Caller : Writes(d, t)' => calls'[d].kind = "put" /\ m <= calls'[d].checkpoint
    BY <1>1, <1>10, <1>12, <1>13
  <2> QED
    BY <1>1, <1>2, <1>7, <1>8, <1>11, <1>13, <2>1, <2>2 DEF ReadSound
<1>15. UNCHANGED <<made, spoilt>> /\ \A u \in Thread, q \in Core : store'.key[u][q] = store.key[u][q]
  BY <1>1
<1> QED
  BY <1>5, <1>9, <1>14, <1>15, OtherReadable

LEMMA ReturnReadable ==
    ASSUME IInv, \A d \in Caller : Readable(d), NEW c \in Caller, Return(c)
    PROVE  \A d \in Caller : Readable(d)'
<1>1. PICK next : next = Idle
  OBVIOUS
<1>2. calls[c].kind \notin Writers /\ next.kind \notin Writers /\ next.kind # "get_tuple"
  BY <1>1 DEF Return, Writers, Idle
<1>3. calls' = [calls EXCEPT ![c] = next] /\ UNCHANGED <<made, spoilt>>
  BY <1>1 DEF Return
<1>4. ReadSound(c)'
  BY <1>2, <1>3 DEF ReadSound, IInv, Typed
<1>5. \A u \in Thread, q \in Core : store'.key[u][q] = store.key[u][q]
  BY DEF Return
<1> QED
  BY <1>2, <1>3, <1>4, <1>5, OtherReadable

LEMMA StepReadable ==
    IInv /\ Undisturbed /\ (\A d \in Caller : Readable(d)) /\ [Next]_vars => \A d \in Caller : Readable(d)'
<1> SUFFICES ASSUME IInv, Undisturbed, \A d \in Caller : Readable(d), [Next]_vars
             PROVE  \A d \in Caller : Readable(d)'
  OBVIOUS
<1>1. CASE \E c \in Caller, t \in Thread : Put(c, t)
  BY <1>1, PutReadable
<1>2. CASE \E c \in Caller, t \in Thread : DeleteThread(c, t)
  BY <1>2, DeleteReadable
<1>3. CASE \E c \in Caller, t \in Thread : Prune(c, t)
  BY <1>3, PruneReadable
<1>4. CASE \E c \in Caller, t \in Thread : GetTuple(c, t)
  BY <1>4, GetTupleReadable
<1>5. CASE \E c \in Caller, s, t \in Thread : CopyThread(c, s, t)
  BY <1>5, CopyThreadReadable
<1>6. CASE \E c \in Caller :
            PutSet(c) \/ PutDropped(c) \/ PutCount(c) \/ PutHistory(c) \/ HistoryDropped(c)
  BY <1>6, PutGoesReadable, PutDroppedReadable, PutHistoryReadable
<1>7. CASE \E c \in Caller : RemoveKey(c)
  BY <1>7, RemoveReadable
<1>8. CASE \E c \in Caller : CopyGet(c) \/ CopySet(c) \/ CopyDropped(c)
  BY <1>8, CopyReadable, CopyDroppedReadable
<1>9. CASE \E c \in Caller : Read(c) \/ Return(c)
  BY <1>9, ReadReadable, ReturnReadable
<1>10. CASE \E t \in Thread, task \in Task : PutWrites(t, task)
  <2>1. UNCHANGED <<made, spoilt>> /\ \A d \in Caller : calls'[d] = calls[d]
    BY <1>10 DEF PutWrites
  <2>2. \A u \in Thread, q \in Core : store'.key[u][q] = store.key[u][q]
    BY <1>10 DEF PutWrites, IInv, Typed, Map
  <2> QED
    BY <2>1, <2>2, BystanderReadable
<1>11. CASE Gossip
  <2>1. /\ UNCHANGED <<store, calls, made>> /\ spoilt'.store = spoilt.store
    BY <1>11 DEF Gossip, Undisturbed
  <2>2. \A t : Written(t)' <=> Written(t)
    BY <2>1 DEF Written, Writes
  <2> QED
    BY <2>1, <2>2 DEF Readable, PutFresh, ReadSound, Writes
<1>12. CASE Crash
  BY <1>12 DEF Crash, Idle, Readable, PutFresh, ReadSound
<1>13. CASE UNCHANGED vars \/ \E t \in Thread, task \in Task : WritesDropped(t, task)
  <2>1. UNCHANGED <<made, spoilt>> /\ \A d \in Caller : calls'[d] = calls[d]
    BY <1>13 DEF vars, WritesDropped
  <2>2. \A u \in Thread, q \in Core : store'.key[u][q] = store.key[u][q]
    BY <1>13 DEF vars, WritesDropped
  <2> QED
    BY <2>1, <2>2, BystanderReadable
<1> QED
  BY <1>1, <1>2, <1>3, <1>4, <1>5, <1>6, <1>7, <1>8, <1>9, <1>10, <1>11, <1>12, <1>13 DEF Next

(* get_tuple() reads its keys one by one: from a thread that is not torn,  *)
(* what it returns is one whole checkpoint if no writer met it; beside     *)
(* puts that came one after the other and found room for their keys, the   *)
(* id and the metadata belong to the checkpoint they come with, to the one *)
(* before, or to a later one.                                              *)
THEOREM ReadsComeNear == Spec => []ReadsNearlyWhole
<1> DEFINE AllReadable == \A d \in Caller : Readable(d)
<1>1. Init => AllReadable
  BY InitReadable
<1>2. IInv /\ Undisturbed /\ AllReadable /\ [Next]_vars => AllReadable'
  BY StepReadable
<1>3. IInv /\ Undisturbed /\ AllReadable => ReadsNearlyWhole
  <2> SUFFICES ASSUME Undisturbed, NEW c \in Caller, Readable(c), NEW call, call = calls[c],
                      NEW n, n = call.got[Latest], IInv,
                      call.kind = "get_tuple", call.todo = <<>>, n # 0
               PROVE  /\ call.alone => Whole(call.got)
                      /\ call.calm => \A p \in {Id, Meta} : \/ call.got[p] = Before(n)
                                                            \/ call.got[p] >= n
    BY DEF ReadsNearlyWhole
  <2>1. ReadSound(c) /\ Left(call.todo) = {}
    BY LeftNone DEF Readable
  <2>2. PICK t : t = call.thread
    OBVIOUS
  <2>3. t \in Thread
    BY <2>2, Kinds DEF IInv, Typed, ReadCall
  <2>4. ASSUME call.alone PROVE Whole(call.got)
    <3>1. t \notin spoilt.store /\ ~ Written(t) /\ SeenWhole(call, store.key[t])
      BY <2>1, <2>2, <2>4 DEF ReadSound
    <3>2. Whole(store.key[t])
      BY <2>3, <3>1 DEF Undisturbed, TornOnlyWhenDisturbed
    <3>3. \A p \in Core : call.got[p] = store.key[t][p]
      BY <2>1, <3>1 DEF SeenWhole
    <3> QED
      BY <3>2, <3>3 DEF Whole, Core
  <2>5. ASSUME call.calm, NEW p \in {Id, Meta} PROVE call.got[p] = Before(n) \/ call.got[p] >= n
    <3>1. SeenNear(made, call, store.key[t])
      BY <2>1, <2>2, <2>5 DEF ReadSound
    <3>2. Near(made, n, call.got[p])
      BY <2>1, <3>1 DEF SeenNear, Now
    <3> QED
      BY <3>2 DEF Near, Before
  <2> QED
    BY <2>4, <2>5
<1> HIDE DEF AllReadable
<1> QED
  BY <1>1, <1>2, <1>3, StaysUndisturbed, PTL DEF Spec

-----------------------------------------------------------------------------
(* The bounds of the counters. *)

(* The puts that have not yet counted their checkpoint.                    *)
Waiting(some) == {c \in Caller : some[c].kind = "put" /\ ~ some[c].counted}

(* A checkpoint is counted once: each is either counted or waiting for it, *)
(* so that the counter, 0 again after a crash, is never ahead of the puts. *)
Counts ==
    /\ Len(made) <= MaxCheckpoints
    /\ \A i \in 1..Len(made) : made[i].before <= MaxCheckpoints
    /\ checkpoint_counter \in Nat
    /\ IsFiniteSet(Waiting(calls))
    /\ checkpoint_counter + Cardinality(Waiting(calls)) <= Len(made)

Spent == [calls : 0..MaxCalls, pushes : 0..MaxPushes, faults : 0..MaxFaults]

Histories ==
    /\ spoilt \in Threads
    /\ pruned \in Threads
    /\ spent \in Spent

LEMMA InitCounts == Init => Counts /\ Histories
<1> SUFFICES ASSUME Init PROVE Counts /\ Histories
  OBVIOUS
<1>1. Waiting(calls) = {}
  BY DEF Init, Waiting, Idle
<1>2. Len(made) = 0 /\ checkpoint_counter = 0
  BY DEF Init
<1>3. Histories
  BY CheckpointsAssumption DEF Init, Histories, Threads, Spent
<1> QED
  BY <1>1, <1>2, <1>3, FS_EmptySet, CheckpointsAssumption DEF Counts

(* As long as no put begins and none counts, no other call waits to count. *)
LEMMA CountsKept ==
    ASSUME Counts, Waiting(calls') \subseteq Waiting(calls), UNCHANGED <<made, checkpoint_counter>>,
           Len(made) \in Nat
    PROVE  Counts'
<1>1. /\ IsFiniteSet(Waiting(calls')) /\ Cardinality(Waiting(calls')) \in Nat
      /\ Cardinality(Waiting(calls)) \in Nat
      /\ Cardinality(Waiting(calls')) <= Cardinality(Waiting(calls))
  BY FS_Subset, FS_CardinalityType DEF Counts
<1>2. \A a, b, n, l \in Nat : a <= b /\ n + b <= l => n + a <= l
  OBVIOUS
<1>3. checkpoint_counter + Cardinality(Waiting(calls')) <= Len(made)
  BY <1>1, <1>2 DEF Counts
<1> QED
  BY <1>1, <1>3 DEF Counts

(* What a new writer does to the others does not count. *)
LEMMA CrossedWaiting ==
    ASSUME IInv, NEW kind, NEW t \in Thread
    PROVE  Waiting(Crossed(kind, t)) \subseteq Waiting(calls)
<1> SUFFICES ASSUME NEW d \in Caller, NEW call, call = Crossed(kind, t)[d],
                    call.kind = "put", ~ call.counted
             PROVE  calls[d].kind = "put" /\ ~ calls[d].counted
  BY DEF Waiting
<1>1. calls[d].kind = "put"
  BY CrossedWriters
<1>2. PICK old \in PutCall : old = calls[d]
  BY <1>1, Kinds DEF IInv, Typed
<1>3. call = IF Uses(d, t) THEN [old EXCEPT !.alone = FALSE] ELSE old
  BY <1>1, <1>2 DEF Crossed
<1> QED
  BY <1>1, <1>2, <1>3 DEF PutCall

LEMMA BeginWaiting ==
    ASSUME IInv, NEW c \in Caller, NEW call, call.thread \in Thread, Begin(c, call)
    PROVE  Waiting(calls') \subseteq Waiting(calls) \cup (IF call.kind = "put" THEN {c} ELSE {})
<1>1. PICK crossed : crossed = Crossed(call.kind, call.thread)
  OBVIOUS
<1>2. crossed \in [Caller -> CallSet] /\ Waiting(crossed) \subseteq Waiting(calls)
  BY <1>1, CrossedTyped, CrossedWaiting DEF IInv
<1>3. calls' = [crossed EXCEPT ![c] = call]
  BY <1>1 DEF Begin
<1> QED
  BY <1>2, <1>3 DEF Waiting

LEMMA PutCounts ==
    ASSUME IInv, Counts, NEW c \in Caller, NEW t \in Thread, Put(c, t)
    PROVE  Counts'
<1> DEFINE current == store.key[t][Id]
           checkpoint == [thread |-> t, before |-> current, seen |-> store.writes[t]]
<1>1. made' = Append(made, checkpoint) /\ Len(made) < MaxCheckpoints
      /\ checkpoint_counter' = checkpoint_counter
  BY DEF Put
<1>2. current \in Nat /\ Covers(made, store.writes, current) /\ checkpoint.before = current
  BY DEF IInv, Typed, Covered, KeysCovered, Map, Part
<1>3. made \in Seq(Made) /\ checkpoint \in Made
  BY <1>2 DEF IInv, Typed, Made, Map
<1> HIDE DEF current, checkpoint
<1>4. /\ Len(made') = Len(made) + 1 /\ Len(made) \in Nat /\ DOMAIN made = 1..Len(made)
      /\ made'[Len(made) + 1] = checkpoint
      /\ \A i \in 1..Len(made) : made'[i] = made[i]
  BY <1>1, <1>3
<1>5. current <= MaxCheckpoints
  BY <1>1, <1>2, <1>4, CheckpointsAssumption DEF Covers
<1>6. \A i \in 1..Len(made') : made'[i].before <= MaxCheckpoints
  <2> SUFFICES ASSUME NEW i \in 1..Len(made') PROVE made'[i].before <= MaxCheckpoints
    OBVIOUS
  <2>1. i \in 1..Len(made) \/ i = Len(made) + 1
    BY <1>4
  <2> QED
    BY <1>2, <1>4, <1>5, <2>1 DEF Counts
<1>7. Waiting(calls') \subseteq Waiting(calls) \cup {c}
  <2>1. PICK call : call = [kind |-> "put", thread |-> t, checkpoint |-> Len(made) + 1,
                            current |-> current, alone |-> ~ Crosses(t), counted |-> FALSE,
                            todo |-> (IF current = 0 THEN <<>> ELSE <<Parent>>) \o <<Latest, Id, Meta>>]
    OBVIOUS
  <2>2. Begin(c, call)
    BY <2>1 DEF Put, current
  <2>3. call.thread = t /\ call.kind = "put"
    BY <2>1
  <2> QED
    BY <2>2, <2>3, BeginWaiting
<1>8. /\ IsFiniteSet(Waiting(calls'))
      /\ Cardinality(Waiting(calls')) \in Nat /\ Cardinality(Waiting(calls)) \in Nat
      /\ Cardinality(Waiting(calls')) <= Cardinality(Waiting(calls)) + 1
  <2>1. PICK old, new : old = Waiting(calls) /\ new = Waiting(calls')
    OBVIOUS
  <2>2. /\ IsFiniteSet(old \cup {c})
        /\ Cardinality(old \cup {c}) \in {Cardinality(old), Cardinality(old) + 1}
    BY <2>1, FS_AddElement DEF Counts
  <2>3. IsFiniteSet(new) /\ Cardinality(new) <= Cardinality(old \cup {c})
    BY <1>7, <2>1, <2>2, FS_Subset
  <2>4. Cardinality(new) \in Nat /\ Cardinality(old) \in Nat
    BY <2>1, <2>3, FS_CardinalityType DEF Counts
  <2>5. Cardinality(new) <= Cardinality(old) + 1
    BY <2>2, <2>3, <2>4
  <2> QED
    BY <2>1, <2>3, <2>4, <2>5
<1>9. \A a, b, n, l \in Nat : a <= b + 1 /\ n + b <= l => n + a <= l + 1
  OBVIOUS
<1>10. checkpoint_counter + Cardinality(Waiting(calls')) <= Len(made) + 1
  BY <1>4, <1>8, <1>9 DEF Counts
<1> QED
  BY <1>1, <1>4, <1>6, <1>8, <1>10, CheckpointsAssumption DEF Counts

LEMMA PutCountCounts ==
    ASSUME IInv, Counts, NEW c \in Caller, PutCount(c)
    PROVE  Counts'
<1>1. PICK call \in PutCall : call = calls[c] /\ ~ call.counted
  BY Kinds DEF IInv, Typed, PutCount
<1>2. calls' = [calls EXCEPT ![c] = [call EXCEPT !.counted = TRUE]]
  BY <1>1 DEF PutCount, IInv, Typed
<1>3. c \in Waiting(calls) /\ Waiting(calls') \subseteq Waiting(calls) \ {c}
  BY <1>1, <1>2 DEF Waiting, PutCall, IInv, Typed
<1>4. checkpoint_counter' = checkpoint_counter + 1 /\ made' = made /\ Len(made) \in Nat
  BY DEF PutCount, NextCount, IInv, Typed
<1>5. PICK old, new : old = Waiting(calls) /\ new = Waiting(calls')
  OBVIOUS
<1>6. IsFiniteSet(old \ {c}) /\ Cardinality(old \ {c}) = Cardinality(old) - 1
  BY <1>3, <1>5, FS_RemoveElement DEF Counts
<1>7. IsFiniteSet(new) /\ Cardinality(new) <= Cardinality(old \ {c})
  BY <1>3, <1>5, <1>6, FS_Subset
<1>8. Cardinality(new) \in Nat /\ Cardinality(old) \in Nat
  BY <1>5, <1>7, FS_CardinalityType DEF Counts
<1>9. checkpoint_counter' + Cardinality(new) <= Len(made)
  BY <1>4, <1>5, <1>6, <1>7, <1>8 DEF Counts
<1> QED
  BY <1>4, <1>5, <1>7, <1>9 DEF Counts

(* A call that goes on stays of its kind. *)
LEMMA GoesOnWaiting ==
    ASSUME IInv, NEW c \in Caller,
           \/ PutSet(c) \/ RemoveKey(c) \/ CopyGet(c) \/ CopySet(c) \/ Read(c)
           \/ Return(c) \/ PutHistory(c) \/ PutDropped(c) \/ HistoryDropped(c) \/ CopyDropped(c)
    PROVE  Waiting(calls') \subseteq Waiting(calls)
<1>1. PICK call \in CallSet : call = calls[c]
  BY DEF IInv, Typed
<1>2. ASSUME NEW next, calls' = [calls EXCEPT ![c] = next],
             next.kind = "put" => call.kind = "put" /\ next.counted = call.counted
      PROVE  Waiting(calls') \subseteq Waiting(calls)
  BY <1>1, <1>2 DEF Waiting, IInv, Typed
<1>3. calls' = [calls EXCEPT ![c] = Idle] => Waiting(calls') \subseteq Waiting(calls)
  BY <1>2 DEF Idle
<1>4. CASE PutSet(c)
  <2>1. call \in PutCall /\ calls' = [calls EXCEPT ![c] = [call EXCEPT !.todo = Tail(@)]]
    BY <1>1, <1>4, Kinds DEF PutSet, Rest, IInv, Typed
  <2> QED
    BY <1>2, <2>1 DEF PutCall
<1>5. CASE RemoveKey(c)
  <2>1. call \in DeleteCall \cup PruneCall
    BY <1>1, <1>5, Kinds DEF RemoveKey
  <2>2. calls' = [calls EXCEPT ![c] = Idle] \/ calls' = [calls EXCEPT ![c] = [call EXCEPT !.todo = Tail(@)]]
    BY <1>1, <1>5 DEF RemoveKey, Rest, IInv, Typed
  <2>3. [call EXCEPT !.todo = Tail(@)].kind # "put"
    BY <2>1 DEF DeleteCall, PruneCall
  <2> QED
    BY <1>2, <1>3, <2>2, <2>3
<1>6. CASE CopyGet(c)
  <2>1. call \in CopyCall
    BY <1>1, <1>6, Kinds DEF CopyGet
  <2> DEFINE value == store.key[call.source][Head(call.todo)]
  <2>2. \/ calls' = [calls EXCEPT ![c].held = value, ![c].at = "set"]
        \/ calls' = [calls EXCEPT ![c] = Idle]
        \/ calls' = [calls EXCEPT ![c].todo = Tail(@)]
    BY <1>1, <1>6 DEF CopyGet, Rest
  <2> HIDE DEF value
  <2>3. \/ calls' = [calls EXCEPT ![c] = [call EXCEPT !.held = value, !.at = "set"]]
        \/ calls' = [calls EXCEPT ![c] = Idle]
        \/ calls' = [calls EXCEPT ![c] = [call EXCEPT !.todo = Tail(@)]]
    BY <1>1, <2>2 DEF IInv, Typed
  <2>4. /\ [call EXCEPT !.held = value, !.at = "set"].kind # "put"
        /\ [call EXCEPT !.todo = Tail(@)].kind # "put"
    BY <2>1 DEF CopyCall
  <2> QED
    BY <1>2, <1>3, <2>3, <2>4
<1>7. CASE CopySet(c) \/ CopyDropped(c)
  <2>1. call \in CopyCall
    BY <1>1, <1>7, Kinds DEF CopySet, CopyDropped
  <2>2. \/ calls' = [calls EXCEPT ![c] = Idle]
        \/ calls' = [calls EXCEPT ![c].at = "get", ![c].held = 0, ![c].todo = Tail(@)]
    BY <1>7 DEF CopySet, CopyDropped, Onward
  <2>3. \/ calls' = [calls EXCEPT ![c] = Idle]
        \/ calls' = [calls EXCEPT ![c] = [call EXCEPT !.at = "get", !.held = 0, !.todo = Tail(@)]]
    BY <1>1, <2>2 DEF IInv, Typed
  <2>4. [call EXCEPT !.at = "get", !.held = 0, !.todo = Tail(@)].kind # "put"
    BY <2>1 DEF CopyCall
  <2> QED
    BY <1>2, <1>3, <2>3, <2>4
<1>8. CASE Read(c)
  <2>1. call \in ReadCall
    BY <1>1, <1>8, Kinds DEF Read
  <2> DEFINE p == Head(call.todo)
             value == store.key[call.thread][p]
             todo == IF p = Latest /\ value = 0 THEN <<>> ELSE Tail(call.todo)
  <2>2. calls' = [calls EXCEPT ![c].got[p] = value,
                               ![c].todo = IF p = Latest /\ value = 0 THEN <<>> ELSE Tail(@)]
    BY <1>1, <1>8 DEF Read
  <2> HIDE DEF p, value
  <2>3. calls' = [calls EXCEPT ![c] = [call EXCEPT !.got[p] = value, !.todo = todo]]
    BY <1>1, <2>2 DEF IInv, Typed
  <2>4. [call EXCEPT !.got[p] = value, !.todo = todo].kind # "put"
    BY <2>1 DEF ReadCall
  <2> QED
    BY <1>2, <2>3, <2>4
<1>9. Return(c) \/ PutHistory(c) \/ HistoryDropped(c) => calls' = [calls EXCEPT ![c] = Idle]
  BY DEF Return, PutHistory, HistoryDropped, PutEnds
<1>10. CASE PutDropped(c)
  <2> SUFFICES ASSUME NEW d \in Waiting(calls') PROVE d \in Waiting(calls)
    OBVIOUS
  <2>1. calls[c].kind = "put" /\ calls[c].todo # <<>> /\ calls' = Short(c)
    BY <1>10 DEF PutDropped
  <2>2. CASE d = c
    BY <2>1, <2>2, ShortCalls DEF Waiting
  <2>3. CASE d # c /\ calls[d].kind = "get_tuple" /\ calls[d].thread = calls[c].thread
    <3>1. d \in Caller /\ calls'[d].kind = "put"
      BY DEF Waiting
    <3>2. calls'[d] \in ReadCall
      BY <2>1, <2>3, <3>1, ShortOther
    <3> QED
      BY <3>1, <3>2 DEF ReadCall
  <2>4. CASE d # c /\ ~ (calls[d].kind = "get_tuple" /\ calls[d].thread = calls[c].thread)
    BY <2>1, <2>4, ShortOther DEF Waiting
  <2> QED
    BY <2>2, <2>3, <2>4
<1> QED
  BY <1>3, <1>4, <1>5, <1>6, <1>7, <1>8, <1>9, <1>10

LEMMA StepCounts == IInv /\ Counts /\ [Next]_vars => Counts'
<1> SUFFICES ASSUME IInv, Counts, [Next]_vars PROVE Counts'
  OBVIOUS
<1>1. Len(made) \in Nat
  BY DEF IInv, Typed
<1>2. ASSUME Waiting(calls') \subseteq Waiting(calls), UNCHANGED <<made, checkpoint_counter>>
      PROVE  Counts'
  BY <1>1, <1>2, CountsKept
<1>3. ASSUME NEW c \in Caller, NEW t \in Thread, DeleteThread(c, t) PROVE Counts'
  <2>1. PICK call : call = [kind |-> "delete", thread |-> t, alone |-> ~ Crosses(t), todo |-> DeleteOrder]
    OBVIOUS
  <2>2. Begin(c, call) /\ call.thread = t /\ call.kind # "put" /\ UNCHANGED <<made, checkpoint_counter>>
    BY <1>3, <2>1 DEF DeleteThread
  <2> QED
    BY <1>2, <2>2, BeginWaiting
<1>4. ASSUME NEW c \in Caller, NEW source \in Thread, NEW t \in Thread, CopyThread(c, source, t)
      PROVE  Counts'
  <2>1. PICK call : call = [kind |-> "copy", thread |-> t, source |-> source, held |-> 0,
                            alone |-> ~ Crosses(t), at |-> "get", todo |-> DeleteOrder]
    OBVIOUS
  <2>2. Begin(c, call) /\ call.thread = t /\ call.kind # "put" /\ UNCHANGED <<made, checkpoint_counter>>
    BY <1>4, <2>1 DEF CopyThread
  <2> QED
    BY <1>2, <2>2, BeginWaiting
<1>5. ASSUME NEW c \in Caller, NEW call, call.kind # "put", calls' = [calls EXCEPT ![c] = call],
             UNCHANGED <<made, checkpoint_counter>>
      PROVE  Counts'
  BY <1>2, <1>5 DEF Waiting, IInv, Typed
<1>6. ASSUME NEW c \in Caller, NEW t \in Thread, Prune(c, t) PROVE Counts'
  <2>1. PICK call : call = [kind |-> "prune", thread |-> t, todo |-> SlotsInOrder]
    OBVIOUS
  <2> QED
    BY <1>5, <1>6, <2>1 DEF Prune
<1>7. ASSUME NEW c \in Caller, NEW t \in Thread, GetTuple(c, t) PROVE Counts'
  <2>1. PICK call : call = [kind |-> "get_tuple", thread |-> t, got |-> Absent, todo |-> ReadOrder,
                            alone |-> t \notin spoilt.store /\ ~ Written(t),
                            calm |-> /\ t \notin spoilt.store
                                     /\ \A d \in Caller : Writes(d, t) => calls[d].kind = "put"]
    OBVIOUS
  <2>2. call.kind # "put"
    BY <2>1
  <2>3. calls' = [calls EXCEPT ![c] = call] /\ UNCHANGED <<made, checkpoint_counter>>
    BY <1>7, <2>1 DEF GetTuple
  <2> QED
    BY <1>5, <2>2, <2>3
<1>8. ASSUME NEW c \in Caller,
             \/ PutSet(c) \/ RemoveKey(c) \/ CopyGet(c) \/ CopySet(c) \/ Read(c)
             \/ Return(c) \/ PutHistory(c) \/ PutDropped(c) \/ HistoryDropped(c) \/ CopyDropped(c)
      PROVE  Counts'
  <2>1. UNCHANGED <<made, checkpoint_counter>>
    BY <1>8 DEF PutSet, RemoveKey, CopyGet, CopySet, Read, Return, PutHistory, PutDropped,
                HistoryDropped, CopyDropped
  <2>2. Waiting(calls') \subseteq Waiting(calls)
    BY <1>8, GoesOnWaiting
  <2> QED
    BY <1>2, <2>1, <2>2
<1>9. (\E t \in Thread, task \in Task : PutWrites(t, task) \/ WritesDropped(t, task))
         \/ Gossip \/ UNCHANGED vars => Counts'
  BY <1>2 DEF PutWrites, WritesDropped, Gossip, vars
<1>10. CASE Crash
  <2>1. Waiting(calls') = {} /\ checkpoint_counter' = 0 /\ made' = made
    BY <1>10 DEF Crash, Waiting, Idle
  <2> QED
    BY <1>1, <2>1, FS_EmptySet DEF Counts
<1> QED
  BY <1>3, <1>4, <1>6, <1>7, <1>8, <1>9, <1>10, PutCounts, PutCountCounts DEF Next

LEMMA StepHistories == IInv /\ Histories /\ [Next]_vars => Histories'
<1> SUFFICES ASSUME IInv, Histories, [Next]_vars PROVE Histories'
  OBVIOUS
<1>1. ASSUME Counted PROVE spent' \in Spent
  BY <1>1, CheckpointsAssumption DEF Counted, Histories, Spent
<1>2. ASSUME NEW threads \in SUBSET Thread, Spoil(threads) PROVE spoilt' \in Threads
  BY <1>2 DEF Spoil, Histories, Threads
<1>3. ASSUME NEW t \in Thread PROVE Disturbs(t) \in SUBSET Thread
  <2>1. ASSUME NEW d \in Caller, calls[d].kind = "copy" PROVE calls[d].thread \in Thread
    BY <2>1, Kinds DEF IInv, Typed, CopyCall
  <2> QED
    BY <2>1 DEF Disturbs
<1>12. ASSUME Fault PROVE spent' \in Spent
  BY <1>12, CheckpointsAssumption DEF Fault, Histories, Spent
<1>4. ASSUME NEW t \in Thread, NEW c \in Caller,
             Put(c, t) \/ DeleteThread(c, t) \/ Prune(c, t) \/ GetTuple(c, t)
      PROVE  Histories'
  <2>1. spent' \in Spent
    BY <1>1, <1>4 DEF Put, DeleteThread, Prune, GetTuple, Starts
  <2>2. spoilt' \in Threads
    BY <1>2, <1>3, <1>4 DEF Put, DeleteThread, Prune, GetTuple, Histories
  <2>3. pruned' \in Threads
    BY <1>4 DEF Put, DeleteThread, Prune, GetTuple, Histories, Threads
  <2> QED
    BY <2>1, <2>2, <2>3 DEF Histories
<1>5. ASSUME NEW source \in Thread, NEW t \in Thread, \E c \in Caller : CopyThread(c, source, t)
      PROVE  Histories'
  <2>1. spent' \in Spent
    BY <1>1, <1>5 DEF CopyThread, Starts
  <2>2. PICK threads : threads = IF \/ store.key[t] # Absent
                                    \/ source \in spoilt.store
                                    \/ Written(source)
                                 THEN {t} ELSE {}
    OBVIOUS
  <2>3. Spoil(Disturbs(t) \cup threads) /\ Disturbs(t) \cup threads \in SUBSET Thread
    BY <1>3, <1>5, <2>2 DEF CopyThread
  <2>4. spoilt' \in Threads
    BY <1>2, <2>3
  <2>5. pruned' \in Threads
    BY <1>5 DEF CopyThread, Histories, Threads
  <2> QED
    BY <2>1, <2>4, <2>5 DEF Histories
<1>6. ASSUME NEW c \in Caller, PutHistory(c) \/ RemoveKey(c) PROVE Histories'
  <2>1. /\ \E S \in SUBSET spoilt.store : spoilt' = [spoilt EXCEPT !.store = S]
        /\ pruned' = pruned \/ \E S \in SUBSET pruned.store : pruned' = [pruned EXCEPT !.store = S]
        /\ spent' = spent
    <3>1. \A S, x : S \ {x} \in SUBSET S /\ S \in SUBSET S
      OBVIOUS
    <3>2. CASE PutHistory(c)
      BY <3>1, <3>2 DEF PutHistory, PutEnds
    <3>3. CASE RemoveKey(c)
      BY <3>1, <3>3 DEF RemoveKey
    <3> QED
      BY <1>6, <3>2, <3>3
  <2> QED
    BY <2>1 DEF Histories, Threads
<1>7. ASSUME NEW c \in Caller,
             PutSet(c) \/ PutCount(c) \/ CopyGet(c) \/ CopySet(c) \/ Read(c) \/ Return(c)
      PROVE  UNCHANGED <<spoilt, pruned, spent>>
  BY <1>7 DEF PutSet, PutCount, CopyGet, CopySet, Read, Return
<1>8. ASSUME NEW t \in Thread, NEW task \in Task, PutWrites(t, task) \/ WritesDropped(t, task)
      PROVE  Histories'
  BY <1>1, <1>8 DEF PutWrites, WritesDropped, Histories
<1>13. ASSUME NEW c \in Caller, PutDropped(c) \/ HistoryDropped(c) \/ CopyDropped(c)
       PROVE  Histories'
  <2>1. spent' \in Spent
    BY <1>12, <1>13 DEF PutDropped, HistoryDropped, CopyDropped, Dropped
  <2>2. calls[c].thread \in Thread
    BY <1>13, Kinds DEF PutDropped, HistoryDropped, PutEnds, CopyDropped, IInv, Typed, PutCall, CopyCall
  <2>3. PICK threads \in SUBSET Thread : threads = {calls[c].thread}
    BY <2>2
  <2>4. CASE PutDropped(c)
    BY <1>2, <2>1, <2>3, <2>4 DEF PutDropped, Histories
  <2>5. CASE HistoryDropped(c)
    <3>1. \E S \in SUBSET spoilt.store : spoilt' = [spoilt EXCEPT !.store = S]
      <4>1. \A S, x : S \ {x} \in SUBSET S /\ S \in SUBSET S
        OBVIOUS
      <4> QED
        BY <2>5, <4>1 DEF HistoryDropped, PutEnds
    <3>2. pruned' = [pruned EXCEPT !.store = @ \cup threads]
      BY <2>3, <2>5 DEF HistoryDropped
    <3> QED
      BY <2>1, <3>1, <3>2 DEF Histories, Threads
  <2>6. CASE CopyDropped(c)
    <3>1. UNCHANGED pruned /\ (Spoil({}) \/ Spoil(threads))
      BY <2>3, <2>6 DEF CopyDropped
    <3>2. {} \in SUBSET Thread
      OBVIOUS
    <3> QED
      BY <1>2, <2>1, <3>1, <3>2 DEF Histories
  <2> QED
    BY <1>13, <2>4, <2>5, <2>6
<1>9. CASE Gossip
  <2>1. {t \in Thread : Written(t)} \in SUBSET Thread
    OBVIOUS
  <2>2. spoilt' \in Threads /\ pruned' \in Threads
    BY <1>9, <2>1 DEF Gossip, Histories, Threads
  <2>3. spent' \in Spent
    BY <1>9, CheckpointsAssumption DEF Gossip, Histories, Spent
  <2> QED
    BY <2>2, <2>3 DEF Histories
<1>10. CASE Crash
  <2>1. spoilt' \in Threads /\ pruned' \in Threads
    BY <1>10 DEF Crash, Histories, Threads
  <2>2. spent' \in Spent
    BY <1>10, <1>12 DEF Crash
  <2> QED
    BY <2>1, <2>2 DEF Histories
<1>11. UNCHANGED <<spoilt, pruned, spent>> => Histories'
  BY DEF Histories
<1> QED
  BY <1>4, <1>5, <1>6, <1>7, <1>8, <1>9, <1>10, <1>11, <1>13 DEF Next, vars

(* Every variable has the shape the code gives it, and no counter or key   *)
(* ever holds the number of a checkpoint that was not put.                 *)
THEOREM TypeCorrect == Spec => []TypeOK
<1>1. IInv /\ Counts /\ Histories => TypeOK
  <2> SUFFICES ASSUME IInv, Counts, Histories PROVE TypeOK
    OBVIOUS
  <2>1. Len(made) \in Nat /\ DOMAIN made = 1..Len(made)
    BY DEF IInv, Typed
  <2>2. \A writes : \A n \in Nat : Covers(made, writes, n) => n \in Number
    BY <2>1, CheckpointsAssumption DEF Covers, Counts, Number
  <2>3. ASSUME NEW map \in {store, replica}
        PROVE  map \in [key : [Thread -> [Part -> Number]], writes : [Thread -> SUBSET Task]]
    <3>1. map \in Map /\ KeysCovered(made, map)
      BY DEF IInv, Typed, Covered
    <3>2. map.key \in [Thread -> [Part -> Number]]
      BY <2>2, <3>1 DEF KeysCovered, Map
    <3> QED
      BY <3>1, <3>2 DEF Map
  <2>4. checkpoint_counter \in Number
    <3>1. Cardinality(Waiting(calls)) \in Nat
      BY FS_CardinalityType DEF Counts
    <3> QED
      BY <2>1, <3>1, CheckpointsAssumption DEF Counts, Number
  <2>5. made \in Seq([thread : Thread, before : Number, seen : SUBSET Task])
    <3>1. PICK list : list = made /\ list \in Seq(Made)
      BY DEF IInv, Typed, Made
    <3>2. ASSUME NEW i \in 1..Len(list)
          PROVE  list[i] \in [thread : Thread, before : Number, seen : SUBSET Task]
      <4>1. list[i] \in Made /\ list[i].before <= MaxCheckpoints
        BY <3>1, <3>2 DEF Counts
      <4> QED
        BY <4>1, CheckpointsAssumption DEF Made, Number
    <3>3. PICK S : S = [thread : Thread, before : Number, seen : SUBSET Task]
      OBVIOUS
    <3>4. Len(list) \in Nat /\ list \in [1..Len(list) -> Made]
      BY <3>1, LenProperties
    <3>5. list \in [1..Len(list) -> S]
      BY <3>2, <3>3, <3>4
    <3>6. \E n \in Nat : list \in [1..n -> S]
      BY <3>4, <3>5
    <3>7. list \in Seq(S)
      BY <3>6, SeqDef, Zenon
    <3> QED
      BY <3>1, <3>3, <3>7
  <2>6. ASSUME NEW c \in Caller
        PROVE  \/ calls[c] = Idle
               \/ /\ calls[c].kind \in Writers \cup {"prune", "get_tuple"}
                  /\ calls[c].thread \in Thread
                  /\ calls[c].todo \in Seq(Part)
    <3>1. calls[c] \in CallSet
      BY DEF IInv, Typed
    <3> QED
      BY <3>1 DEF CallSet, PutCall, DeleteCall, PruneCall, CopyCall, ReadCall, Writers
  <2>7. {spoilt, pruned} \subseteq Threads /\ spent \in Spent
    BY DEF Histories
  <2> QED
    BY <2>3, <2>4, <2>5, <2>6, <2>7 DEF TypeOK, Counts, Threads, Spent
<1> QED
  BY <1>1, InitCounts, StepCounts, StepHistories, Inductive, PTL DEF Spec
=============================================================================
