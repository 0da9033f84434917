---------------------------- MODULE EventLog_proofs ----------------------------
(***************************************************************************)
(* Proofs about EventLog, for any jobs and any number of events.           *)
(*                                                                         *)
(* IInv says who holds collectorsMutex (Exclusive) and whose collectors    *)
(* there can be (Owned).  It says nothing of the indexes being different:  *)
(* they need not be, and no collector is left all the same.  Gathered is   *)
(* about the lines of the collectors, and inductive relative to IInv: an   *)
(* event reaches a collector as its last one and once (Delivered), and a   *)
(* collector with an index of its own misses no event of its job but the   *)
(* one that is being delivered (Collected).                                *)
(***************************************************************************)
EXTENDS EventLog, TLAPS

\* Only the job that delivers an event holds the mutex, and only it has
\* collectors to visit.
Exclusive ==
    /\ \A j \in Jobs : pc[j] = "delivering" => holder = j
    /\ holder = Nobody => todo = {}
    /\ holder # Nobody => holder \in Jobs /\ pc[holder] = "delivering"

\* A collector is registered under the index of its job, which is between its
\* registration and the deletion.
Owned ==
    \A i \in Registered :
        /\ collectors[i] \in Jobs
        /\ id[collectors[i]] = i
        /\ pc[collectors[i]] \notin {"start", "indexed", "inserting", "done"}

\* A job that logs has an event left to count.
Counted ==
    /\ \A j \in Jobs : pc[j] \in {"appended", "delivering"} => logged[j] \in 1..NumEvents
    /\ \A j \in Jobs : logged[j] \in 0..NumEvents

IInv == TypeOK /\ Exclusive /\ Owned /\ Counted

USE NumEventsAssumption, NobodyAssumption

-------------------------------------------------------------------------------
LEMMA InitHolds == Init => IInv
<1> SUFFICES ASSUME Init PROVE IInv
  OBVIOUS
<1>1. Registered = {}
  BY DEF Init, Registered
<1>2. pc \in [Jobs -> Places] /\ id \in [Jobs -> Nat] /\ logged \in [Jobs -> 0..NumEvents]
  BY DEF Init, Places
<1>3. /\ events \in Seq(Event)
      /\ lines \in [Jobs -> Seq(Event)]
      /\ file \in [Jobs -> {Torn} \cup Seq(Event)]
  BY DEF Init
<1>4. TypeOK
  BY <1>1, <1>2, <1>3 DEF Init, TypeOK
<1>5. Exclusive /\ Owned /\ Counted
  BY <1>1 DEF Init, Exclusive, Owned, Counted
<1> QED
  BY <1>4, <1>5 DEF IInv

\* Until a job inserts its collector, nobody else sees the index it computes.
LEMMA RegisterKeeps ==
    ASSUME IInv, NEW j \in Jobs, ReadIndex(j) \/ WriteIndex(j) \/ Insert(j)
    PROVE  IInv'
<1> USE DEF IInv, At, Goto
<1>1. pc \in [Jobs -> Places] /\ id \in [Jobs -> Nat] /\ lastIndex \in Nat
  BY DEF TypeOK
<1>2. CASE ReadIndex(j)
  <2>1. /\ pc[j] = "start" /\ pc' = [pc EXCEPT ![j] = "indexed"]
        /\ id' = [id EXCEPT ![j] = lastIndex + 1]
        /\ UNCHANGED <<lastIndex, collectors, events, logged, holder, todo, lines, file,
                       failed, died>>
    BY <1>2 DEF ReadIndex
  <2>2. pc' \in [Jobs -> Places] /\ id' \in [Jobs -> Nat]
    BY <1>1, <2>1 DEF Places
  <2>3. Owned' /\ Exclusive' /\ Counted'
    BY <1>1, <2>1 DEF Owned, Exclusive, Counted, Registered
  <2>4. Registered' \subseteq {id'[k] : k \in Jobs}
    BY <2>3 DEF Owned
  <2> QED
    BY <2>1, <2>2, <2>3, <2>4 DEF TypeOK, Registered
<1>3. CASE WriteIndex(j)
  <2>1. /\ pc[j] = "indexed" /\ pc' = [pc EXCEPT ![j] = "inserting"]
        /\ lastIndex' = id[j]
        /\ UNCHANGED <<id, collectors, events, logged, holder, todo, lines, file,
                       failed, died>>
    BY <1>3 DEF WriteIndex
  <2>2. pc' \in [Jobs -> Places] /\ lastIndex' \in Nat
    BY <1>1, <2>1 DEF Places
  <2>3. Owned' /\ Exclusive' /\ Counted'
    BY <1>1, <2>1 DEF Owned, Exclusive, Counted, Registered
  <2> QED
    BY <2>1, <2>2, <2>3 DEF TypeOK, Registered
<1>4. CASE Insert(j)
  <2>1. /\ pc[j] = "inserting" /\ pc' = [pc EXCEPT ![j] = "running"]
        /\ holder = Nobody
        /\ collectors' = [i \in Registered \cup {id[j]} |->
                             IF i = id[j] THEN j ELSE collectors[i]]
        /\ UNCHANGED <<id, lastIndex, events, logged, holder, todo, lines, file,
                       failed, died>>
    BY <1>4 DEF Insert
  <2>2. pc' \in [Jobs -> Places]
    BY <1>1, <2>1 DEF Places
  <2>3. Registered' = Registered \cup {id[j]}
    BY <2>1 DEF Registered
  <2>4. Owned'
    <3> SUFFICES ASSUME NEW i \in Registered'
                 PROVE  /\ collectors'[i] \in Jobs /\ id'[collectors'[i]] = i
                        /\ pc'[collectors'[i]] \notin {"start", "indexed", "inserting", "done"}
      BY DEF Owned
    <3>1. CASE i = id[j]
      BY <1>1, <2>1, <2>3, <3>1
    <3>2. CASE i # id[j]
      BY <1>1, <2>1, <2>3, <3>2 DEF Owned
    <3> QED
      BY <3>1, <3>2
  <2>5. Exclusive' /\ Counted'
    BY <1>1, <2>1 DEF Exclusive, Counted
  <2>6. Registered' \subseteq {id'[k] : k \in Jobs} /\ todo' \subseteq Registered'
    BY <2>1, <2>3, <2>4 DEF Owned, TypeOK
  <2>7. \A i \in Registered' : collectors'[i] \in Jobs
    BY <2>4 DEF Owned
  <2> QED
    BY <2>1, <2>2, <2>4, <2>5, <2>6, <2>7 DEF TypeOK
<1> QED
  BY <1>2, <1>3, <1>4

LEMMA AppendKeeps ==
    ASSUME IInv, NEW j \in Jobs, Store(j) \/ BeginDelivery(j) \/ Visit(j)
    PROVE  IInv'
<1> USE DEF IInv, At, Goto
<1>1. pc \in [Jobs -> Places] /\ logged \in [Jobs -> 0..NumEvents] /\ events \in Seq(Event)
  BY DEF TypeOK
<1>2. CASE Store(j)
  <2>1. /\ pc[j] = "running" /\ pc' = [pc EXCEPT ![j] = "appended"]
        /\ logged[j] < NumEvents
        /\ logged' = [logged EXCEPT ![j] = @ + 1]
        /\ events' = Append(events, <<j, logged'[j]>>)
        /\ UNCHANGED <<id, lastIndex, collectors, holder, todo, lines, file, failed, died>>
    BY <1>2 DEF Store
  <2>2. logged[j] \in 0..NumEvents /\ logged[j] + 1 \in 1..NumEvents
    BY <1>1, <2>1
  <2>3. logged' \in [Jobs -> 0..NumEvents] /\ logged'[j] \in 1..NumEvents
    BY <1>1, <2>1, <2>2
  <2>4. pc' \in [Jobs -> Places]
    BY <1>1, <2>1 DEF Places
  <2>5. events' \in Seq(Event)
    BY <1>1, <2>1, <2>3 DEF Event
  <2>6. TypeOK'
    BY <2>1, <2>3, <2>4, <2>5 DEF TypeOK, Registered
  <2>7. Exclusive' /\ Owned'
    BY <1>1, <2>1 DEF Exclusive, Owned, Registered
  <2>8. Counted'
    BY <1>1, <2>1, <2>3 DEF Counted
  <2> QED
    BY <2>6, <2>7, <2>8
<1>3. CASE BeginDelivery(j)
  <2>1. /\ pc[j] = "appended" /\ pc' = [pc EXCEPT ![j] = "delivering"]
        /\ holder = Nobody /\ holder' = j /\ todo' = Registered
        /\ UNCHANGED <<id, lastIndex, collectors, events, logged, lines, file, failed, died>>
    BY <1>3 DEF BeginDelivery
  <2>2. pc' \in [Jobs -> Places]
    BY <1>1, <2>1 DEF Places
  <2>3. TypeOK'
    BY <2>1, <2>2 DEF TypeOK, Registered
  <2>4. Exclusive' /\ Owned' /\ Counted'
    BY <1>1, <2>1 DEF Exclusive, Owned, Counted, Registered
  <2> QED
    BY <2>3, <2>4
<1>4. CASE Visit(j)
  <2>1. PICK i \in todo :
            /\ lines' = [lines EXCEPT ![collectors[i]] = Append(@, <<j, logged[j]>>)]
            /\ todo' = todo \ {i}
    BY <1>4 DEF Visit
  <2>2. /\ pc[j] = "delivering"
        /\ UNCHANGED <<pc, id, lastIndex, collectors, events, logged, holder, file,
                       failed, died>>
    BY <1>4 DEF Visit
  <2>3. <<j, logged[j]>> \in Event
    BY <2>2 DEF Counted, Event
  <2>4. lines' \in [Jobs -> Seq(Event)]
    <3>1. lines[collectors[i]] \in Seq(Event)
      BY DEF TypeOK
    <3>2. Append(lines[collectors[i]], <<j, logged[j]>>) \in Seq(Event)
      BY <2>3, <3>1
    <3> QED
      BY <2>1, <3>2 DEF TypeOK
  <2>5. todo' \subseteq Registered
    BY <2>1 DEF TypeOK
  <2>6. TypeOK'
    <3>1. Registered' = Registered
      BY <2>2 DEF Registered
    <3>2. TypeOK
      OBVIOUS
    <3>3. file' \in [Jobs -> {Torn} \cup Seq(Event)]
      BY <2>2, <3>2 DEF TypeOK
    <3>4. Registered' \subseteq {id'[k] : k \in Jobs}
      BY <2>2, <3>1, <3>2 DEF TypeOK
    <3> QED
      BY <2>2, <2>4, <2>5, <3>1, <3>2, <3>3, <3>4 DEF TypeOK
  <2>7. Exclusive' /\ Owned' /\ Counted'
    BY <2>1, <2>2 DEF Exclusive, Owned, Counted, Registered
  <2> QED
    BY <2>6, <2>7
<1> QED
  BY <1>2, <1>3, <1>4

\* A delivery that fails lets the mutex go like one that is complete.
LEMMA DeliveryEndKeeps ==
    ASSUME IInv, NEW j \in Jobs, VisitFails(j) \/ EndDelivery(j) \/ Finish(j)
    PROVE  IInv'
<1> USE DEF IInv, At, Goto
<1>1. pc \in [Jobs -> Places]
  BY DEF TypeOK
<1>2. PICK place \in {"closing", "running"} : pc' = [pc EXCEPT ![j] = place]
  BY DEF VisitFails, EndDelivery, Finish
<1>3. /\ UNCHANGED <<id, lastIndex, collectors, events, logged, lines, file, died>>
      /\ failed' \subseteq failed \cup {j}
  BY DEF VisitFails, EndDelivery, Finish
<1>4. \/ pc[j] = "delivering" /\ todo' = {} /\ holder' = Nobody
      \/ pc[j] = "running" /\ UNCHANGED <<todo, holder>>
  BY DEF VisitFails, EndDelivery, Finish
<1>5. pc' \in [Jobs -> Places]
  BY <1>1, <1>2 DEF Places
<1>6. TypeOK'
  BY <1>3, <1>4, <1>5 DEF TypeOK, Registered
<1>7. Exclusive'
  BY <1>1, <1>2, <1>4 DEF Exclusive
<1>8. Owned' /\ Counted'
  BY <1>1, <1>2, <1>3, <1>4 DEF Owned, Counted, Registered
<1> QED
  BY <1>6, <1>7, <1>8

LEMMA UnregisterKeeps ==
    ASSUME IInv, NEW j \in Jobs, WriteFile(j) \/ Forward(j) \/ Delete(j)
    PROVE  IInv'
<1> USE DEF IInv, At, Goto
<1>1. pc \in [Jobs -> Places]
  BY DEF TypeOK
<1>2. CASE WriteFile(j)
  <2>1. /\ pc[j] = "closing" /\ pc' = [pc EXCEPT ![j] = "forwarding"]
        /\ UNCHANGED <<id, lastIndex, collectors, events, logged, holder, todo, lines,
                       failed, died>>
    BY <1>2 DEF WriteFile
  <2>2. PICK content \in {lines[j], Torn} : file' = [file EXCEPT ![j] = content]
    BY <1>2 DEF WriteFile
  <2>3. file' \in [Jobs -> {Torn} \cup Seq(Event)]
    BY <2>2 DEF TypeOK
  <2>4. pc' \in [Jobs -> Places]
    BY <1>1, <2>1 DEF Places
  <2>5. TypeOK'
    BY <2>1, <2>3, <2>4 DEF TypeOK, Registered
  <2>6. Exclusive' /\ Owned' /\ Counted'
    BY <1>1, <2>1 DEF Exclusive, Owned, Counted, Registered
  <2> QED
    BY <2>5, <2>6
<1>3. CASE Forward(j)
  <2>1. /\ pc[j] = "forwarding" /\ pc' = [pc EXCEPT ![j] = "deleting"]
        /\ UNCHANGED <<id, lastIndex, collectors, events, logged, holder, todo, lines, file,
                       failed, died>>
    BY <1>3 DEF Forward
  <2>2. pc' \in [Jobs -> Places]
    BY <1>1, <2>1 DEF Places
  <2> QED
    BY <1>1, <2>1, <2>2 DEF TypeOK, Exclusive, Owned, Counted, Registered
<1>4. CASE Delete(j)
  <2>1. /\ pc[j] = "deleting" /\ pc' = [pc EXCEPT ![j] = "done"]
        /\ holder = Nobody
        /\ collectors' = [i \in Registered \ {id[j]} |-> collectors[i]]
        /\ UNCHANGED <<id, lastIndex, events, logged, holder, todo, lines, file,
                       failed, died>>
    BY <1>4 DEF Delete, Restrict
  <2>2. pc' \in [Jobs -> Places]
    BY <1>1, <2>1 DEF Places
  <2>3. /\ Registered' = Registered \ {id[j]}
        /\ \A i \in Registered' : collectors'[i] = collectors[i]
    BY <2>1 DEF Registered
  <2>4. todo' = {}
    BY <2>1 DEF Exclusive
  <2>5. TypeOK'
    BY <2>1, <2>2, <2>3, <2>4 DEF TypeOK
  <2>6. Owned'
    BY <1>1, <2>1, <2>3 DEF Owned
  <2>7. Exclusive' /\ Counted'
    BY <1>1, <2>1 DEF Exclusive, Counted
  <2> QED
    BY <2>5, <2>6, <2>7
<1> QED
  BY <1>2, <1>3, <1>4

LEMMA NextKeeps == IInv /\ [Next]_vars => IInv'
<1> SUFFICES ASSUME IInv, [Next]_vars PROVE IInv'
  OBVIOUS
<1>1. CASE UNCHANGED vars
  BY <1>1 DEF vars, IInv, TypeOK, Exclusive, Owned, Counted, Registered
<1>2. ASSUME NEW j \in Jobs, Step(j) PROVE IInv'
  BY <1>2, RegisterKeeps, AppendKeeps, DeliveryEndKeeps, UnregisterKeeps DEF Step
<1>3. ASSUME NEW j \in Jobs, Panic(j) \/ MapRace(j) PROVE IInv'
  <2>1. /\ died' \in BOOLEAN
        /\ UNCHANGED <<pc, id, lastIndex, collectors, events, logged, holder, todo, lines,
                       file, failed>>
    BY <1>3 DEF Panic, MapRace
  <2>2. TypeOK' /\ Exclusive' /\ Owned' /\ Counted'
    BY <2>1 DEF IInv, TypeOK, Exclusive, Owned, Counted, Registered
  <2> QED
    BY <2>2 DEF IInv
<1> QED
  BY <1>1, <1>2, <1>3 DEF Next, Stop

LEMMA Invariance == Spec => []IInv
BY InitHolds, NextKeeps, PTL DEF Spec

-------------------------------------------------------------------------------
(* What the collectors gather *)

\* A job computes its index once; before it is registered it has logged nothing.
Numbered ==
    \A j \in Jobs :
        /\ pc[j] = "start" <=> id[j] = 0
        /\ pc[j] \in {"start", "indexed", "inserting"} => logged[j] = 0

\* An event is gathered after it was logged, and the one that is delivered is
\* the last one of every collector that has it and need not be visited again.
Delivered ==
    \A k \in Jobs : \A p \in DOMAIN lines[k] :
        LET e == lines[k][p]
        IN  /\ e[2] <= logged[e[1]]
            /\ pc[e[1]] = "appended" => e[2] < logged[e[1]]
            /\ pc[e[1]] = "delivering" /\ e[2] = logged[e[1]] =>
                   p = Len(lines[k]) /\ ~BeingAppended(k)

\* The events of job j in s are its first n events.
OwnUpTo(s, j, n) ==
    /\ {s[p][2] : p \in {q \in DOMAIN s : s[q][1] = j}} = 1..n
    /\ \A p, q \in DOMAIN s : s[p][1] = j /\ s[q][1] = j /\ p < q => s[p][2] < s[q][2]

\* The last event of job j has not reached its own collector yet.
Pending(j) == pc[j] = "appended" \/ (pc[j] = "delivering" /\ id[j] \in todo)

\* A job that shares its index with nobody stays registered until it deletes
\* its collector, which has all its events but the one that is delivered.
Collected ==
    \A j \in Jobs :
        Alone(j) /\ j \notin failed /\ pc[j] \notin {"start", "indexed", "inserting"} =>
            /\ pc[j] # "done" => id[j] \in Registered /\ collectors[id[j]] = j
            /\ Pending(j) => OwnUpTo(lines[j], j, logged[j] - 1)
            /\ ~Pending(j) => OwnUpTo(lines[j], j, logged[j])
            /\ pc[j] \in {"forwarding", "deleting", "done"} /\ file[j] # Torn =>
                   OwnUpTo(file[j], j, logged[j])

Gathered == Numbered /\ Delivered /\ Collected /\ SameOrder

LEMMA OwnAppended ==
    ASSUME NEW s \in Seq(Event), NEW j \in Jobs, NEW n \in Nat, n >= 1, OwnUpTo(s, j, n - 1)
    PROVE  OwnUpTo(Append(s, <<j, n>>), j, n)
<1> DEFINE t == Append(s, <<j, n>>)
<1>1. /\ Len(s) \in Nat /\ DOMAIN s = 1..Len(s) /\ DOMAIN t = 1..(Len(s) + 1)
      /\ t[Len(s) + 1] = <<j, n>>
      /\ \A p \in 1..Len(s) : t[p] = s[p] /\ s[p] \in Event
  OBVIOUS
<1> HIDE DEF t
<1>2. \A p \in 1..Len(s) : s[p][1] = j => s[p][2] \in 1..(n - 1)
  BY <1>1 DEF OwnUpTo
<1>3. \A m \in 1..(n - 1) : \E p \in 1..Len(s) : s[p][1] = j /\ s[p][2] = m
  BY <1>1 DEF OwnUpTo
<1>4. \A p \in DOMAIN t : t[p][1] = j => t[p][2] \in 1..n
  BY <1>1, <1>2
<1>5. ASSUME NEW m \in 1..n PROVE \E p \in DOMAIN t : t[p][1] = j /\ t[p][2] = m
  <2>1. CASE m = n
    BY <1>1, <2>1
  <2>2. CASE m # n
    <3>1. m \in 1..(n - 1)
      BY <2>2
    <3>2. PICK p \in 1..Len(s) : s[p][1] = j /\ s[p][2] = m
      BY <1>3, <3>1
    <3> QED
      BY <1>1, <3>2
  <2> QED
    BY <2>1, <2>2
<1>6. {t[p][2] : p \in {q \in DOMAIN t : t[q][1] = j}} = 1..n
  BY <1>4, <1>5
<1>7. ASSUME NEW p \in DOMAIN t, NEW q \in DOMAIN t, t[p][1] = j, t[q][1] = j, p < q
      PROVE  t[p][2] < t[q][2]
  <2>1. CASE q = Len(s) + 1
    BY <1>1, <1>2, <1>7, <2>1
  <2>2. CASE q # Len(s) + 1
    BY <1>1, <1>7, <2>2 DEF OwnUpTo
  <2> QED
    BY <2>1, <2>2
<1> QED
  BY <1>6, <1>7 DEF OwnUpTo, t

LEMMA OtherAppended ==
    ASSUME NEW s \in Seq(Event), NEW j \in Jobs, NEW n \in Nat, OwnUpTo(s, j, n),
           NEW e \in Event, e[1] # j
    PROVE  OwnUpTo(Append(s, e), j, n)
<1> DEFINE t == Append(s, e)
<1>1. /\ Len(s) \in Nat /\ DOMAIN s = 1..Len(s) /\ DOMAIN t = 1..(Len(s) + 1)
      /\ t[Len(s) + 1] = e
      /\ \A p \in 1..Len(s) : t[p] = s[p]
  OBVIOUS
<1> HIDE DEF t
<1>2. {q \in DOMAIN t : t[q][1] = j} = {q \in DOMAIN s : s[q][1] = j}
  BY <1>1
<1>3. \A p \in {q \in DOMAIN s : s[q][1] = j} : t[p] = s[p]
  BY <1>1
<1>4. {t[p][2] : p \in {q \in DOMAIN t : t[q][1] = j}} = 1..n
  BY <1>2, <1>3 DEF OwnUpTo
<1>5. \A p, q \in DOMAIN t : t[p][1] = j /\ t[q][1] = j /\ p < q => t[p][2] < t[q][2]
  BY <1>1, <1>2, <1>3 DEF OwnUpTo
<1> QED
  BY <1>4, <1>5 DEF OwnUpTo, t

LEMMA NothingOwn ==
    ASSUME IInv, Delivered, NEW j \in Jobs, logged[j] = 0
    PROVE  OwnUpTo(lines[j], j, 0)
<1>1. lines[j] \in Seq(Event)
  BY DEF IInv, TypeOK
<1>2. \A p \in DOMAIN lines[j] : lines[j][p] \in Event
  BY <1>1
<1>3. \A p \in DOMAIN lines[j] : lines[j][p][1] # j
  BY <1>2 DEF Delivered, Event
<1>4. {p \in DOMAIN lines[j] : lines[j][p][1] = j} = {}
  BY <1>3
<1>5. 1..0 = {}
  OBVIOUS
<1> QED
  BY <1>3, <1>4, <1>5 DEF OwnUpTo

\* A step that delivers nothing.
LEMMA NothingDelivered ==
    ASSUME IInv, Delivered, SameOrder, UNCHANGED <<lines, logged>>,
           \A i \in Jobs : pc'[i] \in {"appended", "delivering"} => pc'[i] = pc[i],
           \A k \in Jobs : BeingAppended(k)' => BeingAppended(k)
    PROVE  Delivered' /\ SameOrder'
<1>1. SameOrder'
  BY DEF SameOrder
<1>2. ASSUME NEW k \in Jobs, NEW p \in DOMAIN lines[k], NEW e, e = lines[k][p]
      PROVE  /\ e[2] <= logged[e[1]]
             /\ pc'[e[1]] = "appended" => e[2] < logged[e[1]]
             /\ pc'[e[1]] = "delivering" /\ e[2] = logged[e[1]] =>
                   p = Len(lines[k]) /\ ~BeingAppended(k)'
  <2>1. e \in Event
    BY <1>2 DEF IInv, TypeOK
  <2>2. e[1] \in Jobs
    BY <2>1 DEF Event
  <2>3. /\ e[2] <= logged[e[1]]
        /\ pc[e[1]] = "appended" => e[2] < logged[e[1]]
        /\ pc[e[1]] = "delivering" /\ e[2] = logged[e[1]] =>
               p = Len(lines[k]) /\ ~BeingAppended(k)
    BY <1>2 DEF Delivered
  <2> QED
    BY <2>2, <2>3
<1>3. Delivered'
  BY <1>2 DEF Delivered
<1> QED
  BY <1>1, <1>3

\* Registering: the index of a job stays its own, as far as it is, and a job
\* that has just been registered has logged nothing.
LEMMA RegisterGathers ==
    ASSUME IInv, Gathered, NEW j \in Jobs, ReadIndex(j) \/ WriteIndex(j) \/ Insert(j)
    PROVE  Gathered'
<1> USE DEF IInv, Gathered, At, Goto
<1>1. /\ pc \in [Jobs -> Places] /\ id \in [Jobs -> Nat] /\ lastIndex \in Nat
      /\ lines \in [Jobs -> Seq(Event)] /\ logged \in [Jobs -> 0..NumEvents]
  BY DEF TypeOK
<1>3. CASE ReadIndex(j)
  <2>1. /\ pc[j] = "start" /\ pc' = [pc EXCEPT ![j] = "indexed"]
        /\ id' = [id EXCEPT ![j] = lastIndex + 1]
        /\ UNCHANGED <<collectors, logged, todo, lines, file, failed>>
    BY <1>3 DEF ReadIndex
  <2>2. Numbered'
    BY <1>1, <2>1 DEF Numbered
  <2>3. Delivered' /\ SameOrder'
    BY <1>1, <2>1, NothingDelivered DEF BeingAppended
  <2>4. ASSUME NEW k \in Jobs, Alone(k)', k # j, pc[k] # "start" PROVE Alone(k)
    <3>1. id[j] = 0 /\ id[k] # 0 /\ id'[k] = id[k]
      BY <1>1, <2>1, <2>4 DEF Numbered
    <3> QED
      BY <1>1, <2>1, <2>4, <3>1 DEF Alone
  <2>5. Collected'
    <3> SUFFICES ASSUME NEW k \in Jobs, Alone(k)', k \notin failed',
                        pc'[k] \notin {"start", "indexed", "inserting"}
                 PROVE  /\ pc'[k] # "done" => id'[k] \in Registered' /\ collectors'[id'[k]] = k
                        /\ Pending(k)' => OwnUpTo(lines'[k], k, logged'[k] - 1)
                        /\ ~Pending(k)' => OwnUpTo(lines'[k], k, logged'[k])
                        /\ pc'[k] \in {"forwarding", "deleting", "done"} /\ file'[k] # Torn =>
                               OwnUpTo(file'[k], k, logged'[k])
      BY DEF Collected
    <3>1. k # j /\ pc'[k] = pc[k] /\ id'[k] = id[k]
      BY <1>1, <2>1
    <3>2. Alone(k)
      BY <2>4, <3>1
    <3>3. Pending(k)' <=> Pending(k)
      BY <2>1, <3>1 DEF Pending
    <3> QED
      BY <2>1, <3>1, <3>2, <3>3 DEF Collected, Registered
  <2> QED
    BY <2>2, <2>3, <2>5
<1>4. CASE WriteIndex(j)
  <2>1. /\ pc[j] = "indexed" /\ pc' = [pc EXCEPT ![j] = "inserting"]
        /\ UNCHANGED <<id, collectors, logged, todo, lines, file, failed>>
    BY <1>4 DEF WriteIndex
  <2>2. Numbered'
    BY <1>1, <2>1 DEF Numbered
  <2>3. Delivered' /\ SameOrder'
    BY <1>1, <2>1, NothingDelivered DEF BeingAppended
  <2>4. Collected'
    BY <1>1, <2>1 DEF Collected, Alone, Pending, Registered
  <2> QED
    BY <2>2, <2>3, <2>4
<1>5. CASE Insert(j)
  <2>1. /\ pc[j] = "inserting" /\ pc' = [pc EXCEPT ![j] = "running"]
        /\ holder = Nobody
        /\ collectors' = [i \in Registered \cup {id[j]} |->
                             IF i = id[j] THEN j ELSE collectors[i]]
        /\ UNCHANGED <<id, logged, todo, lines, file, failed>>
    BY <1>5 DEF Insert
  <2>2. todo = {}
    BY <2>1 DEF Exclusive
  <2>3. Numbered'
    BY <1>1, <2>1 DEF Numbered
  <2>4. Delivered' /\ SameOrder'
    BY <1>1, <2>1, <2>2, NothingDelivered DEF BeingAppended
  <2>5. /\ Registered' = Registered \cup {id[j]}
        /\ \A i \in Registered' : collectors'[i] = IF i = id[j] THEN j ELSE collectors[i]
    BY <2>1 DEF Registered
  <2>6. ASSUME NEW k \in Jobs, Alone(k)', k \notin failed',
               pc'[k] \notin {"start", "indexed", "inserting"}
        PROVE  /\ pc'[k] # "done" => id'[k] \in Registered' /\ collectors'[id'[k]] = k
               /\ Pending(k)' => OwnUpTo(lines'[k], k, logged'[k] - 1)
               /\ ~Pending(k)' => OwnUpTo(lines'[k], k, logged'[k])
               /\ pc'[k] \in {"forwarding", "deleting", "done"} /\ file'[k] # Torn =>
                      OwnUpTo(file'[k], k, logged'[k])
    <3>1. CASE k = j
      <4>1. logged[j] = 0
        BY <2>1 DEF Numbered
      <4>2. OwnUpTo(lines[j], j, 0)
        BY <4>1, NothingOwn
      <4>3. ~Pending(k)' /\ pc'[k] = "running"
        BY <1>1, <2>1, <3>1 DEF Pending
      <4> QED
        BY <2>1, <2>5, <3>1, <4>1, <4>2, <4>3
    <3>2. CASE k # j
      <4>1. pc'[k] = pc[k] /\ Alone(k) /\ id[k] # id[j]
        BY <1>1, <2>1, <2>6, <3>2 DEF Alone
      <4>2. Pending(k)' <=> Pending(k)
        BY <2>1, <4>1 DEF Pending
      <4> QED
        BY <2>1, <2>5, <2>6, <4>1, <4>2 DEF Collected
    <3> QED
      BY <3>1, <3>2
  <2>7. Collected'
    BY <2>6 DEF Collected
  <2> QED
    BY <2>3, <2>4, <2>7
<1> QED
  BY <1>3, <1>4, <1>5

\* Logging an event makes it pending for all collectors.
LEMMA StoreGathers ==
    ASSUME IInv, Gathered, NEW j \in Jobs, Store(j) \/ BeginDelivery(j)
    PROVE  Gathered'
<1> USE DEF IInv, Gathered, At, Goto
<1>1. /\ pc \in [Jobs -> Places] /\ id \in [Jobs -> Nat]
      /\ lines \in [Jobs -> Seq(Event)] /\ logged \in [Jobs -> 0..NumEvents]
  BY DEF TypeOK
<1>2. CASE Store(j)
  <2>1. /\ pc[j] = "running" /\ pc' = [pc EXCEPT ![j] = "appended"]
        /\ logged' = [logged EXCEPT ![j] = logged[j] + 1]
        /\ UNCHANGED <<id, collectors, todo, lines, file, failed>>
    BY <1>2 DEF Store
  <2>2. /\ logged[j] \in Nat /\ logged'[j] = logged[j] + 1
        /\ \A i \in Jobs \ {j} : logged'[i] = logged[i] /\ pc'[i] = pc[i]
        /\ pc'[j] = "appended"
    BY <1>1, <2>1
  <2>3. Numbered'
    BY <2>1, <2>2 DEF Numbered
  <2>4. SameOrder'
    BY <2>1 DEF SameOrder
  <2>5. ASSUME NEW k \in Jobs, NEW p \in DOMAIN lines[k], NEW e, e = lines[k][p]
        PROVE  /\ e[2] <= logged'[e[1]]
               /\ pc'[e[1]] = "appended" => e[2] < logged'[e[1]]
               /\ pc'[e[1]] = "delivering" /\ e[2] = logged'[e[1]] =>
                     p = Len(lines[k]) /\ ~BeingAppended(k)'
    <3>1. e \in Event
      BY <1>1, <2>5
    <3>2. e[1] \in Jobs /\ e[2] \in Nat
      BY <3>1 DEF Event
    <3>3. /\ e[2] <= logged[e[1]]
          /\ pc[e[1]] = "appended" => e[2] < logged[e[1]]
          /\ pc[e[1]] = "delivering" /\ e[2] = logged[e[1]] =>
                 p = Len(lines[k]) /\ ~BeingAppended(k)
      BY <2>5 DEF Delivered
    <3>4. BeingAppended(k)' = BeingAppended(k)
      BY <2>1 DEF BeingAppended
    <3>5. CASE e[1] = j
      BY <2>2, <3>2, <3>3, <3>5
    <3>6. CASE e[1] # j
      BY <2>2, <3>2, <3>3, <3>4, <3>6
    <3> QED
      BY <3>5, <3>6
  <2>6. Delivered'
    BY <2>1, <2>5 DEF Delivered
  <2>7. ASSUME NEW k \in Jobs, Alone(k), k \notin failed,
               pc'[k] \notin {"start", "indexed", "inserting"}
        PROVE  /\ pc'[k] # "done" => id[k] \in Registered /\ collectors[id[k]] = k
               /\ Pending(k)' => OwnUpTo(lines[k], k, logged'[k] - 1)
               /\ ~Pending(k)' => OwnUpTo(lines[k], k, logged'[k])
               /\ pc'[k] \in {"forwarding", "deleting", "done"} /\ file[k] # Torn =>
                      OwnUpTo(file[k], k, logged'[k])
    <3>1. CASE k = j
      <4>1. Pending(k)' /\ ~Pending(k)
        BY <2>1, <2>2, <3>1 DEF Pending
      <4>2. logged'[k] - 1 = logged[k]
        BY <2>2, <3>1
      <4>3. /\ id[k] \in Registered /\ collectors[id[k]] = k
            /\ OwnUpTo(lines[k], k, logged[k])
        BY <2>1, <2>7, <3>1, <4>1 DEF Collected
      <4> QED
        BY <2>2, <3>1, <4>1, <4>2, <4>3
    <3>2. CASE k # j
      <4>1. Pending(k)' <=> Pending(k)
        BY <2>1, <2>2, <3>2 DEF Pending
      <4> QED
        BY <2>2, <2>7, <3>2, <4>1 DEF Collected
    <3> QED
      BY <3>1, <3>2
  <2>8. Collected'
    BY <2>1, <2>7 DEF Collected, Alone, Registered
  <2> QED
    BY <2>3, <2>4, <2>6, <2>8
<1>3. CASE BeginDelivery(j)
  <2>1. /\ pc[j] = "appended" /\ pc' = [pc EXCEPT ![j] = "delivering"]
        /\ holder = Nobody /\ todo' = Registered
        /\ UNCHANGED <<id, collectors, logged, lines, file, failed>>
    BY <1>3 DEF BeginDelivery
  <2>2. /\ \A i \in Jobs \ {j} : pc'[i] = pc[i] /\ pc'[i] # "delivering"
        /\ pc'[j] = "delivering"
    BY <1>1, <2>1, NobodyAssumption DEF Exclusive
  <2>3. Numbered' /\ SameOrder'
    BY <1>1, <2>1, <2>2 DEF Numbered, SameOrder
  <2>4. ASSUME NEW k \in Jobs, NEW p \in DOMAIN lines[k], NEW e, e = lines[k][p]
        PROVE  /\ e[2] <= logged[e[1]]
               /\ pc'[e[1]] = "appended" => e[2] < logged[e[1]]
               /\ pc'[e[1]] = "delivering" => e[2] # logged[e[1]]
    <3>1. e \in Event
      BY <1>1, <2>4
    <3>2. e[1] \in Jobs /\ e[2] \in Nat /\ logged[e[1]] \in Nat
      BY <1>1, <3>1 DEF Event
    <3>3. /\ e[2] <= logged[e[1]]
          /\ pc[e[1]] = "appended" => e[2] < logged[e[1]]
      BY <2>4 DEF Delivered
    <3> QED
      BY <2>1, <2>2, <3>2, <3>3
  <2>5. Delivered'
    BY <2>1, <2>4 DEF Delivered
  <2>6. ASSUME NEW k \in Jobs, Alone(k), k \notin failed,
               pc'[k] \notin {"start", "indexed", "inserting"}
        PROVE  /\ pc'[k] # "done" => id[k] \in Registered /\ collectors[id[k]] = k
               /\ Pending(k)' => OwnUpTo(lines[k], k, logged[k] - 1)
               /\ ~Pending(k)' => OwnUpTo(lines[k], k, logged[k])
               /\ pc'[k] \in {"forwarding", "deleting", "done"} /\ file[k] # Torn =>
                      OwnUpTo(file[k], k, logged[k])
    <3>1. CASE k = j
      <4>1. id[k] \in Registered
        BY <2>1, <2>6, <3>1 DEF Collected
      <4>2. Pending(k)' /\ Pending(k)
        BY <2>1, <2>2, <3>1, <4>1 DEF Pending
      <4> QED
        BY <2>1, <2>2, <2>6, <3>1, <4>2 DEF Collected
    <3>2. CASE k # j
      <4>1. Pending(k)' <=> Pending(k)
        BY <2>2, <3>2 DEF Pending
      <4> QED
        BY <2>2, <2>6, <3>2, <4>1 DEF Collected
    <3> QED
      BY <3>1, <3>2
  <2>7. Collected'
    BY <2>1, <2>6 DEF Collected, Alone, Registered
  <2> QED
    BY <2>3, <2>5, <2>7
<1> QED
  BY <1>2, <1>3

\* Visiting a collector appends the event to its lines, for the first time and
\* as the last one.
LEMMA VisitGathers ==
    ASSUME IInv, Gathered, NEW j \in Jobs, Visit(j)
    PROVE  Gathered'
<1> USE DEF IInv, Gathered, At, Goto
<1> DEFINE last == <<j, logged[j]>>
<1>1. /\ pc \in [Jobs -> Places] /\ id \in [Jobs -> Nat]
      /\ lines \in [Jobs -> Seq(Event)] /\ logged \in [Jobs -> 0..NumEvents]
  BY DEF TypeOK
<1>2. PICK i \in todo :
          /\ lines' = [lines EXCEPT ![collectors[i]] = Append(@, last)]
          /\ todo' = todo \ {i}
  BY DEF Visit
<1>3. /\ pc[j] = "delivering"
      /\ UNCHANGED <<pc, id, collectors, logged, file, failed>>
  BY DEF Visit
<1> DEFINE m == collectors[i]
<1>4. /\ m \in Jobs /\ id[m] = i
      /\ last \in Event /\ last[1] = j /\ last[2] = logged[j]
      /\ \A n \in todo : collectors[n] \in Jobs /\ id[collectors[n]] = n
  BY <1>3 DEF TypeOK, Owned, Counted, Event
<1>5. /\ lines[m] \in Seq(Event)
      /\ lines'[m] = Append(lines[m], last)
      /\ \A k \in Jobs \ {m} : lines'[k] = lines[k]
  BY <1>1, <1>2, <1>4
<1> HIDE DEF m, last
<1>6. BeingAppended(m) /\ \A n \in todo' : collectors'[n] # m
  BY <1>2, <1>3, <1>4 DEF BeingAppended, m
<1>7. \A k \in Jobs : BeingAppended(k)' => BeingAppended(k)
  BY <1>2, <1>3 DEF BeingAppended
<1>8. \A n \in Jobs : pc[n] = "delivering" => n = j
  BY <1>3 DEF Exclusive
<1>9. ASSUME NEW k \in Jobs, NEW p \in DOMAIN lines[k], lines[k][p] = last
      PROVE  p = Len(lines[k]) /\ k # m
  <2>1. ~BeingAppended(k)
    BY <1>3, <1>4, <1>9 DEF Delivered
  <2>2. k # m
    BY <1>6, <2>1
  <2> QED
    BY <1>3, <1>4, <1>9, <2>2 DEF Delivered
<1>10. /\ Len(lines[m]) \in Nat /\ DOMAIN lines[m] = 1..Len(lines[m])
       /\ Len(lines'[m]) = Len(lines[m]) + 1
       /\ DOMAIN lines'[m] = 1..(Len(lines[m]) + 1)
       /\ lines'[m][Len(lines[m]) + 1] = last
       /\ \A p \in 1..Len(lines[m]) : lines'[m][p] = lines[m][p]
  BY <1>4, <1>5
<1>11. Numbered'
  BY <1>3 DEF Numbered
<1>12. Delivered'
  <2> SUFFICES ASSUME NEW k \in Jobs, NEW p \in DOMAIN lines'[k], NEW e, e = lines'[k][p]
               PROVE  /\ e[2] <= logged[e[1]]
                      /\ pc[e[1]] = "appended" => e[2] < logged[e[1]]
                      /\ pc[e[1]] = "delivering" /\ e[2] = logged[e[1]] =>
                            p = Len(lines'[k]) /\ ~BeingAppended(k)'
    BY <1>3 DEF Delivered
  <2>1. CASE k = m /\ p = Len(lines[m]) + 1
    <3>1. e[1] = j /\ e[2] = logged[j]
      BY <1>4, <1>10, <2>1
    <3>2. logged[j] \in Nat
      BY <1>1
    <3>3. ~BeingAppended(k)'
      BY <1>6, <2>1 DEF BeingAppended
    <3>4. p = Len(lines'[k])
      BY <1>10, <2>1
    <3> QED
      BY <1>3, <3>1, <3>2, <3>3, <3>4
  <2>2. CASE ~(k = m /\ p = Len(lines[m]) + 1)
    <3>1. p \in DOMAIN lines[k] /\ e = lines[k][p]
      BY <1>5, <1>10, <2>2
    <3>2. /\ e[2] <= logged[e[1]]
          /\ pc[e[1]] = "appended" => e[2] < logged[e[1]]
          /\ pc[e[1]] = "delivering" /\ e[2] = logged[e[1]] =>
                 p = Len(lines[k]) /\ ~BeingAppended(k)
      BY <3>1 DEF Delivered
    <3>3. CASE k = m
      BY <1>6, <3>2, <3>3
    <3>4. CASE k # m
      BY <1>5, <1>7, <3>2, <3>4
    <3> QED
      BY <3>3, <3>4
  <2> QED
    BY <2>1, <2>2
<1>13. SameOrder'
  <2> SUFFICES ASSUME NEW k \in Jobs, NEW n \in Jobs,
                      NEW a \in DOMAIN lines'[k], NEW b \in DOMAIN lines'[k],
                      NEW c \in DOMAIN lines'[n], NEW d \in DOMAIN lines'[n],
                      lines'[k][a] = lines'[n][c], lines'[k][b] = lines'[n][d]
               PROVE  a < b <=> c < d
    BY DEF SameOrder
  <2>1. \A x \in Jobs : /\ DOMAIN lines[x] = 1..Len(lines[x])
                        /\ DOMAIN lines'[x] = 1..Len(lines'[x])
                        /\ Len(lines[x]) \in Nat /\ Len(lines'[x]) \in Nat
    <3> SUFFICES ASSUME NEW x \in Jobs
                 PROVE  /\ DOMAIN lines[x] = 1..Len(lines[x])
                        /\ DOMAIN lines'[x] = 1..Len(lines'[x])
                        /\ Len(lines[x]) \in Nat /\ Len(lines'[x]) \in Nat
      OBVIOUS
    <3>1. lines[x] \in Seq(Event)
      BY <1>1
    <3>2. CASE x = m
      BY <1>10, <3>1, <3>2
    <3>3. CASE x # m
      BY <1>5, <3>1, <3>3
    <3> QED
      BY <3>2, <3>3
  <2>2. ASSUME NEW x \in Jobs, NEW p \in DOMAIN lines'[x]
        PROVE  \/ lines'[x][p] = last /\ p = Len(lines'[x])
               \/ lines'[x][p] # last /\ p \in DOMAIN lines[x] /\ lines'[x][p] = lines[x][p]
    <3>1. CASE p \in DOMAIN lines[x] /\ lines'[x][p] = lines[x][p]
      BY <1>5, <1>9, <3>1
    <3>2. CASE x = m /\ p = Len(lines[m]) + 1
      BY <1>10, <3>2
    <3>3. CASE x = m /\ p # Len(lines[m]) + 1
      <4>1. p \in 1..Len(lines[m])
        BY <1>10, <3>3
      <4> QED
        BY <1>10, <3>1, <3>3, <4>1
    <3>4. CASE x # m
      BY <1>5, <3>1, <3>4
    <3> QED
      BY <3>2, <3>3, <3>4
  <2>3. CASE lines'[k][a] = last \/ lines'[k][b] = last
    <3>1. \A x \in Jobs : \A p, q \in DOMAIN lines'[x] :
              p \in Int /\ q \in Int /\ (lines'[x][p] = last => ~(p < q))
      BY <2>1, <2>2
    <3>2. \A x \in Jobs : \A p, q \in DOMAIN lines'[x] :
              lines'[x][p] # last /\ lines'[x][q] = last => p < q
      <4> SUFFICES ASSUME NEW x \in Jobs, NEW p \in DOMAIN lines'[x], NEW q \in DOMAIN lines'[x],
                          lines'[x][p] # last, lines'[x][q] = last
                   PROVE  p < q
        OBVIOUS
      <4>1. q = Len(lines'[x]) /\ p # q /\ p \in 1..Len(lines'[x])
        BY <2>1, <2>2
      <4> QED
        BY <2>1, <4>1
    <3> QED
      BY <2>3, <3>1, <3>2
  <2>4. CASE lines'[k][a] # last /\ lines'[k][b] # last
    <3>1. /\ a \in DOMAIN lines[k] /\ b \in DOMAIN lines[k]
          /\ c \in DOMAIN lines[n] /\ d \in DOMAIN lines[n]
          /\ lines[k][a] = lines[n][c] /\ lines[k][b] = lines[n][d]
      BY <2>2, <2>4
    <3> QED
      BY <3>1 DEF SameOrder
  <2> QED
    BY <2>3, <2>4
<1>14. ASSUME NEW k \in Jobs, Alone(k), k \notin failed,
              pc[k] \notin {"start", "indexed", "inserting"}
       PROVE  /\ pc[k] # "done" => id[k] \in Registered /\ collectors[id[k]] = k
              /\ Pending(k)' => OwnUpTo(lines'[k], k, logged[k] - 1)
              /\ ~Pending(k)' => OwnUpTo(lines'[k], k, logged[k])
              /\ pc[k] \in {"forwarding", "deleting", "done"} /\ file[k] # Torn =>
                     OwnUpTo(file[k], k, logged[k])
  <2>1. /\ pc[k] # "done" => id[k] \in Registered /\ collectors[id[k]] = k
        /\ Pending(k) => OwnUpTo(lines[k], k, logged[k] - 1)
        /\ ~Pending(k) => OwnUpTo(lines[k], k, logged[k])
        /\ pc[k] \in {"forwarding", "deleting", "done"} /\ file[k] # Torn =>
               OwnUpTo(file[k], k, logged[k])
    BY <1>14 DEF Collected
  <2>2. CASE k # m
    <3>1. id[k] # i \/ pc[k] # "delivering"
      BY <2>1, <2>2 DEF m
    <3>2. Pending(k)' <=> Pending(k)
      BY <1>2, <1>3, <3>1 DEF Pending
    <3> QED
      BY <1>5, <2>1, <2>2, <3>2
  <2>3. CASE k = m /\ k # j
    <3>1. pc[k] # "delivering"
      BY <1>8, <2>3
    <3>2. Pending(k)' <=> Pending(k)
      BY <1>3, <3>1 DEF Pending
    <3>3. logged[k] \in Nat
      BY <1>1
    <3>4. pc[k] = "appended" => logged[k] - 1 \in Nat
      BY DEF Counted
    <3>5. Pending(k) => logged[k] - 1 \in Nat
      BY <3>1, <3>4 DEF Pending
    <3>6. last[1] # k
      BY <1>4, <2>3
    <3>7. /\ Pending(k) => OwnUpTo(lines'[k], k, logged[k] - 1)
          /\ ~Pending(k) => OwnUpTo(lines'[k], k, logged[k])
      <4>1. ASSUME NEW n \in Nat, OwnUpTo(lines[k], k, n)
            PROVE  OwnUpTo(lines'[k], k, n)
        <5>1. lines[k] \in Seq(Event) /\ last \in Event
          BY <1>1, <1>4
        <5> HIDE DEF last, IInv, Gathered
        <5>2. OwnUpTo(Append(lines[k], last), k, n)
          BY <3>6, <4>1, <5>1, OtherAppended
        <5>3. lines'[k] = Append(lines[k], last)
          BY <1>5, <2>3
        <5> QED
          BY <5>2, <5>3, Zenon
      <4> QED
        BY <2>1, <3>3, <3>5, <4>1
    <3> QED
      BY <2>1, <3>2, <3>7
  <2>4. CASE k = m /\ k = j
    <3>1. Pending(k) /\ ~Pending(k)'
      BY <1>2, <1>3, <1>4, <2>4 DEF Pending
    <3>2. logged[k] \in Nat /\ logged[k] >= 1
      BY <1>3, <2>4 DEF Counted
    <3>3. OwnUpTo(lines[k], k, logged[k] - 1)
      BY <2>1, <3>1
    <3>4. OwnUpTo(Append(lines[k], <<k, logged[k]>>), k, logged[k])
      BY <1>5, <2>4, <3>2, <3>3, OwnAppended
    <3>5. OwnUpTo(lines'[k], k, logged[k])
      BY <1>5, <2>4, <3>4 DEF last
    <3> QED
      BY <2>1, <3>1, <3>5
  <2> QED
    BY <2>2, <2>3, <2>4
<1>15. Collected'
  BY <1>3, <1>14 DEF Collected, Alone, Registered
<1> QED
  BY <1>11, <1>12, <1>13, <1>15

\* A delivery that is complete has reached the collector of its own job.
LEMMA DeliveryEndGathers ==
    ASSUME IInv, Gathered, NEW j \in Jobs, VisitFails(j) \/ EndDelivery(j) \/ Finish(j)
    PROVE  Gathered'
<1> USE DEF IInv, Gathered, At, Goto
<1>1. /\ pc \in [Jobs -> Places] /\ id \in [Jobs -> Nat]
      /\ lines \in [Jobs -> Seq(Event)] /\ logged \in [Jobs -> 0..NumEvents]
  BY DEF TypeOK
<1>2. PICK place \in {"closing", "running"} : pc' = [pc EXCEPT ![j] = place]
  BY DEF VisitFails, EndDelivery, Finish
<1>3. /\ UNCHANGED <<id, collectors, logged, lines, file>>
      /\ failed \subseteq failed' /\ todo' \subseteq todo
  BY DEF VisitFails, EndDelivery, Finish
<1>4. /\ pc[j] \in {"delivering", "running"} /\ pc'[j] \in {"closing", "running"}
      /\ \A k \in Jobs \ {j} : pc'[k] = pc[k]
  BY <1>1, <1>2 DEF VisitFails, EndDelivery, Finish
<1>5. pc[j] = "delivering" => j \in failed' \/ todo = {}
  BY DEF VisitFails, EndDelivery, Finish
<1>6. \A k \in Jobs \ {j} : pc[k] = "delivering" => todo' = todo
  BY <1>4 DEF VisitFails, EndDelivery, Finish, Exclusive
<1>7. Numbered'
  BY <1>3, <1>4 DEF Numbered
<1>8. Delivered' /\ SameOrder'
  <2>1. \A k \in Jobs : BeingAppended(k)' => BeingAppended(k)
    BY <1>3 DEF BeingAppended
  <2> QED
    BY <1>3, <1>4, <2>1, NothingDelivered
<1>9. ASSUME NEW k \in Jobs, Alone(k), k \notin failed',
             pc'[k] \notin {"start", "indexed", "inserting"}
      PROVE  /\ pc'[k] # "done" => id[k] \in Registered /\ collectors[id[k]] = k
             /\ Pending(k)' => OwnUpTo(lines[k], k, logged[k] - 1)
             /\ ~Pending(k)' => OwnUpTo(lines[k], k, logged[k])
             /\ pc'[k] \in {"forwarding", "deleting", "done"} /\ file[k] # Torn =>
                    OwnUpTo(file[k], k, logged[k])
  <2>1. Pending(k)' <=> Pending(k)
    BY <1>3, <1>4, <1>5, <1>6, <1>9 DEF Pending
  <2> QED
    BY <1>3, <1>4, <1>9, <2>1 DEF Collected
<1>10. Collected'
  BY <1>3, <1>9 DEF Collected, Alone, Registered
<1> QED
  BY <1>7, <1>8, <1>10

\* The file gets what has been collected, unless it is written while the
\* collector is appended to; deleting a collector concerns no other index.
LEMMA UnregisterGathers ==
    ASSUME IInv, Gathered, NEW j \in Jobs, WriteFile(j) \/ Forward(j) \/ Delete(j)
    PROVE  Gathered'
<1> USE DEF IInv, Gathered, At, Goto
<1>1. /\ pc \in [Jobs -> Places] /\ id \in [Jobs -> Nat]
      /\ lines \in [Jobs -> Seq(Event)] /\ logged \in [Jobs -> 0..NumEvents]
  BY DEF TypeOK
<1>2. PICK place \in {"forwarding", "deleting", "done"} : pc' = [pc EXCEPT ![j] = place]
  BY DEF WriteFile, Forward, Delete
<1>3. /\ UNCHANGED <<id, logged, lines, failed, todo>>
      /\ pc[j] \in {"closing", "forwarding", "deleting"}
  BY DEF WriteFile, Forward, Delete
<1>4. /\ pc'[j] = place
      /\ \A k \in Jobs \ {j} : pc'[k] = pc[k]
  BY <1>1, <1>2
<1>5. \A k \in Jobs : file'[k] \in {file[k], Torn}
                      \/ (k = j /\ pc[j] = "closing" /\ file'[k] = lines[k])
  <2>1. CASE WriteFile(j)
    <3>1. PICK content \in {lines[j], Torn} : file' = [file EXCEPT ![j] = content]
      BY <2>1 DEF WriteFile
    <3>2. \A k \in Jobs : file'[k] \in {file[k], content} /\ (k # j => file'[k] = file[k])
      BY <3>1
    <3> QED
      BY <2>1, <3>2 DEF WriteFile
  <2>2. CASE Forward(j) \/ Delete(j)
    BY <2>2 DEF Forward, Delete
  <2> QED
    BY <2>1, <2>2
<1>6. \/ UNCHANGED collectors
      \/ /\ place = "done"
         /\ todo = {}
         /\ Registered' = Registered \ {id[j]}
         /\ \A i \in Registered' : collectors'[i] = collectors[i]
  <2>1. CASE WriteFile(j) \/ Forward(j)
    BY <2>1 DEF WriteFile, Forward
  <2>2. CASE Delete(j)
    <3>1. collectors' = [i \in Registered \ {id[j]} |-> collectors[i]]
      BY <2>2 DEF Delete, Restrict
    <3>2. todo = {}
      BY <2>2 DEF Delete, Exclusive
    <3>3. pc'[j] = "done"
      BY <1>1, <2>2 DEF Delete
    <3> QED
      BY <1>4, <3>1, <3>2, <3>3 DEF Registered
  <2> QED
    BY <2>1, <2>2
<1>7. Numbered'
  BY <1>3, <1>4 DEF Numbered
<1>8. Delivered' /\ SameOrder'
  <2>1. \A k \in Jobs : BeingAppended(k)' => BeingAppended(k)
    BY <1>3, <1>6 DEF BeingAppended
  <2> QED
    BY <1>3, <1>4, <2>1, NothingDelivered
<1>9. ASSUME NEW k \in Jobs, Alone(k), k \notin failed,
             pc'[k] \notin {"start", "indexed", "inserting"}
      PROVE  /\ pc'[k] # "done" => id[k] \in Registered' /\ collectors'[id[k]] = k
             /\ Pending(k)' => OwnUpTo(lines[k], k, logged[k] - 1)
             /\ ~Pending(k)' => OwnUpTo(lines[k], k, logged[k])
             /\ pc'[k] \in {"forwarding", "deleting", "done"} /\ file'[k] # Torn =>
                    OwnUpTo(file'[k], k, logged[k])
  <2>1. Pending(k)' <=> Pending(k)
    BY <1>3, <1>4 DEF Pending
  <2>2. /\ pc[k] # "done" => id[k] \in Registered /\ collectors[id[k]] = k
        /\ Pending(k) => OwnUpTo(lines[k], k, logged[k] - 1)
        /\ ~Pending(k) => OwnUpTo(lines[k], k, logged[k])
        /\ pc[k] \in {"forwarding", "deleting", "done"} /\ file[k] # Torn =>
               OwnUpTo(file[k], k, logged[k])
    BY <1>3, <1>4, <1>9 DEF Collected
  <2>3. k # j => id[k] # id[j]
    BY <1>9 DEF Alone
  <2>4. pc'[k] # "done" => id[k] \in Registered' /\ collectors'[id[k]] = k
    <3>1. CASE UNCHANGED collectors
      BY <1>3, <1>4, <2>2, <3>1 DEF Registered
    <3>2. CASE ~UNCHANGED collectors
      BY <1>4, <1>6, <2>2, <2>3, <3>2
    <3> QED
      BY <3>1, <3>2
  <2>5. pc'[k] \in {"forwarding", "deleting", "done"} /\ file'[k] # Torn =>
            OwnUpTo(file'[k], k, logged[k])
    <3>1. CASE k = j /\ pc[j] = "closing"
      <4>1. ~Pending(k)
        BY <3>1 DEF Pending
      <4>2. file'[k] = lines[k] \/ file'[k] = Torn \/ file'[k] = file[k]
        BY <1>5
      <4>3. file'[k] = lines[k] \/ file'[k] = Torn
        BY <1>1, <3>1 DEF WriteFile, Forward, Delete, TypeOK
      <4> QED
        BY <2>2, <4>1, <4>3
    <3>2. CASE ~(k = j /\ pc[j] = "closing")
      BY <1>3, <1>4, <1>5, <2>2, <3>2
    <3> QED
      BY <3>1, <3>2
  <2> QED
    BY <2>1, <2>2, <2>4, <2>5
<1>10. Collected'
  BY <1>3, <1>9 DEF Collected, Alone
<1> QED
  BY <1>7, <1>8, <1>10

LEMMA InitGathers == Init => Gathered
<1> SUFFICES ASSUME Init PROVE Gathered
  OBVIOUS
<1>1. Numbered
  BY DEF Init, Numbered
<1>2. Delivered /\ SameOrder
  BY DEF Init, Delivered, SameOrder
<1>3. Collected
  BY DEF Init, Collected
<1> QED
  BY <1>1, <1>2, <1>3 DEF Gathered

LEMMA NextGathers == IInv /\ Gathered /\ [Next]_vars => Gathered'
<1> SUFFICES ASSUME IInv, Gathered, [Next]_vars PROVE Gathered'
  OBVIOUS
<1>1. ASSUME UNCHANGED <<pc, id, collectors, logged, todo, lines, file, failed>>
      PROVE  Gathered'
  <2>1. Numbered' /\ SameOrder'
    BY <1>1 DEF Gathered, Numbered, SameOrder
  <2>2. Delivered'
    BY <1>1, NothingDelivered DEF Gathered, BeingAppended
  <2>3. Collected'
    BY <1>1 DEF Gathered, Collected, Alone, Pending, Registered
  <2> QED
    BY <2>1, <2>2, <2>3 DEF Gathered
<1>2. ASSUME NEW j \in Jobs, Step(j) PROVE Gathered'
  BY <1>2, RegisterGathers, StoreGathers, VisitGathers, DeliveryEndGathers, UnregisterGathers
     DEF Step
<1>3. ASSUME NEW j \in Jobs, Panic(j) \/ MapRace(j) PROVE Gathered'
  BY <1>1, <1>3 DEF Panic, MapRace
<1> QED
  BY <1>1, <1>2, <1>3 DEF Next, Stop, vars

LEMMA GatheringInvariance == Spec => [](IInv /\ Gathered)
BY InitHolds, InitGathers, NextKeeps, NextGathers, PTL DEF Spec

-------------------------------------------------------------------------------
(* Theorems *)

\* The types of the logger's state: no delivery in progress has an index to
\* visit that was unregistered meanwhile (log.go:128-146 and 157-161).
THEOREM TypeCorrect == Spec => []TypeOK
<1>1. IInv => TypeOK
  BY DEF IInv
<1> QED
  BY <1>1, Invariance, PTL

\* When all jobs have ended there is no collector, although registrations that
\* race may share an index (log.go:149).
THEOREM NoCollectorLeftAlways == Spec => []NoCollectorLeft
<1>1. IInv => NoCollectorLeft
  BY DEF IInv, Owned, AllDone, NoCollectorLeft
<1> QED
  BY <1>1, Invariance, PTL

\* Two collectors gather the events they share in one order, and none twice,
\* because append holds collectorsMutex during a delivery (log.go:128-146); the
\* indexes may collide and deliveries fail half-way.
THEOREM SameOrderAlways == Spec => []SameOrder
<1>1. IInv /\ Gathered => SameOrder
  BY DEF Gathered
<1> QED
  BY <1>1, GatheringInvariance, PTL

\* The log file of a job whose index is its own has each event the job logged,
\* in the order it logged them, whatever other jobs register, log, delete or
\* fail at (log.go:149-163).
THEOREM CollectsOwnEventsIfAloneAlways == Spec => []CollectsOwnEventsIfAlone
<1>1. ASSUME IInv, Gathered PROVE CollectsOwnEventsIfAlone
  <2> SUFFICES ASSUME NEW j \in Jobs, pc[j] = "done", j \notin failed, file[j] # Torn, Alone(j)
               PROVE  OwnEvents(file[j], j)
    BY DEF CollectsOwnEventsIfAlone
  <2>1. OwnUpTo(file[j], j, logged[j])
    BY <1>1 DEF Gathered, Collected
  <2> QED
    BY <2>1 DEF OwnEvents, OwnUpTo
<1> QED
  BY <1>1, GatheringInvariance, PTL
===============================================================================
