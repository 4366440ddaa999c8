------------------------- MODULE EventSourcingProofs -------------------------
(***************************************************************************)
(* The repository and the projections, for any number of aggregates,       *)
(* writers, events, faults and projections and any snapshot interval, for  *)
(* callers that drop an aggregate whose save() failed.                     *)
(*                                                                         *)
(* The argument about the repository: the version of an event is its place *)
(* in its stream (StreamInv).  An aggregate in memory is a prefix of its   *)
(* stream followed by its buffer, whatever was appended since (HeldInv),   *)
(* so the version that append() compares tells whether that prefix still   *)
(* is the whole stream; and a snapshot is such a prefix (SnapInv).  The    *)
(* buffered events are in no stream and no other buffer (FreshInv).        *)
(*                                                                         *)
(* The argument about the projections: an event that a caller has fetched  *)
(* follows, among the events that concern the caller, only events that     *)
(* every projection has or that the caller has fetched too (PageInv).      *)
(***************************************************************************)
EXTENDS Projections, FiniteSetTheorems, SequenceTheorems, TLAPS

LOCAL INSTANCE SequencesExt

Event == [id : EventIds, version : Versions]
Root == [agg : Aggregates, version : Versions, state : Seq(EventIds), uncommitted : Seq(Event)]

\* The version of an event is its place; numbers are given in order.
StreamInv ==
  \A a \in Aggregates : \A i \in 1..Len(streams[a]) :
    /\ streams[a][i].version = i
    /\ i <= streams[a][i].id /\ streams[a][i].id <= raised

\* An aggregate in memory: a prefix of its stream, then its buffer.
Faithful(m, label) ==
  /\ m.version = Len(m.state) /\ Len(m.uncommitted) <= m.version
  /\ m.version - Len(m.uncommitted) <= Len(streams[m.agg])
  /\ \A i \in 1..(m.version - Len(m.uncommitted)) : m.state[i] = streams[m.agg][i].id
  /\ \A i \in 1..Len(m.uncommitted) :
       /\ m.uncommitted[i].version = m.version - Len(m.uncommitted) + i
       /\ m.uncommitted[i].id = m.state[m.version - Len(m.uncommitted) + i]
  /\ \A i \in 1..Len(m.state) : i <= m.state[i] /\ m.state[i] <= raised
  /\ label \in {"loading", "snapshot"} => Len(m.uncommitted) = 0
  /\ label = "snapshot" => m.version > 0

HeldInv ==
  \A w \in Writers :
    IF pc[w] = "idle" THEN Len(mem[w].uncommitted) = 0 ELSE Faithful(mem[w], pc[w])

\* Buffered events are new to every stream and to every other buffer.
FreshInv ==
  /\ \A w \in Writers : \A i \in 1..Len(mem[w].uncommitted) :
       /\ mem[w].uncommitted[i].id <= raised
       /\ \A b \in Aggregates : \A j \in 1..Len(streams[b]) :
            streams[b][j].id # mem[w].uncommitted[i].id
  /\ \A w, v \in Writers : w # v =>
       \A i \in 1..Len(mem[w].uncommitted) : \A j \in 1..Len(mem[v].uncommitted) :
         mem[w].uncommitted[i].id # mem[v].uncommitted[j].id

\* A snapshot: a prefix of the stream.
SnapInv ==
  \A a \in Aggregates : snapshots[a] # None =>
    /\ snapshots[a].version > 0
    /\ snapshots[a].version = Len(snapshots[a].payload)
    /\ snapshots[a].version <= Len(streams[a])
    /\ \A i \in 1..snapshots[a].version : snapshots[a].payload[i] = streams[a][i].id

RInv == RepoTypeOK /\ StreamInv /\ HeldInv /\ FreshInv /\ SnapInv

USE RepositoryAssumption

\* The types, taken apart.
LEMMA TypeFact ==
  ASSUME RepoTypeOK
  PROVE  /\ raised \in 0..MaxEvents /\ MaxEvents \in Nat
         /\ \A w \in Writers :
              /\ mem[w] \in Root /\ mem[w].agg \in Aggregates /\ mem[w].version \in Nat
              /\ mem[w].state \in Seq(EventIds) /\ Len(mem[w].state) \in Nat
              /\ mem[w].uncommitted \in Seq(Event) /\ Len(mem[w].uncommitted) \in Nat
              /\ \A i \in 1..Len(mem[w].state) : mem[w].state[i] \in Nat
              /\ \A i \in 1..Len(mem[w].uncommitted) :
                   mem[w].uncommitted[i] \in Event /\ mem[w].uncommitted[i].id \in Nat
         /\ \A a \in Aggregates :
              /\ streams[a] \in Seq(Event) /\ Len(streams[a]) \in Nat
              /\ DOMAIN streams[a] = 1..Len(streams[a])
              /\ \A i \in 1..Len(streams[a]) :
                   /\ streams[a][i] \in Event
                   /\ streams[a][i].id \in Nat /\ streams[a][i].version \in Nat
<1>1. raised \in 0..MaxEvents /\ MaxEvents \in Nat
  BY DEF RepoTypeOK
<1>2. \A e \in Event : e.id \in Nat /\ e.version \in Nat
  BY <1>1 DEF Event, EventIds, Versions
<1>3. ASSUME NEW w \in Writers
      PROVE  /\ mem[w] \in Root /\ mem[w].agg \in Aggregates /\ mem[w].version \in Nat
             /\ mem[w].state \in Seq(EventIds) /\ Len(mem[w].state) \in Nat
             /\ mem[w].uncommitted \in Seq(Event) /\ Len(mem[w].uncommitted) \in Nat
             /\ \A i \in 1..Len(mem[w].state) : mem[w].state[i] \in Nat
             /\ \A i \in 1..Len(mem[w].uncommitted) :
                  mem[w].uncommitted[i] \in Event /\ mem[w].uncommitted[i].id \in Nat
  <2>1. mem[w] \in Root
    BY DEF RepoTypeOK, Root, Event
  <2>2. /\ mem[w].agg \in Aggregates /\ mem[w].version \in Nat
        /\ mem[w].state \in Seq(EventIds) /\ mem[w].uncommitted \in Seq(Event)
    BY <1>1, <2>1 DEF Root, Versions
  <2>3. Len(mem[w].state) \in Nat /\ Len(mem[w].uncommitted) \in Nat
    BY <2>2, LenProperties
  <2>4. \A i \in 1..Len(mem[w].state) : mem[w].state[i] \in EventIds
    BY <2>2, ElementOfSeq
  <2>5. \A i \in 1..Len(mem[w].uncommitted) : mem[w].uncommitted[i] \in Event
    BY <2>2, ElementOfSeq
  <2>6. EventIds \subseteq Nat
    BY <1>1 DEF EventIds
  <2> QED
    BY <1>2, <2>1, <2>2, <2>3, <2>4, <2>5, <2>6
<1>4. ASSUME NEW a \in Aggregates
      PROVE  /\ streams[a] \in Seq(Event) /\ Len(streams[a]) \in Nat
             /\ DOMAIN streams[a] = 1..Len(streams[a])
             /\ \A i \in 1..Len(streams[a]) :
                  /\ streams[a][i] \in Event
                  /\ streams[a][i].id \in Nat /\ streams[a][i].version \in Nat
  <2>1. streams[a] \in Seq(Event)
    BY DEF RepoTypeOK, Event
  <2>2. /\ Len(streams[a]) \in Nat /\ DOMAIN streams[a] = 1..Len(streams[a])
        /\ \A i \in 1..Len(streams[a]) : streams[a][i] \in Event
    BY <2>1, LenProperties, ElementOfSeq
  <2> QED
    BY <1>2, <2>1, <2>2
<1> QED
  BY <1>1, <1>3, <1>4

\* The ids of a sequence of events.
LEMMA IdsFact ==
  ASSUME NEW s \in Seq(Event)
  PROVE  /\ Ids(s) \in Seq(EventIds) /\ Len(Ids(s)) = Len(s)
         /\ \A i \in 1..Len(s) : Ids(s)[i] = s[i].id
<1>1. Len(s) \in Nat /\ DOMAIN s = 1..Len(s) /\ \A i \in 1..Len(s) : s[i] \in Event
  BY LenProperties, ElementOfSeq
<1>2. \A i \in 1..Len(s) : s[i].id \in EventIds
  BY <1>1 DEF Event
<1>3. Ids(s) \in [1..Len(s) -> EventIds] /\ \A i \in 1..Len(s) : Ids(s)[i] = s[i].id
  BY <1>1, <1>2 DEF Ids
<1>4. Ids(s) \in Seq(EventIds)
  BY <1>1, <1>3, SeqDef
<1>5. DOMAIN Ids(s) = 1..Len(s) /\ DOMAIN Ids(s) = 1..Len(Ids(s)) /\ Len(Ids(s)) \in Nat
  BY <1>3, <1>4, LenProperties
<1>6. Len(Ids(s)) = Len(s)
  BY <1>1, <1>5
<1> QED
  BY <1>3, <1>4, <1>6

\* A writer that holds nothing.
LEMMA NoRootFact ==
  NoRoot \in Root /\ Len(NoRoot.uncommitted) = 0
<1>1. (CHOOSE a \in Aggregates : TRUE) \in Aggregates
  OBVIOUS
<1>2. \A a \in Aggregates : NewRoot(a) \in Root /\ Len(NewRoot(a).uncommitted) = 0
  <2> SUFFICES ASSUME NEW a \in Aggregates
               PROVE  NewRoot(a) \in Root /\ Len(NewRoot(a).uncommitted) = 0
    OBVIOUS
  <2>1. <<>> \in Seq(EventIds) /\ <<>> \in Seq(Event) /\ Len(<<>>) = 0 /\ 0 \in Versions
    BY DEF Versions
  <2> QED
    BY <2>1 DEF NewRoot, Root
<1> QED
  BY <1>1, <1>2 DEF NoRoot

\* A step of one writer that leaves the stores alone.
LEMMA MemStep ==
  ASSUME RInv, NEW w \in Writers, UNCHANGED <<streams, all, snapshots>>,
         mem' \in [Writers -> Root],
         pc' \in [Writers -> {"idle", "loading", "held", "snapshot"}],
         raised' \in 0..MaxEvents, raised <= raised', faults' \in 0..MaxFaults,
         \A v \in Writers : v # w => mem'[v] = mem[v] /\ pc'[v] = pc[v],
         IF pc'[w] = "idle" THEN Len(mem'[w].uncommitted) = 0
                            ELSE Faithful(mem[w], pc[w])',
         \A i \in 1..Len(mem'[w].uncommitted) :
           /\ mem'[w].uncommitted[i].id <= raised'
           /\ \/ mem'[w].uncommitted[i].id > raised
              \/ i \in 1..Len(mem[w].uncommitted)
                   /\ mem'[w].uncommitted[i] = mem[w].uncommitted[i]
  PROVE  RInv'
<1> USE DEF RInv
<1>0. raised \in Nat /\ raised' \in Nat
  BY TypeFact
<1>01. \A i \in 1..Len(mem'[w].uncommitted) : mem'[w].uncommitted[i].id \in Nat
  <2>1. mem'[w].uncommitted \in Seq(Event)
    BY DEF Root
  <2>2. \A i \in 1..Len(mem'[w].uncommitted) : mem'[w].uncommitted[i] \in Event
    BY <2>1, ElementOfSeq
  <2>3. \A e \in Event : e.id \in Nat
    BY TypeFact DEF Event, EventIds
  <2> QED
    BY <2>2, <2>3
<1>1. RepoTypeOK'
  BY DEF RepoTypeOK, Root, Event
<1>2. StreamInv'
  BY <1>0, TypeFact DEF StreamInv
<1>3. SnapInv'
  BY DEF SnapInv
<1>4. ASSUME NEW v \in Writers
      PROVE  (IF pc[v] = "idle" THEN Len(mem[v].uncommitted) = 0 ELSE Faithful(mem[v], pc[v]))'
  <2>1. CASE v = w
    BY <2>1
  <2>2. CASE v # w
    <3>1. mem'[v] = mem[v] /\ pc'[v] = pc[v]
      BY <2>2
    <3>2. \A i \in 1..Len(mem[v].state) : mem[v].state[i] <= raised => mem[v].state[i] <= raised'
      BY <1>0, TypeFact
    <3> QED
      BY <3>1, <3>2 DEF HeldInv, Faithful
  <2> QED
    BY <2>1, <2>2
<1>5. HeldInv'
  BY <1>4 DEF HeldInv
<1>6. FreshInv'
  <2>1. ASSUME NEW v \in Writers, NEW i \in 1..Len(mem'[v].uncommitted)
        PROVE  /\ mem'[v].uncommitted[i].id <= raised'
               /\ \A b \in Aggregates : \A j \in 1..Len(streams[b]) :
                    streams[b][j].id # mem'[v].uncommitted[i].id
    <3>1. \A b \in Aggregates : \A j \in 1..Len(streams[b]) : streams[b][j].id <= raised
      BY DEF StreamInv
    <3>2. CASE v = w
      <4>1. i \in 1..Len(mem'[w].uncommitted) /\ mem'[w].uncommitted[i].id \in Nat
        BY <1>01, <2>1, <3>2
      <4>2. CASE mem'[w].uncommitted[i].id > raised
        BY <1>0, <3>1, <3>2, <4>1, <4>2, TypeFact, SMTT(30)
      <4>3. CASE /\ i \in 1..Len(mem[w].uncommitted)
                 /\ mem'[w].uncommitted[i] = mem[w].uncommitted[i]
        <5>1. \A b \in Aggregates : \A j \in 1..Len(streams[b]) :
                streams[b][j].id # mem[w].uncommitted[i].id
          BY <4>3 DEF FreshInv
        <5>2. mem'[v].uncommitted[i].id = mem[w].uncommitted[i].id
          BY <3>2, <4>3
        <5>3. mem'[v].uncommitted[i].id <= raised'
          BY <3>2, <4>1
        <5> QED
          BY <5>1, <5>2, <5>3
      <4> QED
        BY <4>1, <4>2, <4>3
    <3>3. CASE v # w
      <4>1. mem'[v] = mem[v] /\ i \in 1..Len(mem[v].uncommitted)
        BY <2>1, <3>3
      <4>2. mem[v].uncommitted[i].id \in Nat
        BY <4>1, TypeFact
      <4>3. /\ mem[v].uncommitted[i].id <= raised
            /\ \A b \in Aggregates : \A j \in 1..Len(streams[b]) :
                 streams[b][j].id # mem[v].uncommitted[i].id
        BY <4>1 DEF FreshInv
      <4>4. mem[v].uncommitted[i].id <= raised'
        BY <1>0, <4>2, <4>3
      <4> QED
        BY <4>1, <4>3, <4>4
    <3> QED
      BY <3>2, <3>3
  <2>2. ASSUME NEW u \in Writers, NEW v \in Writers, u # v,
               NEW i \in 1..Len(mem'[u].uncommitted), NEW j \in 1..Len(mem'[v].uncommitted)
        PROVE  mem'[u].uncommitted[i].id # mem'[v].uncommitted[j].id
    <3>1. CASE u # w /\ v # w
      <4>1. mem'[u] = mem[u] /\ mem'[v] = mem[v]
        BY <3>1
      <4> QED
        BY <2>2, <4>1 DEF FreshInv
    <3>2. CASE u = w
      <4>1. mem'[v] = mem[v] /\ v # w
        BY <2>2, <3>2
      <4>2. mem[v].uncommitted[j].id <= raised /\ mem[v].uncommitted[j].id \in Nat
        BY <4>1, TypeFact DEF FreshInv
      <4>3. i \in 1..Len(mem'[w].uncommitted) /\ mem'[w].uncommitted[i].id \in Nat
        BY <1>01, <2>2, <3>2
      <4>4. CASE mem'[w].uncommitted[i].id > raised
        BY <1>0, <3>2, <4>1, <4>2, <4>3, <4>4, SMTT(30)
      <4>5. CASE /\ i \in 1..Len(mem[w].uncommitted)
                 /\ mem'[w].uncommitted[i] = mem[w].uncommitted[i]
        BY <2>2, <3>2, <4>1, <4>5 DEF FreshInv
      <4> QED
        BY <4>3, <4>4, <4>5
    <3>3. CASE v = w
      <4>1. mem'[u] = mem[u] /\ u # w
        BY <2>2, <3>3
      <4>2. mem[u].uncommitted[i].id <= raised /\ mem[u].uncommitted[i].id \in Nat
        BY <4>1, TypeFact DEF FreshInv
      <4>3. j \in 1..Len(mem'[w].uncommitted) /\ mem'[w].uncommitted[j].id \in Nat
        BY <1>01, <2>2, <3>3
      <4>4. CASE mem'[w].uncommitted[j].id > raised
        BY <1>0, <3>3, <4>1, <4>2, <4>3, <4>4, SMTT(30)
      <4>5. CASE /\ j \in 1..Len(mem[w].uncommitted)
                 /\ mem'[w].uncommitted[j] = mem[w].uncommitted[j]
        BY <2>2, <3>3, <4>1, <4>5 DEF FreshInv
      <4> QED
        BY <4>3, <4>4, <4>5
    <3> QED
      BY <3>1, <3>2, <3>3
  <2> QED
    BY <2>1, <2>2 DEF FreshInv
<1> QED
  BY <1>1, <1>2, <1>3, <1>5, <1>6

-----------------------------------------------------------------------------
(* load() *)

\* The read after a snapshot: exactly the rest of the stream.
LEMMA LoadAfterFact ==
  ASSUME RInv, NEW a \in Aggregates, NEW n \in 0..Len(streams[a])
  PROVE  /\ LoadAfter(a, n) \in Seq(Event)
         /\ Len(LoadAfter(a, n)) = Len(streams[a]) - n
         /\ \A i \in 1..(Len(streams[a]) - n) : LoadAfter(a, n)[i] = streams[a][n + i]
<1>1. /\ streams[a] \in Seq(Event) /\ Len(streams[a]) \in Nat
      /\ DOMAIN streams[a] = 1..Len(streams[a])
      /\ \A i \in 1..Len(streams[a]) : streams[a][i] \in Event
  BY TypeFact DEF RInv
<1> DEFINE older == {i \in DOMAIN streams[a] : streams[a][i].version <= n}
           len == Len(streams[a])
<1>2. older = 1..n
  BY <1>1 DEF RInv, StreamInv
<1>3. Cardinality(older) = n
  <2>1. 1 \in Int /\ n \in Int /\ n >= 0
    BY <1>1
  <2>2. Cardinality(1..n) = IF 1 > n THEN 0 ELSE n - 1 + 1
    BY <2>1, FS_Interval
  <2>3. (IF 1 > n THEN 0 ELSE n - 1 + 1) = n
    BY <2>1
  <2> HIDE DEF older
  <2> QED
    BY <1>2, <2>2, <2>3
<1>4. LoadAfter(a, n) = SubSeq(streams[a], n + 1, len)
  BY <1>3 DEF LoadAfter
<1>5. n + 1 \in Int /\ len \in Int /\ \A i \in (n + 1)..len : streams[a][i] \in Event
  BY <1>1
<1>6. /\ SubSeq(streams[a], n + 1, len) \in Seq(Event)
      /\ Len(SubSeq(streams[a], n + 1, len)) = IF n + 1 <= len THEN len - (n + 1) + 1 ELSE 0
      /\ \A i \in 1..(len - (n + 1) + 1) : SubSeq(streams[a], n + 1, len)[i] = streams[a][n + 1 + i - 1]
  BY <1>5, SubSeqProperties
<1>7. /\ (IF n + 1 <= len THEN len - (n + 1) + 1 ELSE 0) = len - n
      /\ len - (n + 1) + 1 = len - n
      /\ \A i \in 1..(len - n) : n + 1 + i - 1 = n + i
  BY <1>1
<1> HIDE DEF older, len
<1> QED
  BY <1>4, <1>6, <1>7 DEF len

LEMMA LoadSnapshotStep ==
  ASSUME RInv, NEW w \in Writers, NEW a \in Aggregates, LoadSnapshot(w, a)
  PROVE  RInv'
<1> USE DEF RInv
<1> DEFINE m == IF snapshots[a] = None THEN NewRoot(a)
                ELSE [NewRoot(a) EXCEPT !.version = snapshots[a].version,
                                        !.state = snapshots[a].payload]
<1>1. /\ mem \in [Writers -> Root] /\ pc \in [Writers -> {"idle", "loading", "held", "snapshot"}]
      /\ raised \in 0..MaxEvents /\ faults \in 0..MaxFaults
      /\ snapshots[a] = None \/ snapshots[a] \in [version : Versions, payload : Seq(EventIds)]
  BY DEF RepoTypeOK, Root, Event
<1>2. mem' = [mem EXCEPT ![w] = m] /\ pc' = [pc EXCEPT ![w] = "loading"]
      /\ UNCHANGED <<streams, all, snapshots, raised, faults>>
  BY DEF LoadSnapshot, Goto
<1>3. <<>> \in Seq(EventIds) /\ <<>> \in Seq(Event) /\ Len(<<>>) = 0 /\ 0 \in Versions
  BY <1>1 DEF Versions
<1>4. /\ m \in Root /\ m.agg = a /\ m.uncommitted = <<>> /\ Len(m.uncommitted) = 0
      /\ m.version = IF snapshots[a] = None THEN 0 ELSE snapshots[a].version
      /\ m.state = IF snapshots[a] = None THEN <<>> ELSE snapshots[a].payload
  <2>1. CASE snapshots[a] = None
    BY <1>3, <2>1 DEF NewRoot, Root
  <2>2. CASE snapshots[a] # None
    <3>1. snapshots[a].version \in Versions /\ snapshots[a].payload \in Seq(EventIds)
      BY <1>1, <2>2
    <3>2. m = [agg |-> a, version |-> snapshots[a].version, state |-> snapshots[a].payload,
               uncommitted |-> <<>>]
      BY <2>2 DEF NewRoot
    <3> HIDE DEF m
    <3> QED
      BY <1>3, <2>2, <3>1, <3>2 DEF Root
  <2> QED
    BY <2>1, <2>2
<1> HIDE DEF m
<1>5. /\ mem'[w] = m /\ pc'[w] = "loading" /\ mem' \in [Writers -> Root]
      /\ pc' \in [Writers -> {"idle", "loading", "held", "snapshot"}]
      /\ \A v \in Writers : v # w => mem'[v] = mem[v] /\ pc'[v] = pc[v]
  BY <1>1, <1>2, <1>4
<1>6. /\ m.version \in Nat /\ m.version = Len(m.state) /\ m.version <= Len(streams[a])
      /\ \A i \in 1..m.version : m.state[i] = streams[a][i].id
  <2>1. CASE snapshots[a] = None
    BY <1>3, <1>4, <2>1, TypeFact
  <2>2. CASE snapshots[a] # None
    BY <1>1, <1>4, <2>2 DEF SnapInv, Versions
  <2> QED
    BY <2>1, <2>2
<1>7. \A i \in 1..Len(m.state) : i <= m.state[i] /\ m.state[i] <= raised
  <2>1. Len(streams[a]) \in Nat
    BY TypeFact
  <2>2. \A i \in 1..Len(m.state) : i \in 1..Len(streams[a]) /\ m.state[i] = streams[a][i].id
    BY <1>6, <2>1
  <2> QED
    BY <2>2 DEF StreamInv
<1>8. m.version - Len(m.uncommitted) = m.version
  BY <1>4, <1>6
<1>9. Faithful(m, "loading")
  BY <1>4, <1>6, <1>7, <1>8 DEF Faithful
<1>10. Faithful(mem[w], pc[w])'
  BY <1>2, <1>5, <1>9 DEF Faithful
<1>11. raised <= raised'
  BY <1>1, <1>2
<1> QED
  BY <1>1, <1>2, <1>4, <1>5, <1>10, <1>11, MemStep

\* What load() returns is the whole stream.
LEMMA LoadEventsStep ==
  ASSUME RInv, NEW w \in Writers, LoadEvents(w)
  PROVE  /\ RInv'
         /\ mem'[w].agg = mem[w].agg /\ Len(mem'[w].uncommitted) = 0
         /\ mem'[w].version = Len(streams[mem[w].agg])
<1> USE DEF RInv
<1> DEFINE a == mem[w].agg
           n == mem[w].version
           events == LoadAfter(a, n)
<1>1. /\ mem \in [Writers -> Root] /\ pc \in [Writers -> {"idle", "loading", "held", "snapshot"}]
      /\ raised \in 0..MaxEvents /\ faults \in 0..MaxFaults /\ pc[w] = "loading"
  BY DEF RepoTypeOK, Root, Event, LoadEvents
<1>2. /\ a \in Aggregates /\ n \in Nat /\ mem[w].state \in Seq(EventIds) /\ Len(streams[a]) \in Nat
      /\ streams[a] \in Seq(Event) /\ mem[w].uncommitted \in Seq(Event)
      /\ \A i \in 1..Len(streams[a]) : streams[a][i] \in Event
  BY TypeFact
<1>3. Faithful(mem[w], "loading")
  BY <1>1 DEF HeldInv
<1>4. /\ n = Len(mem[w].state) /\ Len(mem[w].uncommitted) = 0 /\ n <= Len(streams[a])
      /\ \A i \in 1..n : mem[w].state[i] = streams[a][i].id
  <2>1. n = Len(mem[w].state) /\ Len(mem[w].uncommitted) = 0
    BY <1>3 DEF Faithful
  <2>2. n - Len(mem[w].uncommitted) = n
    BY <1>2, <2>1
  <2> QED
    BY <1>3, <2>1, <2>2 DEF Faithful
<1>50. n \in 0..Len(streams[a])
  BY <1>2, <1>4
<1>5. /\ events \in Seq(Event) /\ Len(events) = Len(streams[a]) - n
      /\ \A i \in 1..(Len(streams[a]) - n) : events[i] = streams[a][n + i]
  BY <1>2, <1>50, LoadAfterFact
<1>6. /\ mem' = [mem EXCEPT ![w] = [mem[w] EXCEPT
                   !.state = mem[w].state \o Ids(events),
                   !.version = IF events = <<>> THEN n ELSE events[Len(events)].version]]
      /\ pc' = [pc EXCEPT ![w] = "held"] /\ UNCHANGED <<streams, all, snapshots, raised, faults>>
  BY <1>1 DEF LoadEvents, Goto, Root
<1> HIDE DEF events
<1>7. /\ Ids(events) \in Seq(EventIds) /\ Len(Ids(events)) = Len(streams[a]) - n
      /\ \A i \in 1..(Len(streams[a]) - n) : Ids(events)[i] = streams[a][n + i].id
  BY <1>5, IdsFact
<1> DEFINE st == mem[w].state \o Ids(events)
           ver == IF events = <<>> THEN n ELSE events[Len(events)].version
<1>8. /\ st \in Seq(EventIds) /\ Len(st) = Len(streams[a])
      /\ \A i \in 1..Len(streams[a]) : st[i] = streams[a][i].id
  <2>1. /\ st \in Seq(EventIds) /\ Len(st) = n + (Len(streams[a]) - n)
        /\ \A i \in 1..(n + (Len(streams[a]) - n)) :
             st[i] = IF i <= n THEN mem[w].state[i] ELSE Ids(events)[i - n]
    BY <1>2, <1>4, <1>7, ConcatProperties, SMTT(30)
  <2>2. n + (Len(streams[a]) - n) = Len(streams[a])
    BY <1>2
  <2>3. ASSUME NEW i \in 1..Len(streams[a]) PROVE st[i] = streams[a][i].id
    <3>1. CASE i <= n
      BY <1>2, <1>4, <2>1, <2>2, <3>1
    <3>2. CASE ~(i <= n)
      <4>1. i - n \in 1..(Len(streams[a]) - n) /\ n + (i - n) = i
        BY <1>2, <3>2
      <4> QED
        BY <1>7, <2>1, <2>2, <3>2, <4>1
    <3> QED
      BY <3>1, <3>2
  <2> QED
    BY <2>1, <2>2, <2>3
<1>9. ver = Len(streams[a])
  <2>1. CASE events = <<>>
    <3>1. Len(events) = 0
      BY <2>1
    <3> QED
      BY <1>2, <1>5, <2>1, <3>1
  <2>2. CASE events # <<>>
    <3>1. Len(events) \in Nat /\ Len(events) # 0
      BY <1>5, <2>2, LenProperties, EmptySeq
    <3>2. events[Len(events)] = streams[a][n + Len(events)] /\ n + Len(events) = Len(streams[a])
      BY <1>2, <1>5, <3>1, SMTT(30)
    <3>3. Len(streams[a]) \in 1..Len(streams[a])
      BY <1>2, <1>5, <3>1, <3>2
    <3> QED
      BY <1>2, <2>2, <3>2, <3>3, SMTT(30) DEF StreamInv
  <2> QED
    BY <2>1, <2>2
<1>10. Len(streams[a]) \in Versions
  <2>1. CASE Len(streams[a]) = 0
    BY <2>1 DEF Versions
  <2>2. CASE Len(streams[a]) # 0
    <3>1. Len(streams[a]) \in 1..Len(streams[a])
      BY <1>2, <2>2
    <3>2. streams[a][Len(streams[a])].version = Len(streams[a]) /\ streams[a][Len(streams[a])] \in Event
      BY <1>2, <3>1 DEF StreamInv
    <3> QED
      BY <3>2 DEF Event
  <2> QED
    BY <2>1, <2>2
<1> HIDE DEF st, ver
<1>11. mem' = [mem EXCEPT ![w] = [mem[w] EXCEPT !.state = st, !.version = ver]]
  BY <1>6 DEF st, ver
<1>12. /\ mem'[w].agg = a /\ mem'[w].state = st /\ mem'[w].version = ver
       /\ mem'[w].uncommitted = mem[w].uncommitted /\ mem' \in [Writers -> Root]
       /\ pc'[w] = "held" /\ pc' \in [Writers -> {"idle", "loading", "held", "snapshot"}]
       /\ \A v \in Writers : v # w => mem'[v] = mem[v] /\ pc'[v] = pc[v]
  <2>1. mem[w] \in Root /\ st \in Seq(EventIds) /\ ver \in Versions
    BY <1>1, <1>8, <1>9, <1>10
  <2> DEFINE r == [mem[w] EXCEPT !.state = st, !.version = ver]
  <2>2. /\ r \in Root /\ r.agg = a /\ r.state = st /\ r.version = ver
        /\ r.uncommitted = mem[w].uncommitted
    BY <2>1 DEF Root
  <2> HIDE DEF r
  <2>3. mem' = [mem EXCEPT ![w] = r]
    BY <1>11 DEF r
  <2>4. mem'[w] = r /\ mem' \in [Writers -> Root] /\ \A v \in Writers : v # w => mem'[v] = mem[v]
    BY <1>1, <2>2, <2>3
  <2>5. /\ pc'[w] = "held" /\ pc' \in [Writers -> {"idle", "loading", "held", "snapshot"}]
        /\ \A v \in Writers : v # w => pc'[v] = pc[v]
    BY <1>1, <1>6
  <2> QED
    BY <2>2, <2>4, <2>5
<1>13. \A i \in 1..Len(st) : i <= st[i] /\ st[i] <= raised
  BY <1>2, <1>8 DEF StreamInv
<1>14. ver - Len(mem[w].uncommitted) = Len(streams[a])
  BY <1>2, <1>4, <1>9
<1>15. Faithful(mem[w], pc[w])'
  <2>1. Len(mem'[w].uncommitted) = 0
    BY <1>4, <1>12
  <2> HIDE DEF a, n
  <2>2. mem'[w].version - Len(mem'[w].uncommitted) = Len(streams'[a])
    BY <1>6, <1>12, <1>14
  <2>3. /\ mem'[w].version = Len(mem'[w].state) /\ Len(mem'[w].uncommitted) <= mem'[w].version
    BY <1>2, <1>8, <1>9, <1>12, <2>1
  <2>4. streams' = streams /\ raised' = raised
    BY <1>6
  <2> QED
    BY <1>2, <1>8, <1>12, <1>13, <2>1, <2>2, <2>3, <2>4 DEF Faithful
<1>16. raised <= raised'
  BY <1>1, <1>6
<1>17. RInv'
  BY <1>1, <1>4, <1>6, <1>12, <1>15, <1>16, MemStep, SMTT(30)
<1> QED
  BY <1>4, <1>9, <1>12, <1>17

-----------------------------------------------------------------------------
(* The aggregate in memory *)

LEMMA RaiseStep == ASSUME RInv, NEW w \in Writers, Raise(w) PROVE RInv'
<1> USE DEF RInv
<1> DEFINE m == mem[w]
           e == [id |-> raised + 1, version |-> m.version + 1]
           st == Append(m.state, raised + 1)
           un == Append(m.uncommitted, e)
           r == [m EXCEPT !.version = m.version + 1, !.state = st, !.uncommitted = un]
<1>1. /\ mem \in [Writers -> Root] /\ pc \in [Writers -> {"idle", "loading", "held", "snapshot"}]
      /\ raised \in 0..MaxEvents /\ faults \in 0..MaxFaults /\ pc[w] = "held"
      /\ raised < MaxEvents /\ MaxEvents \in Nat
  BY DEF RepoTypeOK, Root, Event, Raise
<1>2. /\ mem' = [mem EXCEPT ![w] = r] /\ raised' = raised + 1
      /\ UNCHANGED <<streams, all, snapshots, pc, faults>>
  BY <1>1 DEF Raise, Root
<1>3. /\ m \in Root /\ m.agg \in Aggregates /\ m.version \in Nat
      /\ m.state \in Seq(EventIds) /\ Len(m.state) \in Nat
      /\ m.uncommitted \in Seq(Event) /\ Len(m.uncommitted) \in Nat
      /\ \A i \in 1..Len(m.state) : m.state[i] \in Nat
      /\ \A i \in 1..Len(m.uncommitted) :
           m.uncommitted[i] \in Event /\ m.uncommitted[i].id \in Nat
  BY TypeFact
<1>4. Faithful(m, "held")
  BY <1>1 DEF HeldInv
<1>5. m.version = Len(m.state) /\ m.version <= raised
  <2>1. CASE Len(m.state) = 0
    BY <1>1, <1>4, <2>1 DEF Faithful
  <2>2. CASE Len(m.state) # 0
    <3>1. Len(m.state) \in 1..Len(m.state)
      BY <1>3, <2>2
    <3>2. Len(m.state) <= m.state[Len(m.state)] /\ m.state[Len(m.state)] <= raised
          /\ m.state[Len(m.state)] \in Nat
      BY <1>3, <1>4, <3>1 DEF Faithful
    <3> QED
      BY <1>1, <1>3, <1>4, <3>2 DEF Faithful
  <2> QED
    BY <2>1, <2>2
<1>6. /\ raised + 1 \in EventIds /\ m.version + 1 \in Versions
  BY <1>1, <1>3, <1>5 DEF EventIds, Versions
<1>7. e \in Event /\ e.id = raised + 1 /\ e.version = m.version + 1
  BY <1>6 DEF Event
<1>8. /\ st \in Seq(EventIds) /\ Len(st) = Len(m.state) + 1
      /\ \A i \in 1..Len(m.state) : st[i] = m.state[i]
      /\ st[Len(m.state) + 1] = raised + 1
  BY <1>3, <1>6, AppendProperties
<1> HIDE DEF e
<1>9. /\ un \in Seq(Event) /\ Len(un) = Len(m.uncommitted) + 1
      /\ \A i \in 1..Len(m.uncommitted) : un[i] = m.uncommitted[i]
      /\ un[Len(m.uncommitted) + 1] = e
  BY <1>3, <1>7, AppendProperties
<1> HIDE DEF st, un, m
<1>10. /\ r \in Root /\ r.agg = m.agg /\ r.version = m.version + 1
       /\ r.state = st /\ r.uncommitted = un
  BY <1>3, <1>6, <1>8, <1>9 DEF Root
<1> HIDE DEF r
<1>11. /\ mem'[w] = r /\ mem' \in [Writers -> Root] /\ \A v \in Writers : v # w => mem'[v] = mem[v]
  BY <1>1, <1>2, <1>10
<1>12. raised' \in 0..MaxEvents /\ raised <= raised' /\ pc'[w] = "held"
  BY <1>1, <1>2
<1> DEFINE k == Len(m.uncommitted)
           n == m.version - k
<1>13. /\ k \in Nat /\ n \in Nat /\ m.version \in Nat /\ m.version = n + k /\ Len(m.state) = n + k
       /\ n <= Len(streams[m.agg])
  <2>1. k \in Nat /\ k <= m.version /\ n <= Len(streams[m.agg]) /\ m.version \in Nat
        /\ m.version = Len(m.state)
    BY <1>3, <1>4, <1>5 DEF Faithful
  <2>2. n \in Nat /\ m.version = n + k
    BY <2>1
  <2> QED
    BY <2>1, <2>2
<1>14. /\ \A i \in 1..n : m.state[i] = streams[m.agg][i].id
       /\ \A i \in 1..k : m.uncommitted[i].version = n + i /\ m.uncommitted[i].id = m.state[n + i]
       /\ \A i \in 1..Len(m.state) : i <= m.state[i] /\ m.state[i] <= raised
  BY <1>4 DEF Faithful
<1> HIDE DEF k, n
<1>15. Len(un) = k + 1 /\ Len(st) = n + k + 1 /\ m.version + 1 = n + k + 1
       /\ (m.version + 1) - Len(un) = n
  <2>1. k = Len(m.uncommitted)
    BY DEF k
  <2>2. Len(un) = k + 1 /\ Len(st) = n + k + 1
    BY <1>8, <1>9, <1>13, <2>1
  <2> QED
    BY <1>13, <2>2
<1>16. \A i \in 1..n : st[i] = streams[m.agg][i].id
  BY <1>8, <1>13, <1>14
<1>17. \A i \in 1..(k + 1) : un[i].version = n + i /\ un[i].id = st[n + i]
  <2>1. ASSUME NEW i \in 1..k PROVE un[i].version = n + i /\ un[i].id = st[n + i]
    <3>1. n + i \in 1..Len(m.state)
      BY <1>13
    <3>2. un[i] = m.uncommitted[i]
      BY <1>9 DEF k
    <3> QED
      BY <1>8, <1>14, <3>1, <3>2
  <2>2. un[k + 1].version = n + (k + 1) /\ un[k + 1].id = st[n + (k + 1)]
    <3>1. un[k + 1] = e /\ e.version = n + (k + 1)
      BY <1>7, <1>9, <1>13 DEF k
    <3>2. n + (k + 1) = Len(m.state) + 1
      BY <1>13
    <3> QED
      BY <1>7, <1>8, <3>1, <3>2
  <2>3. \A i \in 1..(k + 1) : i \in 1..k \/ i = k + 1
    BY <1>13
  <2> QED
    BY <2>1, <2>2, <2>3
<1>18. \A i \in 1..Len(st) : i <= st[i] /\ st[i] <= raised + 1
  <2>1. ASSUME NEW i \in 1..Len(m.state) PROVE i <= st[i] /\ st[i] <= raised + 1
    <3>1. st[i] = m.state[i] /\ m.state[i] \in Nat /\ raised \in Nat
      BY <1>1, <1>3, <1>8
    <3>2. i <= m.state[i] /\ m.state[i] <= raised
      BY <1>14
    <3> QED
      BY <3>1, <3>2
  <2>2. Len(m.state) + 1 <= st[Len(m.state) + 1] /\ st[Len(m.state) + 1] <= raised + 1
    <3>1. Len(m.state) <= raised /\ raised \in Nat /\ Len(m.state) \in Nat
      BY <1>1, <1>3, <1>5
    <3> QED
      BY <1>8, <3>1
  <2>3. \A i \in 1..Len(st) : i \in 1..Len(m.state) \/ i = Len(m.state) + 1
    BY <1>3, <1>8
  <2> QED
    BY <2>1, <2>2, <2>3
<1>19. Faithful(mem[w], pc[w])'
  <2>1. /\ mem'[w].agg = m.agg /\ mem'[w].version = m.version + 1
        /\ mem'[w].state = st /\ mem'[w].uncommitted = un
    BY <1>10, <1>11
  <2>2. streams' = streams /\ raised' = raised + 1
    BY <1>2
  <2>3. m.version + 1 = Len(st) /\ Len(un) <= m.version + 1
    BY <1>13, <1>15
  <2> QED
    BY <1>12, <1>13, <1>15, <1>16, <1>17, <1>18, <2>1, <2>2, <2>3, ZenonT(60) DEF Faithful
<1>20. \A i \in 1..Len(mem'[w].uncommitted) :
         /\ mem'[w].uncommitted[i].id <= raised'
         /\ \/ mem'[w].uncommitted[i].id > raised
            \/ i \in 1..Len(mem[w].uncommitted)
                 /\ mem'[w].uncommitted[i] = mem[w].uncommitted[i]
  <2>1. mem'[w].uncommitted = un /\ Len(un) = k + 1 /\ mem[w] = m
    BY <1>10, <1>11, <1>15 DEF m
  <2>2. ASSUME NEW i \in 1..k
        PROVE  un[i].id <= raised + 1 /\ un[i] = m.uncommitted[i] /\ i \in 1..Len(m.uncommitted)
    <3>1. un[i] = m.uncommitted[i] /\ i \in 1..Len(m.uncommitted) /\ n + i \in 1..Len(m.state)
      BY <1>9, <1>13, SMTT(30) DEF k
    <3>2. m.uncommitted[i].id <= raised /\ m.uncommitted[i].id \in Nat
      BY <1>3, <1>14, <3>1
    <3> QED
      BY <1>1, <3>1, <3>2
  <2>3. un[k + 1].id = raised + 1 /\ raised + 1 > raised /\ raised + 1 <= raised + 1
    BY <1>1, <1>7, <1>9 DEF k
  <2>4. \A i \in 1..(k + 1) : i \in 1..k \/ i = k + 1
    BY <1>13
  <2> QED
    BY <1>2, <2>1, <2>2, <2>3, <2>4
<1> QED
  BY <1>1, <1>2, <1>11, <1>12, <1>19, <1>20, MemStep

\* A writer lets its aggregate go: Abandon, and a save() that failed.
LEMMA DropStep ==
  ASSUME RInv, NEW w \in Writers, pc' = [pc EXCEPT ![w] = "idle"],
         mem' = [mem EXCEPT ![w] = NoRoot], UNCHANGED <<streams, all, snapshots, raised>>,
         faults' \in 0..MaxFaults
  PROVE  RInv'
<1> USE DEF RInv
<1>1. /\ mem \in [Writers -> Root] /\ pc \in [Writers -> {"idle", "loading", "held", "snapshot"}]
      /\ raised \in 0..MaxEvents
  BY DEF RepoTypeOK, Root, Event
<1>2. NoRoot \in Root /\ Len(NoRoot.uncommitted) = 0
  BY NoRootFact
<1>3. /\ mem'[w] = NoRoot /\ pc'[w] = "idle" /\ mem' \in [Writers -> Root]
      /\ pc' \in [Writers -> {"idle", "loading", "held", "snapshot"}]
      /\ \A v \in Writers : v # w => mem'[v] = mem[v] /\ pc'[v] = pc[v]
  BY <1>1, <1>2
<1>4. raised <= raised'
  BY <1>1
<1>5. 1..Len(mem'[w].uncommitted) = {}
  BY <1>2, <1>3
<1> QED
  BY <1>1, <1>2, <1>3, <1>4, <1>5, MemStep

-----------------------------------------------------------------------------
(* save() *)

Logged == [agg : Aggregates, version : Versions]

\* An append that is accepted: the stream becomes what the writer has folded.
Extended(w, a) ==
  /\ a \in Aggregates /\ pc[w] = "held" /\ Faithful(mem[w], "held")
  /\ streams' \in [Aggregates -> Seq(Event)]
  /\ \A b \in Aggregates : b # a => streams'[b] = streams[b]
  /\ Len(streams[a]) \in Nat /\ mem[w].version \in Nat
  /\ Len(streams[a]) = mem[w].version - Len(mem[w].uncommitted)
  /\ Len(streams[a]) < mem[w].version
  /\ Len(streams'[a]) = mem[w].version
  /\ \A i \in 1..Len(streams[a]) : streams'[a][i] = streams[a][i]
  /\ \A i \in 1..mem[w].version :
       /\ streams'[a][i].id = mem[w].state[i] /\ streams'[a][i].version = i
       /\ i > Len(streams[a]) =>
            /\ i - Len(streams[a]) \in 1..Len(mem[w].uncommitted)
            /\ streams'[a][i] = mem[w].uncommitted[i - Len(streams[a])]

LEMMA AppendFact ==
  ASSUME RInv, NEW w \in Writers, SaveAppend(w), NEW a, a = mem[w].agg
  PROVE  Extended(w, a)
<1> USE DEF RInv
<1> DEFINE m == mem[w]
           u == m.uncommitted
           L == Len(streams[a])
<1>1. /\ a \in Aggregates /\ m \in Root /\ m.version \in Nat /\ u \in Seq(Event) /\ Len(u) \in Nat
      /\ streams[a] \in Seq(Event) /\ L \in Nat /\ streams \in [Aggregates -> Seq(Event)]
  <2>1. streams \in [Aggregates -> Seq(Event)]
    BY DEF RepoTypeOK, Event
  <2> QED
    BY <2>1, TypeFact
<1>2. pc[w] = "held" /\ Len(u) > 0 /\ m.version - Len(u) = L /\ streams' = [streams EXCEPT ![a] = streams[a] \o u]
  BY <1>1 DEF SaveAppend, Pending, Accepts, Expected, HeadVersion
<1>3. Faithful(m, "held")
  BY <1>2 DEF HeldInv
<1>31. /\ \A i \in 1..(m.version - Len(u)) : m.state[i] = streams[a][i].id
       /\ \A i \in 1..Len(u) : /\ u[i].version = m.version - Len(u) + i
                                /\ u[i].id = m.state[m.version - Len(u) + i]
       /\ \A i \in 1..L : streams[a][i].version = i
  BY <1>1, <1>3 DEF Faithful, StreamInv
<1> HIDE DEF u, L, m
<1>32. Len(streams[a]) = L
  BY DEF L
<1> DEFINE s == streams[a] \o u
<1>4. /\ s \in Seq(Event) /\ Len(s) = L + Len(u)
      /\ \A i \in 1..(L + Len(u)) : s[i] = IF i <= L THEN streams[a][i] ELSE u[i - L]
  <2>1. streams[a] \in Seq(Event) /\ u \in Seq(Event)
    BY <1>1
  <2>2. /\ s \in Seq(Event) /\ Len(s) = Len(streams[a]) + Len(u)
        /\ \A i \in 1..(Len(streams[a]) + Len(u)) :
             s[i] = IF i <= Len(streams[a]) THEN streams[a][i] ELSE u[i - Len(streams[a])]
    BY <2>1, ConcatProperties
  <2> HIDE DEF s
  <2> QED
    BY <1>32, <2>2
<1>5. L + Len(u) = m.version /\ L < m.version
  <2>1. L \in Nat /\ Len(u) \in Nat /\ m.version \in Nat
    BY <1>1
  <2>2. Len(u) > 0 /\ m.version - Len(u) = L
    BY <1>2
  <2> QED
    BY <2>1, <2>2
<1>6. /\ \A i \in 1..L : m.state[i] = streams[a][i].id /\ streams[a][i].version = i
      /\ \A i \in 1..Len(u) : u[i].version = L + i /\ u[i].id = m.state[L + i]
  BY <1>2, <1>31
<1> HIDE DEF s
<1>7. \A i \in 1..L : s[i] = streams[a][i]
  BY <1>1, <1>4
<1>8. ASSUME NEW i \in 1..m.version
      PROVE  /\ s[i].id = m.state[i] /\ s[i].version = i
             /\ i > L => i - L \in 1..Len(u) /\ s[i] = u[i - L]
  <2>1. CASE i <= L
    <3>1. i \in 1..L /\ ~(i > L)
      BY <1>1, <2>1
    <3> QED
      BY <1>6, <1>7, <3>1
  <2>2. CASE ~(i <= L)
    <3>1. i - L \in 1..Len(u) /\ L + (i - L) = i
      BY <1>1, <1>5, <2>2
    <3>2. s[i] = u[i - L]
      BY <1>4, <1>5, <2>2
    <3>3. u[i - L].version = L + (i - L) /\ u[i - L].id = m.state[L + (i - L)]
      BY <1>6, <3>1
    <3> QED
      BY <3>1, <3>2, <3>3
  <2> QED
    BY <2>1, <2>2
<1>9. streams' = [streams EXCEPT ![a] = s]
  BY <1>2 DEF s
<1>10. /\ streams' \in [Aggregates -> Seq(Event)] /\ streams'[a] = s
       /\ \A b \in Aggregates : b # a => streams'[b] = streams[b]
  BY <1>1, <1>4, <1>9
<1>11. Len(streams'[a]) = m.version
  BY <1>4, <1>5, <1>10
<1> QED
  <2>1. /\ a \in Aggregates /\ pc[w] = "held" /\ Faithful(mem[w], "held")
        /\ streams' \in [Aggregates -> Seq(Event)]
        /\ \A b \in Aggregates : b # a => streams'[b] = streams[b]
    BY <1>1, <1>2, <1>3, <1>10 DEF m
  <2>2. /\ L \in Nat /\ m.version \in Nat /\ L = m.version - Len(u) /\ L < m.version
        /\ Len(streams'[a]) = m.version
        /\ \A i \in 1..L : streams'[a][i] = streams[a][i]
        /\ \A i \in 1..m.version :
             /\ streams'[a][i].id = m.state[i] /\ streams'[a][i].version = i
             /\ i > L => i - L \in 1..Len(u) /\ streams'[a][i] = u[i - L]
    BY <1>1, <1>2, <1>5, <1>7, <1>8, <1>10, <1>11, ZenonT(60)
  <2> QED
    BY <2>1, <2>2, Zenon DEF m, u, L, Extended

\* The global log only grows.
LEMMA LogFact ==
  ASSUME RInv, NEW w \in Writers, SaveAppend(w)
  PROVE  /\ all \in Seq(Logged) /\ all' \in Seq(Logged) /\ Len(all) <= Len(all')
         /\ Len(all) \in Nat /\ Len(all') \in Nat
         /\ \A i \in 1..Len(all) : all'[i] = all[i]
<1> DEFINE u == mem[w].uncommitted
           a == mem[w].agg
           t == [i \in DOMAIN u |-> [agg |-> a, version |-> u[i].version]]
<1>1. /\ a \in Aggregates /\ u \in Seq(Event) /\ Len(u) \in Nat /\ DOMAIN u = 1..Len(u)
      /\ \A i \in 1..Len(u) : u[i] \in Event
  BY TypeFact, LenProperties, SMTT(30) DEF RInv
<1>2. all' = all \o t
  BY DEF SaveAppend
<1>3. \A i \in 1..Len(u) : [agg |-> a, version |-> u[i].version] \in Logged
  BY <1>1 DEF Event, Logged
<1>4. t \in [1..Len(u) -> Logged]
  BY <1>1, <1>3
<1> HIDE DEF t
<1>5. t \in Seq(Logged)
  BY <1>1, <1>4, SeqDef
<1>6. all \in Seq(Logged)
  BY DEF RInv, RepoTypeOK, Logged
<1>7. Len(t) \in Nat /\ Len(all) \in Nat
  BY <1>5, <1>6, LenProperties
<1>8. /\ all \o t \in Seq(Logged) /\ Len(all \o t) = Len(all) + Len(t)
      /\ \A i \in 1..(Len(all) + Len(t)) : (all \o t)[i] = IF i <= Len(all) THEN all[i] ELSE t[i - Len(all)]
  BY <1>5, <1>6, ConcatProperties
<1>9. \A i \in 1..Len(all) : i \in 1..(Len(all) + Len(t)) /\ i <= Len(all)
  BY <1>7
<1>10. \A i \in 1..Len(all) : (all \o t)[i] = all[i]
  BY <1>8, <1>9
<1>11. Len(all) <= Len(all \o t) /\ Len(all \o t) \in Nat
  BY <1>7, <1>8
<1> QED
  BY <1>2, <1>6, <1>7, <1>8, <1>10, <1>11

LEMMA SaveAppendStep == ASSUME RInv, NEW w \in Writers, SaveAppend(w) PROVE RInv'
<1> USE DEF RInv
<1> DEFINE a == mem[w].agg
           m == mem[w]
           L == Len(streams[a])
<1>0. a = mem[w].agg
  OBVIOUS
<1> HIDE DEF a
<1>1. /\ a \in Aggregates /\ pc[w] = "held" /\ Faithful(m, "held")
      /\ streams' \in [Aggregates -> Seq(Event)]
      /\ \A b \in Aggregates : b # a => streams'[b] = streams[b]
      /\ L \in Nat /\ m.version \in Nat /\ L = m.version - Len(m.uncommitted)
      /\ L < m.version /\ Len(streams'[a]) = m.version
      /\ \A i \in 1..L : streams'[a][i] = streams[a][i]
      /\ \A i \in 1..m.version :
           /\ streams'[a][i].id = m.state[i] /\ streams'[a][i].version = i
           /\ i > L => /\ i - L \in 1..Len(m.uncommitted)
                        /\ streams'[a][i] = m.uncommitted[i - L]
  <2>1. Extended(w, a)
    BY <1>0, AppendFact
  <2> QED
    BY <2>1, Zenon DEF Extended
<1>2. /\ mem \in [Writers -> Root] /\ pc \in [Writers -> {"idle", "loading", "held", "snapshot"}]
      /\ raised \in 0..MaxEvents /\ faults \in 0..MaxFaults
      /\ snapshots \in [Aggregates -> {None} \cup [version : Versions, payload : Seq(EventIds)]]
  BY DEF RepoTypeOK, Root, Event
<1>21. <<>> \in Seq(Event) /\ Len(<<>>) = 0
  OBVIOUS
<1>3. mem' = [mem EXCEPT ![w] = [m EXCEPT !.uncommitted = <<>>]]
  BY <1>2 DEF SaveAppend
<1>4. PICK label \in {"snapshot", "held"} : pc' = [pc EXCEPT ![w] = label]
  BY DEF SaveAppend, Goto
<1>5. UNCHANGED <<snapshots, raised, faults>>
  BY DEF SaveAppend
<1>6. /\ mem' \in [Writers -> Root] /\ \A v \in Writers : v # w => mem'[v] = mem[v] /\ pc'[v] = pc[v]
      /\ mem'[w].agg = a /\ mem'[w].version = m.version /\ mem'[w].state = m.state
      /\ mem'[w].uncommitted = <<>> /\ Len(mem'[w].uncommitted) = 0 /\ pc'[w] = label
      /\ pc' \in [Writers -> {"idle", "loading", "held", "snapshot"}]
  BY <1>0, <1>2, <1>21, <1>3, <1>4, ZenonT(60) DEF Root
<1>7. all' \in Seq([agg : Aggregates, version : Versions])
  BY LogFact DEF Logged
<1>8. RepoTypeOK'
  BY <1>1, <1>2, <1>5, <1>6, <1>7 DEF RepoTypeOK, Root, Event
<1>9. \A i \in 1..m.version : i <= m.state[i] /\ m.state[i] <= raised
  BY <1>1 DEF Faithful
<1>10. StreamInv'
  <2> SUFFICES ASSUME NEW b \in Aggregates, NEW i \in 1..Len(streams'[b])
               PROVE  /\ streams'[b][i].version = i
                      /\ i <= streams'[b][i].id /\ streams'[b][i].id <= raised
    BY <1>5 DEF StreamInv
  <2>1. CASE b = a
    BY <1>1, <1>9, <2>1, ZenonT(60)
  <2>2. CASE b # a
    <3>1. streams'[b] = streams[b]
      BY <1>1, <2>2
    <3>2. i \in 1..Len(streams[b])
      BY <3>1
    <3> QED
      BY <3>1, <3>2 DEF StreamInv
  <2> QED
    BY <2>1, <2>2
<1>11. \A b \in Aggregates : /\ Len(streams[b]) \in Nat /\ Len(streams[b]) <= Len(streams'[b])
                              /\ Len(streams'[b]) \in Nat
                              /\ \A i \in 1..Len(streams[b]) : streams'[b][i] = streams[b][i]
  <2> SUFFICES ASSUME NEW b \in Aggregates
               PROVE  /\ Len(streams[b]) \in Nat /\ Len(streams[b]) <= Len(streams'[b])
                      /\ Len(streams'[b]) \in Nat
                      /\ \A i \in 1..Len(streams[b]) : streams'[b][i] = streams[b][i]
    OBVIOUS
  <2>1. CASE b = a
    BY <1>1, <2>1
  <2>2. CASE b # a
    <3>1. Len(streams[b]) \in Nat
      BY TypeFact
    <3> QED
      BY <1>1, <2>2, <3>1
  <2> QED
    BY <2>1, <2>2
<1>12. SnapInv'
  <2> SUFFICES ASSUME NEW b \in Aggregates, snapshots[b] # None
               PROVE  /\ snapshots[b].version > 0
                      /\ snapshots[b].version = Len(snapshots[b].payload)
                      /\ snapshots[b].version <= Len(streams'[b])
                      /\ \A i \in 1..snapshots[b].version :
                           snapshots[b].payload[i] = streams'[b][i].id
    BY <1>5 DEF SnapInv
  <2>1. snapshots[b].version \in Nat
    BY <1>2 DEF Versions
  <2>2. \A i \in 1..snapshots[b].version : i \in 1..Len(streams[b])
    BY <1>11, <2>1 DEF SnapInv
  <2>3. snapshots[b].version <= Len(streams'[b])
    BY <1>11, <2>1 DEF SnapInv
  <2> QED
    BY <1>11, <2>2, <2>3 DEF SnapInv
<1>13. HeldInv'
  <2>1. ASSUME NEW v \in Writers, v # w
        PROVE  (IF pc[v] = "idle" THEN Len(mem[v].uncommitted) = 0 ELSE Faithful(mem[v], pc[v]))'
    <3>1. mem'[v] = mem[v] /\ pc'[v] = pc[v]
      BY <1>6, <2>1
    <3>2. CASE pc[v] = "idle"
      BY <3>1, <3>2 DEF HeldInv
    <3>3. CASE pc[v] # "idle"
      <4> DEFINE n == mem[v].version - Len(mem[v].uncommitted)
                 b == mem[v].agg
      <4>1. Faithful(mem[v], pc[v])
        BY <3>3 DEF HeldInv
      <4>2. b \in Aggregates /\ n \in Int
        BY TypeFact
      <4>3. n <= Len(streams[b]) /\ \A i \in 1..n : mem[v].state[i] = streams[b][i].id
        BY <4>1 DEF Faithful
      <4>4. n <= Len(streams'[b]) /\ \A i \in 1..n : mem[v].state[i] = streams'[b][i].id
        <5>1. n <= Len(streams'[b]) /\ \A i \in 1..n : i \in 1..Len(streams[b])
          BY <1>11, <4>2, <4>3
        <5> QED
          BY <1>11, <4>2, <4>3, <5>1
      <4> QED
        BY <1>5, <3>1, <3>3, <4>1, <4>4 DEF Faithful
    <3> QED
      BY <3>2, <3>3
  <2>2. Faithful(mem[w], pc[w])'
    <3>1. m.version = Len(m.state) /\ \A i \in 1..Len(m.state) : i <= m.state[i] /\ m.state[i] <= raised
      BY <1>1 DEF Faithful
    <3>2. m.version - Len(mem'[w].uncommitted) = m.version /\ m.version > 0
      BY <1>1, <1>6
    <3>3. /\ mem'[w].version - Len(mem'[w].uncommitted) = Len(streams'[a])
          /\ Len(mem'[w].uncommitted) <= mem'[w].version /\ mem'[w].version > 0
      BY <1>1, <1>6, <3>2
    <3>4. Len(streams'[a]) <= Len(streams'[a])
      BY <1>1
    <3>5. \A i \in 1..Len(streams'[a]) : mem'[w].state[i] = streams'[a][i].id
      BY <1>1, <1>6
    <3>6. mem'[w].version = Len(mem'[w].state) /\ mem'[w].agg = a
          /\ \A i \in 1..Len(mem'[w].state) : i <= mem'[w].state[i] /\ mem'[w].state[i] <= raised'
      BY <1>5, <1>6, <3>1
    <3>7. 1..Len(mem'[w].uncommitted) = {} /\ Len(mem'[w].uncommitted) = 0
      BY <1>6
    <3> QED
      BY <3>3, <3>4, <3>5, <3>6, <3>7 DEF Faithful
  <2>3. pc'[w] # "idle"
    BY <1>6
  <2> QED
    BY <2>1, <2>2, <2>3 DEF HeldInv
<1>14. FreshInv'
  <2>1. ASSUME NEW v \in Writers, NEW i \in 1..Len(mem'[v].uncommitted)
        PROVE  v # w /\ mem'[v] = mem[v]
    BY <1>6
  <2>2. ASSUME NEW v \in Writers, NEW i \in 1..Len(mem'[v].uncommitted),
               NEW b \in Aggregates, NEW j \in 1..Len(streams'[b])
        PROVE  streams'[b][j].id # mem'[v].uncommitted[i].id
    <3>1. v # w /\ mem'[v] = mem[v] /\ i \in 1..Len(mem[v].uncommitted)
      BY <2>1
    <3>2. CASE j \in 1..Len(streams[b])
      BY <1>11, <3>1, <3>2 DEF FreshInv
    <3>3. CASE j \notin 1..Len(streams[b])
      <4>1. b = a
        BY <1>1, <3>3
      <4>2. j \in 1..m.version /\ j > L
        BY <1>1, <3>3, <4>1
      <4>3. j - L \in 1..Len(m.uncommitted) /\ streams'[b][j] = m.uncommitted[j - L]
        BY <1>1, <4>1, <4>2
      <4> QED
        BY <3>1, <4>3 DEF FreshInv
    <3> QED
      BY <3>2, <3>3
  <2>3. ASSUME NEW v \in Writers, NEW i \in 1..Len(mem'[v].uncommitted)
        PROVE  mem'[v].uncommitted[i].id <= raised'
    BY <1>5, <2>1 DEF FreshInv
  <2>4. ASSUME NEW x \in Writers, NEW v \in Writers, x # v,
               NEW i \in 1..Len(mem'[x].uncommitted), NEW j \in 1..Len(mem'[v].uncommitted)
        PROVE  mem'[x].uncommitted[i].id # mem'[v].uncommitted[j].id
    <3>1. mem'[x] = mem[x] /\ mem'[v] = mem[v]
      BY <2>1
    <3> QED
      BY <2>4, <3>1 DEF FreshInv
  <2> QED
    BY <2>2, <2>3, <2>4 DEF FreshInv
<1> QED
  BY <1>8, <1>10, <1>12, <1>13, <1>14

\* A snapshot of stored events only, written late or not.
LEMMA SaveSnapshotStep == ASSUME RInv, NEW w \in Writers, SaveSnapshot(w) PROVE RInv'
<1> USE DEF RInv
<1> DEFINE m == mem[w]
           a == m.agg
           s == [version |-> m.version, payload |-> m.state]
<1>1. /\ pc[w] = "snapshot" /\ snapshots' = [snapshots EXCEPT ![a] = s]
      /\ pc' = [pc EXCEPT ![w] = "held"] /\ UNCHANGED <<streams, all, mem, raised, faults>>
  BY DEF SaveSnapshot, Goto
<1>2. Faithful(m, "snapshot")
  BY <1>1 DEF HeldInv
<1>3. /\ m \in Root /\ a \in Aggregates /\ m.version \in Nat /\ m.version \in Versions
      /\ m.state \in Seq(EventIds) /\ Len(m.uncommitted) = 0
  BY <1>2, TypeFact DEF Faithful, Root
<1>4. m.version - Len(m.uncommitted) = m.version
  BY <1>3
<1>5. /\ s \in [version : Versions, payload : Seq(EventIds)]
      /\ s.version = m.version /\ s.payload = m.state
  BY <1>3
<1> HIDE DEF s
<1>6. /\ s.version > 0 /\ s.version = Len(s.payload) /\ s.version <= Len(streams[a])
      /\ \A i \in 1..s.version : s.payload[i] = streams[a][i].id
  BY <1>2, <1>4, <1>5 DEF Faithful
<1>7. /\ snapshots \in [Aggregates -> {None} \cup [version : Versions, payload : Seq(EventIds)]]
      /\ pc \in [Writers -> {"idle", "loading", "held", "snapshot"}]
  BY DEF RepoTypeOK
<1>8. /\ snapshots' \in [Aggregates -> {None} \cup [version : Versions, payload : Seq(EventIds)]]
      /\ pc' \in [Writers -> {"idle", "loading", "held", "snapshot"}]
      /\ snapshots'[a] = s /\ \A b \in Aggregates : b # a => snapshots'[b] = snapshots[b]
      /\ pc'[w] = "held" /\ \A v \in Writers : v # w => pc'[v] = pc[v]
  BY <1>1, <1>3, <1>5, <1>7
<1>9. RepoTypeOK'
  BY <1>1, <1>8 DEF RepoTypeOK
<1>10. StreamInv' /\ FreshInv'
  BY <1>1 DEF StreamInv, FreshInv
<1>11. SnapInv'
  BY <1>1, <1>6, <1>8 DEF SnapInv
<1>12. HeldInv'
  <2>1. Faithful(mem[w], pc[w])'
    BY <1>1, <1>2, <1>8 DEF Faithful
  <2>2. ASSUME NEW v \in Writers, v # w
        PROVE  (IF pc[v] = "idle" THEN Len(mem[v].uncommitted) = 0 ELSE Faithful(mem[v], pc[v]))'
    BY <1>1, <1>8, <2>2 DEF HeldInv, Faithful
  <2>3. pc'[w] # "idle"
    BY <1>8
  <2> QED
    BY <2>1, <2>2, <2>3 DEF HeldInv
<1> QED
  BY <1>9, <1>10, <1>11, <1>12

-----------------------------------------------------------------------------
(* The repository *)

LEMMA RepoInitial == RepoInit => RInv
<1> SUFFICES ASSUME RepoInit PROVE RInv
  OBVIOUS
<1>1. NoRoot \in Root /\ Len(NoRoot.uncommitted) = 0
  BY NoRootFact
<1>2. /\ <<>> \in Seq(Event) /\ <<>> \in Seq([agg : Aggregates, version : Versions]) /\ Len(<<>>) = 0
  OBVIOUS
<1>3. /\ \A a \in Aggregates : streams[a] = <<>> /\ Len(streams[a]) = 0 /\ snapshots[a] = None
      /\ \A w \in Writers : mem[w] = NoRoot /\ pc[w] = "idle" /\ Len(mem[w].uncommitted) = 0
  BY <1>1, <1>2 DEF RepoInit
<1>4. streams \in [Aggregates -> Seq(Event)] /\ mem \in [Writers -> Root]
  BY <1>1, <1>2 DEF RepoInit
<1>5. raised \in 0..MaxEvents /\ faults \in 0..MaxFaults
  BY DEF RepoInit
<1>6. RepoTypeOK
  BY <1>2, <1>4, <1>5 DEF RepoInit, RepoTypeOK, Root, Event
<1>7. StreamInv /\ SnapInv /\ HeldInv
  BY <1>3 DEF StreamInv, SnapInv, HeldInv
<1>8. FreshInv
  BY <1>3 DEF FreshInv
<1> QED
  BY <1>6, <1>7, <1>8 DEF RInv

\* A step that at most counts a fault.
LEMMA IdleStep ==
  ASSUME RInv, UNCHANGED <<streams, all, snapshots, pc, mem, raised>>, faults' \in 0..MaxFaults
  PROVE  RInv'
<1>1. RepoTypeOK'
  BY DEF RInv, RepoTypeOK
<1>2. StreamInv' /\ SnapInv' /\ FreshInv'
  BY DEF RInv, StreamInv, SnapInv, FreshInv
<1>3. HeldInv'
  BY DEF RInv, HeldInv, Faithful
<1> QED
  BY <1>1, <1>2, <1>3 DEF RInv

\* A caller that drops an aggregate keeps the faults within their bound.
LEMMA FailedSave ==
  ASSUME Reload, RInv, NEW w \in Writers, SaveConflict(w) \/ SaveAppendErr(w) \/ SaveSnapshotErr(w)
  PROVE  /\ pc' = [pc EXCEPT ![w] = "idle"] /\ mem' = [mem EXCEPT ![w] = NoRoot]
         /\ UNCHANGED <<streams, all, snapshots, raised>> /\ faults' \in 0..MaxFaults
<1>1. faults \in 0..MaxFaults
  BY DEF RInv, RepoTypeOK
<1>2. /\ SaveFails(w) /\ UNCHANGED <<streams, all, snapshots, raised>>
      /\ UNCHANGED faults \/ Fault
  BY DEF SaveConflict, SaveAppendErr, SaveSnapshotErr
<1>3. faults' \in 0..MaxFaults
  BY <1>1, <1>2 DEF Fault
<1> QED
  BY <1>2, <1>3 DEF SaveFails, Goto

LEMMA RepoStep == ASSUME Reload, RInv, [RepoNext]_rvars PROVE RInv'
<1>1. CASE UNCHANGED rvars
  <2>1. faults' \in 0..MaxFaults /\ UNCHANGED <<streams, all, snapshots, pc, mem, raised>>
    BY <1>1 DEF rvars, RInv, RepoTypeOK
  <2> QED
    BY <2>1, IdleStep
<1>2. ASSUME NEW w \in Writers, Writer(w) PROVE RInv'
  <2>1. CASE \E a \in Aggregates : LoadSnapshot(w, a)
    BY <2>1, LoadSnapshotStep
  <2>2. CASE LoadEvents(w)
    BY <2>2, LoadEventsStep
  <2>3. CASE Raise(w)
    BY <2>3, RaiseStep
  <2>4. CASE Abandon(w)
    <3>1. /\ pc' = [pc EXCEPT ![w] = "idle"] /\ mem' = [mem EXCEPT ![w] = NoRoot]
          /\ UNCHANGED <<streams, all, snapshots, raised>> /\ faults' \in 0..MaxFaults
      BY <2>4 DEF Abandon, Goto, RInv, RepoTypeOK
    <3> QED
      BY <3>1, DropStep
  <2>5. CASE SaveAppend(w)
    BY <2>5, SaveAppendStep
  <2>6. CASE SaveConflict(w) \/ SaveAppendErr(w) \/ SaveSnapshotErr(w)
    BY <2>6, FailedSave, DropStep
  <2>7. CASE SaveSnapshot(w)
    BY <2>7, SaveSnapshotStep
  <2> QED
    BY <1>2, <2>1, <2>2, <2>3, <2>4, <2>5, <2>6, <2>7 DEF Writer
<1> QED
  BY <1>1, <1>2 DEF RepoNext

\* Two sequences of numbers that agree on their first n.
LEMMA FrontFact ==
  ASSUME NEW s \in Seq(EventIds), NEW t \in Seq(EventIds), NEW n \in Nat,
         n <= Len(s), n <= Len(t), \A i \in 1..n : s[i] = t[i]
  PROVE  /\ SubSeq(s, 1, n) = SubSeq(t, 1, n) /\ SubSeq(s, 1, n) \in Seq(EventIds)
         /\ n = Len(t) => SubSeq(s, 1, n) = t
<1>1. Len(s) \in Nat /\ Len(t) \in Nat
  BY LenProperties
<1>2. \A i \in 1..n : i \in 1..Len(s) /\ i \in 1..Len(t)
  BY <1>1
<1>20. \A i \in 1..n : s[i] \in EventIds /\ t[i] \in EventIds
  BY <1>2, ElementOfSeq
<1> DEFINE x == SubSeq(s, 1, n)
           y == SubSeq(t, 1, n)
<1>3. n \in Int /\ 1 \in Int /\ (IF 1 <= n THEN n - 1 + 1 ELSE 0) = n /\ n - 1 + 1 = n
      /\ \A i \in 1..n : 1 + i - 1 = i
  OBVIOUS
<1>4. /\ x \in Seq(EventIds) /\ Len(x) = (IF 1 <= n THEN n - 1 + 1 ELSE 0)
      /\ \A i \in 1..(n - 1 + 1) : x[i] = s[1 + i - 1]
  BY <1>20, <1>3, SubSeqProperties
<1>5. /\ y \in Seq(EventIds) /\ Len(y) = (IF 1 <= n THEN n - 1 + 1 ELSE 0)
      /\ \A i \in 1..(n - 1 + 1) : y[i] = t[1 + i - 1]
  BY <1>20, <1>3, SubSeqProperties
<1> HIDE DEF x, y
<1>6. Len(x) = n /\ Len(y) = n /\ \A i \in 1..n : x[i] = s[i] /\ y[i] = t[i]
  BY <1>3, <1>4, <1>5
<1>7. Len(x) = Len(y) /\ \A i \in 1..Len(x) : x[i] = y[i]
  BY <1>6
<1>8. x = y
  BY <1>4, <1>5, <1>7, SeqEqual
<1>9. ASSUME n = Len(t) PROVE x = t
  <2>1. Len(x) = Len(t) /\ \A i \in 1..Len(x) : x[i] = t[i]
    BY <1>6, <1>9
  <2> QED
    BY <1>4, <2>1, SeqEqual
<1> QED
  BY <1>4, <1>8, <1>9 DEF x, y

\* Where one of them is no longer than that, it is a prefix of the other.
LEMMA PrefixFact ==
  ASSUME NEW s \in Seq(EventIds), NEW t \in Seq(EventIds), Len(s) <= Len(t),
         \A i \in 1..Len(s) : s[i] = t[i]
  PROVE  IsPrefix(s, t)
<1>1. Len(s) \in Nat /\ Len(t) \in Nat /\ Len(s) <= Len(s)
  BY LenProperties
<1>2. SubSeq(s, 1, Len(s)) = SubSeq(t, 1, Len(s))
  BY <1>1, FrontFact
<1> QED
  BY <1>2 DEF IsPrefix

\* What RInv says of snapshots is what a reader of load() needs.
LEMMA SnapshotsRead == RInv => SnapshotFaithful
<1> SUFFICES ASSUME RInv, NEW a \in Aggregates, snapshots[a] # None
             PROVE  /\ snapshots[a].version > 0
                    /\ snapshots[a].version = Len(snapshots[a].payload)
                    /\ IsPrefix(snapshots[a].payload, Ids(streams[a]))
  BY DEF SnapshotFaithful
<1>1. snapshots[a].payload \in Seq(EventIds)
  BY DEF RInv, RepoTypeOK
<1>2. /\ snapshots[a].version > 0
      /\ snapshots[a].version = Len(snapshots[a].payload)
      /\ snapshots[a].version <= Len(streams[a])
      /\ \A i \in 1..snapshots[a].version : snapshots[a].payload[i] = streams[a][i].id
  BY DEF RInv, SnapInv
<1>3. streams[a] \in Seq(Event) /\ Len(streams[a]) \in Nat
  BY TypeFact DEF RInv
<1>4. /\ Ids(streams[a]) \in Seq(EventIds) /\ Len(Ids(streams[a])) = Len(streams[a])
      /\ \A i \in 1..Len(streams[a]) : Ids(streams[a])[i] = streams[a][i].id
  BY <1>3, IdsFact
<1>5. Len(snapshots[a].payload) \in Nat
  BY <1>1, LenProperties
<1>6. \A i \in 1..Len(snapshots[a].payload) : i \in 1..Len(streams[a])
  BY <1>2, <1>3, <1>5
<1>7. /\ Len(snapshots[a].payload) <= Len(Ids(streams[a]))
      /\ \A i \in 1..Len(snapshots[a].payload) : snapshots[a].payload[i] = Ids(streams[a])[i]
  BY <1>2, <1>4, <1>6
<1>8. IsPrefix(snapshots[a].payload, Ids(streams[a]))
  BY <1>1, <1>4, <1>7, PrefixFact
<1> QED
  BY <1>2, <1>8

-----------------------------------------------------------------------------
(* The repository implements EventLog *)

Viewed(w) == IF pc[w] \in {"held", "snapshot"}
             THEN [agg |-> mem[w].agg, base |-> Base(w)] ELSE None

\* The abstract log and the abstract views.
LogBar == [a \in Aggregates |-> Ids(streams[a])]
ViewBar == [w \in Writers |-> Viewed(w)]

\* What an aggregate in memory was built from, when it is the whole stream.
LEMMA BaseFact ==
  ASSUME NEW st \in Seq(EventIds), NEW s \in Seq(Event), NEW n \in Nat,
         n <= Len(st), n = Len(s), \A i \in 1..n : st[i] = s[i].id
  PROVE  SubSeq(st, 1, n) = Ids(s)
<1>1. /\ Ids(s) \in Seq(EventIds) /\ Len(Ids(s)) = Len(s)
      /\ \A i \in 1..Len(s) : Ids(s)[i] = s[i].id
  BY IdsFact
<1>2. n <= Len(Ids(s)) /\ n = Len(Ids(s)) /\ \A i \in 1..n : st[i] = Ids(s)[i]
  BY <1>1
<1> QED
  BY <1>1, <1>2, FrontFact

\* A writer that a step does not touch keeps its view.
LEMMA ViewsOfOthers ==
  ASSUME NEW w \in Writers,
         \A v \in Writers : v # w => mem'[v] = mem[v] /\ pc'[v] = pc[v]
  PROVE  ViewBar' = [ViewBar EXCEPT ![w] = Viewed(w)']
<1>1. \A v \in Writers : v # w => Viewed(v)' = Viewed(v)
  BY DEF Viewed, Base, Pending
<1> QED
  BY <1>1 DEF ViewBar

\* The view of a writer that holds an aggregate is not NoView.
LEMMA HeldView ==
  ASSUME RInv, NEW w \in Writers, pc[w] \in {"held", "snapshot"}
  PROVE  /\ Viewed(w) = [agg |-> mem[w].agg, base |-> Base(w)] /\ Viewed(w) # None
         /\ mem[w].version - Pending(w) \in Nat /\ mem[w].version - Pending(w) <= Len(mem[w].state)
         /\ Len(mem[w].state) - Pending(w) = mem[w].version - Pending(w)
<1>1. /\ mem[w].agg \in Aggregates /\ mem[w].version \in Nat
      /\ mem[w].state \in Seq(EventIds) /\ Len(mem[w].state) \in Nat
      /\ mem[w].uncommitted \in Seq(Event) /\ Len(mem[w].uncommitted) \in Nat
  BY TypeFact DEF RInv
<1>2. Faithful(mem[w], pc[w])
  BY DEF RInv, HeldInv
<1>3. mem[w].version = Len(mem[w].state) /\ Len(mem[w].uncommitted) <= mem[w].version
  BY <1>2 DEF Faithful
<1> DEFINE n == mem[w].version - Len(mem[w].uncommitted)
<1>4. n \in Nat /\ n <= Len(mem[w].state) /\ Len(mem[w].state) - Len(mem[w].uncommitted) = n
  <2>1. ASSUME NEW x \in Nat, NEW y \in Nat, y <= x PROVE x - y \in Nat /\ x - y <= x
    BY <2>1
  <2> QED
    BY <1>1, <1>3, <2>1
<1> HIDE DEF n
<1>5. Base(w) = SubSeq(mem[w].state, 1, n)
  BY <1>4 DEF Base, Pending
<1>6. Base(w) \in Seq(EventIds)
  BY <1>1, <1>4, <1>5, FrontFact
<1>7. EventIds \subseteq Nat
  BY DEF EventIds
<1>8. Base(w) \in Seq(Nat)
  <2>1. Len(Base(w)) \in Nat /\ Base(w) \in [1..Len(Base(w)) -> EventIds]
    BY <1>6, LenProperties
  <2>2. Base(w) \in [1..Len(Base(w)) -> Nat]
    BY <1>7, <2>1
  <2> QED
    BY <2>1, <2>2, SeqDef
<1>9. [agg |-> mem[w].agg, base |-> Base(w)] # None
  BY <1>1, <1>8
<1> QED
  BY <1>4, <1>9 DEF Viewed, Pending, n

\* load() ends with a consistent copy of the stream.
LEMMA ReadMaps ==
  ASSUME RInv, NEW w \in Writers, LoadEvents(w)
  PROVE  mem[w].agg \in Aggregates /\ Log!Read(w, mem[w].agg)
<1> DEFINE a == mem[w].agg
<1>1. /\ RInv' /\ mem'[w].agg = a /\ Len(mem'[w].uncommitted) = 0
      /\ mem'[w].version = Len(streams[a])
  BY LoadEventsStep
<1>2. /\ pc[w] = "loading" /\ pc' = [pc EXCEPT ![w] = "held"] /\ UNCHANGED streams
      /\ mem \in [Writers -> Root] /\ pc \in [Writers -> {"idle", "loading", "held", "snapshot"}]
  BY DEF LoadEvents, Goto, RInv, RepoTypeOK, Root, Event
<1>3. /\ a \in Aggregates /\ streams[a] \in Seq(Event) /\ Len(streams[a]) \in Nat
  BY TypeFact DEF RInv
<1>4. pc'[w] = "held" /\ \A v \in Writers : v # w => mem'[v] = mem[v] /\ pc'[v] = pc[v]
  <2>1. \A v \in Writers : v # w => mem'[v] = mem[v]
    BY <1>2 DEF LoadEvents
  <2> QED
    BY <1>2, <2>1
<1>5. Faithful(mem[w], pc[w])'
  BY <1>1, <1>4 DEF RInv, HeldInv
<1>6. /\ mem'[w].version = Len(mem'[w].state)
      /\ \A i \in 1..(mem'[w].version - Len(mem'[w].uncommitted)) : mem'[w].state[i] = streams[a][i].id
  BY <1>1, <1>2, <1>5 DEF Faithful
<1>7. mem'[w].state \in Seq(EventIds)
  BY <1>1 DEF RInv, RepoTypeOK
<1>8. mem'[w].version - Len(mem'[w].uncommitted) = Len(streams[a])
      /\ Len(streams[a]) <= Len(mem'[w].state)
  BY <1>1, <1>3, <1>6
<1>9. SubSeq(mem'[w].state, 1, Len(streams[a])) = Ids(streams[a])
  <2>1. \A i \in 1..Len(streams[a]) : mem'[w].state[i] = streams[a][i].id
    BY <1>6, <1>8
  <2> HIDE DEF a
  <2> QED
    BY <1>3, <1>7, <1>8, <2>1, BaseFact
<1>10. Base(w)' = Ids(streams[a])
  BY <1>6, <1>8, <1>9 DEF Base, Pending
<1>11. Viewed(w)' = [agg |-> a, base |-> LogBar[a]] /\ Viewed(w) = None
  BY <1>1, <1>2, <1>3, <1>4, <1>10 DEF Viewed, LogBar
<1>12. ViewBar' = [ViewBar EXCEPT ![w] = [agg |-> a, base |-> LogBar[a]]] /\ ViewBar[w] = None
  BY <1>4, <1>11, ViewsOfOthers DEF ViewBar
<1>13. UNCHANGED LogBar
  BY <1>2 DEF LogBar
<1>14. Log!Read(w, a)
  BY <1>12, <1>13 DEF Log!Read, LogBar, ViewBar, Viewed
<1> QED
  BY <1>3, <1>14

\* An aggregate that is dropped.
LEMMA DropMaps ==
  ASSUME RInv, NEW w \in Writers, pc' = [pc EXCEPT ![w] = "idle"],
         mem' = [mem EXCEPT ![w] = NoRoot], UNCHANGED streams
  PROVE  Log!Drop(w)
<1>1. mem \in [Writers -> Root] /\ pc \in [Writers -> {"idle", "loading", "held", "snapshot"}]
  BY DEF RInv, RepoTypeOK, Root, Event
<1>2. pc'[w] = "idle" /\ \A v \in Writers : v # w => mem'[v] = mem[v] /\ pc'[v] = pc[v]
  BY <1>1
<1>3. Viewed(w)' = None
  BY <1>2 DEF Viewed
<1>4. ViewBar' = [ViewBar EXCEPT ![w] = None]
  BY <1>2, <1>3, ViewsOfOthers
<1>5. UNCHANGED LogBar
  BY DEF LogBar
<1> QED
  BY <1>4, <1>5 DEF Log!Drop, LogBar, ViewBar, Viewed

\* A step that neither stores events nor changes what a writer has loaded.
LEMMA ViewUnchanged ==
  ASSUME NEW w \in Writers, UNCHANGED streams, Viewed(w)' = Viewed(w),
         \A v \in Writers : v # w => mem'[v] = mem[v] /\ pc'[v] = pc[v]
  PROVE  UNCHANGED Log!logvars
<1>1. ViewBar' = ViewBar
  BY ViewsOfOthers DEF ViewBar
<1>2. UNCHANGED LogBar
  BY DEF LogBar
<1> QED
  BY <1>1, <1>2 DEF Log!logvars, LogBar, ViewBar, Viewed

LEMMA RaiseMaps == ASSUME RInv, NEW w \in Writers, Raise(w) PROVE UNCHANGED Log!logvars
<1> DEFINE m == mem[w]
           e == [id |-> raised + 1, version |-> m.version + 1]
<1>1. /\ pc[w] = "held" /\ UNCHANGED <<streams, pc>> /\ raised' = raised + 1 /\ raised < MaxEvents
      /\ mem \in [Writers -> Root] /\ raised \in Nat
  <2>1. mem \in [Writers -> Root]
    BY DEF RInv, RepoTypeOK, Root, Event
  <2>2. raised \in Nat
    BY TypeFact DEF RInv
  <2> QED
    BY <2>1, <2>2 DEF Raise
<1>2. /\ m.agg \in Aggregates /\ m.version \in Nat /\ m.state \in Seq(EventIds)
      /\ m.uncommitted \in Seq(Event) /\ Len(m.state) \in Nat /\ Len(m.uncommitted) \in Nat
  BY TypeFact DEF RInv
<1>3. /\ mem'[w].agg = m.agg /\ mem'[w].state = Append(m.state, raised + 1)
      /\ mem'[w].uncommitted = Append(m.uncommitted, e)
      /\ \A v \in Writers : v # w => mem'[v] = mem[v]
  BY <1>1 DEF Raise, Root
<1>4. raised + 1 \in EventIds
  BY <1>1 DEF EventIds
<1>5. RInv'
  BY RaiseStep
<1>6. mem'[w].state \in Seq(EventIds) /\ mem'[w].uncommitted \in Seq(Event)
  BY <1>5 DEF RInv, RepoTypeOK, Event
<1>7. /\ Len(mem'[w].state) = Len(m.state) + 1 /\ Len(mem'[w].uncommitted) = Len(m.uncommitted) + 1
      /\ \A i \in 1..Len(m.state) : mem'[w].state[i] = m.state[i]
  <2>1. /\ Len(mem'[w].state) = Len(m.state) + 1
        /\ \A i \in 1..Len(m.state) : mem'[w].state[i] = m.state[i]
    BY <1>2, <1>3, <1>4, AppendProperties
  <2>2. Len(mem'[w].uncommitted) = Len(m.uncommitted) + 1
    BY <1>2, <1>3
  <2> QED
    BY <2>1, <2>2
<1> DEFINE n == Len(m.state) - Len(m.uncommitted)
<1>8. n \in Nat /\ n <= Len(m.state)
  BY <1>1, HeldView DEF Pending
<1>9. Len(mem'[w].state) - Len(mem'[w].uncommitted) = n /\ n <= Len(mem'[w].state)
  <2>1. ASSUME NEW x \in Nat, NEW y \in Nat, x - y <= x
        PROVE  (x + 1) - (y + 1) = x - y /\ x - y <= x + 1
    BY <2>1
  <2>2. /\ (Len(m.state) + 1) - (Len(m.uncommitted) + 1) = Len(m.state) - Len(m.uncommitted)
        /\ Len(m.state) - Len(m.uncommitted) <= Len(m.state) + 1
    BY <1>2, <1>8, <2>1
  <2> QED
    BY <1>7, <2>2
<1> HIDE DEF n
<1>10. \A i \in 1..n : m.state[i] = mem'[w].state[i]
  BY <1>2, <1>7, <1>8
<1>11. SubSeq(m.state, 1, n) = SubSeq(mem'[w].state, 1, n)
  BY <1>2, <1>6, <1>8, <1>9, <1>10, FrontFact
<1>12. Base(w)' = Base(w)
  BY <1>9, <1>11 DEF Base, Pending, n
<1>13. Viewed(w)' = Viewed(w)
  BY <1>1, <1>3, <1>12 DEF Viewed
<1> QED
  BY <1>1, <1>3, <1>13, ViewUnchanged

\* An append that is accepted extends the very log the aggregate was read from.
LEMMA CommitMaps == ASSUME RInv, NEW w \in Writers, SaveAppend(w) PROVE Log!Commit(w)
<1> DEFINE a == mem[w].agg
           m == mem[w]
           u == m.uncommitted
           L == Len(streams[a])
<1>0. a = mem[w].agg
  OBVIOUS
<1>01. RInv'
  BY SaveAppendStep
<1> HIDE DEF a
<1>1. /\ a \in Aggregates /\ pc[w] = "held" /\ Faithful(m, "held")
      /\ streams' \in [Aggregates -> Seq(Event)]
      /\ \A b \in Aggregates : b # a => streams'[b] = streams[b]
      /\ L \in Nat /\ m.version \in Nat /\ L = m.version - Len(u)
      /\ L < m.version /\ Len(streams'[a]) = m.version
      /\ \A i \in 1..L : streams'[a][i] = streams[a][i]
      /\ \A i \in 1..m.version :
           /\ streams'[a][i].id = m.state[i] /\ streams'[a][i].version = i
           /\ i > L => i - L \in 1..Len(u) /\ streams'[a][i] = u[i - L]
  <2>1. Extended(w, a)
    BY <1>0, AppendFact
  <2> QED
    BY <2>1, Zenon DEF Extended
<1>2. /\ \A b \in Aggregates : streams[b] \in Seq(Event) /\ Len(streams[b]) \in Nat
      /\ m.state \in Seq(EventIds) /\ Len(m.state) \in Nat /\ Len(u) \in Nat
  BY TypeFact DEF RInv
<1>3. /\ m.version = Len(m.state) /\ \A i \in 1..(m.version - Len(u)) : m.state[i] = streams[a][i].id
  BY <1>0, <1>1 DEF Faithful
<1>4. \A i \in 1..L : m.state[i] = streams[a][i].id
  BY <1>1, <1>3
<1>5. /\ \A v \in Writers : v # w => mem'[v] = mem[v] /\ pc'[v] = pc[v]
      /\ mem'[w].agg = a /\ mem'[w].state = m.state /\ mem'[w].uncommitted = <<>>
      /\ pc'[w] \in {"held", "snapshot"}
  <2>1. mem \in [Writers -> Root] /\ pc \in [Writers -> {"idle", "loading", "held", "snapshot"}]
    BY DEF RInv, RepoTypeOK, Root, Event
  <2>2. mem' = [mem EXCEPT ![w] = [m EXCEPT !.uncommitted = <<>>]]
    BY <2>1 DEF SaveAppend
  <2>3. PICK label \in {"snapshot", "held"} : pc' = [pc EXCEPT ![w] = label]
    BY DEF SaveAppend, Goto
  <2> QED
    BY <1>0, <2>1, <2>2, <2>3 DEF Root
<1>6. Base(w) = LogBar[a]
  <2>0. L \in Nat /\ m.version \in Nat /\ L < m.version /\ m.version = Len(m.state)
    BY <1>1, <1>3
  <2>1. L <= Len(m.state) /\ L \in Nat /\ L = Len(streams[a])
    BY <2>0
  <2>2. SubSeq(m.state, 1, L) = Ids(streams[a])
    <3>1. streams[a] \in Seq(Event) /\ m.state \in Seq(EventIds)
      BY <1>1, <1>2
    <3> HIDE DEF L, m
    <3> QED
      BY <1>4, <2>1, <3>1, BaseFact
  <2>3. Len(m.state) - Len(u) = L
    BY <1>1, <1>3
  <2> QED
    BY <1>1, <2>2, <2>3 DEF Base, Pending, LogBar
<1>7. Base(w)' = LogBar'[a]
  <2>1. /\ streams'[a] \in Seq(Event) /\ Len(m.state) <= Len(m.state)
        /\ Len(m.state) = Len(streams'[a])
        /\ \A i \in 1..Len(m.state) : m.state[i] = streams'[a][i].id
    <3>1. Len(streams'[a]) = m.version /\ \A i \in 1..m.version : streams'[a][i].id = m.state[i]
      BY <1>1
    <3>2. streams'[a] \in Seq(Event)
      BY <1>1
    <3>3. Len(m.state) <= Len(m.state)
      BY <1>2
    <3> QED
      BY <1>3, <3>1, <3>2, <3>3
  <2>2. SubSeq(m.state, 1, Len(m.state)) = Ids(streams'[a])
    BY <1>2, <2>1, BaseFact
  <2>3. Len(mem'[w].state) - Len(mem'[w].uncommitted) = Len(m.state)
    <3>1. Len(mem'[w].uncommitted) = 0
      BY <1>5
    <3> QED
      BY <1>2, <1>5, <3>1
  <2> QED
    BY <1>1, <1>5, <2>2, <2>3 DEF Base, Pending, LogBar
<1>8. Viewed(w) = [agg |-> a, base |-> LogBar[a]] /\ Viewed(w) # None
  BY <1>0, <1>1, <1>6, HeldView
<1>9. Viewed(w)' = [agg |-> a, base |-> LogBar'[a]]
  BY <1>5, <1>7 DEF Viewed
<1>10. ViewBar' = [ViewBar EXCEPT ![w].base = LogBar'[a]]
  <2>1. ViewBar' = [ViewBar EXCEPT ![w] = Viewed(w)']
    BY <1>5, ViewsOfOthers
  <2>2. ViewBar[w] = Viewed(w)
    BY DEF ViewBar
  <2>3. [Viewed(w) EXCEPT !.base = LogBar'[a]] = Viewed(w)'
    BY <1>8, <1>9
  <2> QED
    BY <2>1, <2>2, <2>3
<1>11. /\ ViewBar[w] # None /\ ViewBar[w].agg = a /\ ViewBar[w].base = LogBar[a]
  BY <1>8 DEF ViewBar
<1>12. \A b \in Aggregates \ {a} : LogBar'[b] = LogBar[b]
  BY <1>1 DEF LogBar
<1>13. /\ LogBar[a] = Ids(streams[a]) /\ LogBar'[a] = Ids(streams'[a])
       /\ \A b \in Aggregates : LogBar[b] = Ids(streams[b])
  BY <1>1 DEF LogBar
<1>14. /\ LogBar[a] \in Seq(EventIds) /\ LogBar'[a] \in Seq(EventIds)
       /\ Len(LogBar[a]) = L /\ Len(LogBar'[a]) = m.version
       /\ \A i \in 1..L : LogBar[a][i] = streams[a][i].id
       /\ \A i \in 1..m.version : LogBar'[a][i] = streams'[a][i].id
  <2>1. streams[a] \in Seq(Event) /\ streams'[a] \in Seq(Event)
    BY <1>1, <1>2
  <2> QED
    BY <1>1, <1>13, <2>1, IdsFact
<1>15. IsPrefix(LogBar[a], LogBar'[a]) /\ LogBar[a] # LogBar'[a]
  <2>1. \A i \in 1..L : i \in 1..m.version
    BY <1>1
  <2>2. Len(LogBar[a]) <= Len(LogBar'[a]) /\ Len(LogBar[a]) # Len(LogBar'[a])
    BY <1>1, <1>14
  <2>3. \A i \in 1..Len(LogBar[a]) : LogBar[a][i] = LogBar'[a][i]
    <3>1. \A i \in 1..L : streams'[a][i] = streams[a][i]
      BY <1>1
    <3>2. /\ Len(LogBar[a]) = L /\ \A i \in 1..L : LogBar[a][i] = streams[a][i].id
          /\ \A i \in 1..m.version : LogBar'[a][i] = streams'[a][i].id
      BY <1>14
    <3> HIDE DEF L, m
    <3> QED
      BY <2>1, <3>1, <3>2
  <2> QED
    BY <1>14, <2>2, <2>3, PrefixFact
<1>16. ASSUME NEW i \in DOMAIN LogBar'[a], i > Len(LogBar[a]), NEW b \in Aggregates
       PROVE  LogBar'[a][i] \notin {LogBar[b][j] : j \in DOMAIN LogBar[b]}
  <2>1. i \in 1..m.version /\ i > L
    BY <1>14, <1>16, LenProperties
  <2>2. LogBar'[a][i] = u[i - L].id /\ i - L \in 1..Len(u)
    BY <1>1, <1>14, <2>1, ZenonT(60)
  <2>3. /\ DOMAIN LogBar[b] = 1..Len(streams[b])
        /\ \A j \in 1..Len(streams[b]) : LogBar[b][j] = streams[b][j].id
    <3>1. /\ Ids(streams[b]) \in Seq(EventIds) /\ Len(Ids(streams[b])) = Len(streams[b])
          /\ \A j \in 1..Len(streams[b]) : Ids(streams[b])[j] = streams[b][j].id
      BY <1>2, IdsFact
    <3>2. DOMAIN Ids(streams[b]) = 1..Len(streams[b])
      BY <3>1, LenProperties
    <3> QED
      BY <1>13, <3>1, <3>2
  <2>4. \A j \in 1..Len(streams[b]) : streams[b][j].id # u[i - L].id
    BY <2>2 DEF RInv, FreshInv
  <2> QED
    BY <2>2, <2>3, <2>4
<1> DEFINE V == ViewBar
           V1 == ViewBar'
           G == LogBar
           G1 == LogBar'
<1>17. /\ V[w] # None
       /\ V[w].base = G[V[w].agg]
       /\ Log!IsStrictPrefix(G[V[w].agg], G1[V[w].agg])
       /\ \A b \in Aggregates \ {V[w].agg} : G1[b] = G[b]
       /\ \A i \in DOMAIN G1[V[w].agg] : i > Len(G[V[w].agg]) =>
            \A b \in Aggregates : G1[V[w].agg][i] \notin Log!ToSet(G[b])
       /\ V1 = [V EXCEPT ![w].base = G1[V[w].agg]]
  <2>1. Log!IsStrictPrefix(G[a], G1[a])
    BY <1>15 DEF Log!IsStrictPrefix, Log!IsPrefix, IsPrefix
  <2>2. \A i \in DOMAIN G1[a] : i > Len(G[a]) =>
            \A b \in Aggregates : G1[a][i] \notin Log!ToSet(G[b])
    BY <1>16 DEF Log!ToSet
  <2> HIDE DEF V, V1, G, G1
  <2> QED
    BY <1>10, <1>11, <1>12, <2>1, <2>2 DEF V, V1, G, G1
<1> QED
  BY <1>17 DEF Log!Commit, LogBar, ViewBar, Viewed

\* Every step of the repository is a step of EventLog or leaves it alone.
LEMMA RepoStepMaps ==
  ASSUME Reload, RInv, [RepoNext]_rvars
  PROVE  [Log!LogNext]_(Log!logvars)
<1>1. CASE UNCHANGED rvars
  <2>1. UNCHANGED <<LogBar, ViewBar>>
    BY <1>1 DEF rvars, LogBar, ViewBar, Viewed, Base, Pending
  <2> QED
    BY <2>1 DEF Log!logvars, LogBar, ViewBar, Viewed
<1>2. ASSUME NEW w \in Writers, Writer(w)
      PROVE  [Log!LogNext]_(Log!logvars)
  <2>0. mem \in [Writers -> Root] /\ pc \in [Writers -> {"idle", "loading", "held", "snapshot"}]
    BY DEF RInv, RepoTypeOK, Root, Event
  <2>1. CASE \E a \in Aggregates : LoadSnapshot(w, a)
    <3>1. /\ UNCHANGED streams /\ pc[w] = "idle" /\ pc'[w] = "loading"
          /\ \A v \in Writers : v # w => mem'[v] = mem[v] /\ pc'[v] = pc[v]
      BY <2>0, <2>1 DEF LoadSnapshot, Goto
    <3>2. Viewed(w)' = Viewed(w)
      BY <3>1 DEF Viewed
    <3> QED
      BY <3>1, <3>2, ViewUnchanged
  <2>2. CASE LoadEvents(w)
    <3>1. mem[w].agg \in Aggregates /\ Log!Read(w, mem[w].agg)
      BY <2>2, ReadMaps
    <3>2. PICK a \in Aggregates : a = mem[w].agg
      BY <3>1
    <3>3. Log!Read(w, a)
      BY <3>1, <3>2 DEF Log!Read
    <3>4. Log!LogNext
      BY <3>3, Zenon DEF Log!LogNext
    <3> QED
      BY <3>4
  <2>3. CASE Raise(w)
    BY <2>3, RaiseMaps
  <2>4. CASE Abandon(w)
    <3>1. /\ pc' = [pc EXCEPT ![w] = "idle"] /\ mem' = [mem EXCEPT ![w] = NoRoot]
          /\ UNCHANGED streams
      BY <2>4 DEF Abandon, Goto
    <3>2. Log!Drop(w)
      BY <3>1, DropMaps
    <3> QED
      BY <3>2 DEF Log!LogNext
  <2>5. CASE SaveAppend(w)
    BY <2>5, CommitMaps DEF Log!LogNext
  <2>6. CASE SaveConflict(w) \/ SaveAppendErr(w) \/ SaveSnapshotErr(w)
    <3>1. Log!Drop(w)
      BY <2>6, FailedSave, DropMaps
    <3> QED
      BY <3>1 DEF Log!LogNext
  <2>7. CASE SaveSnapshot(w)
    <3>1. /\ UNCHANGED <<streams, mem>> /\ pc[w] = "snapshot" /\ pc'[w] = "held"
          /\ \A v \in Writers : v # w => pc'[v] = pc[v]
      BY <2>0, <2>7 DEF SaveSnapshot, Goto
    <3>2. Viewed(w)' = Viewed(w)
      BY <3>1 DEF Viewed, Base, Pending
    <3> QED
      BY <3>1, <3>2, ViewUnchanged
  <2> QED
    BY <1>2, <2>1, <2>2, <2>3, <2>4, <2>5, <2>6, <2>7 DEF Writer
<1> QED
  BY <1>1, <1>2 DEF RepoNext

LEMMA RepoInitMaps == RepoInit => Log!LogInit
<1> SUFFICES ASSUME RepoInit PROVE Log!LogInit
  OBVIOUS
<1>1. Ids(<<>>) = <<>>
  BY DEF Ids
<1>2. LogBar = [a \in Aggregates |-> <<>>] /\ ViewBar = [w \in Writers |-> None]
  BY <1>1 DEF RepoInit, LogBar, ViewBar, Viewed
<1> QED
  BY <1>2 DEF Log!LogInit, LogBar, ViewBar, Viewed

-----------------------------------------------------------------------------
(* The projections *)

USE ProjectionsAssumption

\* Every projection has the event.
Done(i) == \A p \in 1..NumProjections : i \in applied[p]

\* The event i is one that the caller k applies before the event e.
Concerns(k, i, e) == IF k = "replay" THEN all[i].agg = all[e].agg ELSE all[i].agg \in Tenant

\* Whatever precedes a fetched event is fetched as well or done.
PageInv ==
  \A k \in Callers : \A e \in todo[k] :
    /\ k # "replay" => all[e].agg \in Tenant
    /\ \A i \in 1..e : Concerns(k, i, e) => i \in todo[k] \/ Done(i)

\* The event whose turn it is has passed the projections before the next one.
HeadInv ==
  \A k \in Callers :
    /\ todo[k] = {} => next[k] = 1
    /\ \A e \in todo[k] : Turn(k, e) => \A p \in 1..(next[k] - 1) : e \in applied[p]

\* A cursor leaves nothing behind.
CursorInv ==
  \A k \in {"drive", "replay_all"} : \A i \in 1..cursor[k] : all[i].agg \in Tenant => Done(i)

\* Per projection no gap within an aggregate, and none ahead of an earlier one.
OrderInv ==
  \A p \in 1..NumProjections :
    /\ \A i \in applied[p] : \A j \in 1..i : all[j].agg = all[i].agg => j \in applied[p]
    /\ p > 1 => applied[p] \subseteq applied[p - 1]

PInv == RInv /\ ProjTypeOK /\ PageInv /\ HeadInv /\ CursorInv /\ OrderInv

LEMMA ProjTypeFact ==
  ASSUME PInv
  PROVE  /\ all \in Seq(Logged) /\ Len(all) \in Nat /\ DOMAIN all = 1..Len(all)
         /\ \A k \in Callers : /\ todo[k] \subseteq 1..Len(all) /\ todo[k] \subseteq Nat
                               /\ next[k] \in 1..NumProjections /\ cursor[k] \in 0..Len(all)
         /\ \A p \in 1..NumProjections : applied[p] \subseteq 1..Len(all)
<1>1. all \in Seq(Logged)
  BY DEF PInv, RInv, RepoTypeOK, Logged
<1>2. Len(all) \in Nat /\ DOMAIN all = 1..Len(all)
  BY <1>1, LenProperties
<1>3. 1..Len(all) \subseteq Nat
  BY <1>2
<1>4. \A k \in Callers : todo[k] \subseteq 1..Len(all) /\ next[k] \in 1..NumProjections
                          /\ cursor[k] \in 0..Len(all)
  BY <1>2 DEF PInv, ProjTypeOK
<1>5. \A p \in 1..NumProjections : applied[p] \subseteq 1..Len(all)
  BY <1>2 DEF PInv, ProjTypeOK
<1> QED
  BY <1>1, <1>2, <1>3, <1>4, <1>5

LEMMA ProjInitial == ProjInit => PInv
<1> SUFFICES ASSUME ProjInit PROVE PInv
  OBVIOUS
<1>1. RInv
  BY RepoInitial DEF ProjInit
<1>2. Len(all) = 0
  BY DEF ProjInit, RepoInit
<1>3. /\ \A k \in Callers : todo[k] = {} /\ next[k] = 1 /\ cursor[k] = 0
      /\ \A p \in 1..NumProjections : applied[p] = {}
  BY DEF ProjInit
<1>4. 1 \in 1..NumProjections
  OBVIOUS
<1>5. ProjTypeOK
  BY <1>1, <1>2, <1>4 DEF ProjInit, ProjTypeOK, RInv
<1>6. PageInv /\ HeadInv /\ OrderInv
  BY <1>3 DEF PageInv, HeadInv, OrderInv
<1>7. CursorInv
  BY <1>3 DEF CursorInv, Callers
<1> QED
  BY <1>1, <1>5, <1>6, <1>7 DEF PInv

\* No step of the repository changes what the global log holds already.
LEMMA LogGrows ==
  ASSUME PInv, [RepoNext]_rvars
  PROVE  /\ all' \in Seq(Logged) /\ Len(all') \in Nat /\ Len(all) <= Len(all')
         /\ \A i \in 1..Len(all) : all'[i] = all[i]
<1>1. all \in Seq(Logged) /\ Len(all) \in Nat
  BY ProjTypeFact
<1>2. CASE UNCHANGED all
  BY <1>1, <1>2
<1>3. ASSUME NEW w \in Writers, SaveAppend(w)
      PROVE  /\ all' \in Seq(Logged) /\ Len(all') \in Nat /\ Len(all) <= Len(all')
             /\ \A i \in 1..Len(all) : all'[i] = all[i]
  BY <1>3, LogFact, SMTT(30) DEF PInv
<1>4. UNCHANGED all \/ \E w \in Writers : SaveAppend(w)
  BY DEF rvars, RepoNext, Writer, LoadSnapshot, LoadEvents, Raise, Abandon, SaveConflict,
         SaveAppendErr, SaveSnapshot, SaveSnapshotErr
<1> QED
  BY <1>2, <1>3, <1>4

\* The projections while writers append.
LEMMA ProjRepoStep ==
  ASSUME PInv, [RepoNext]_rvars, UNCHANGED pvars, RInv'
  PROVE  PInv'
<1> DEFINE n == Len(all)
<1>1. /\ n \in Nat /\ DOMAIN all = 1..n
      /\ \A k \in Callers : todo[k] \subseteq 1..n /\ next[k] \in 1..NumProjections /\ cursor[k] \in 0..n
      /\ \A p \in 1..NumProjections : applied[p] \subseteq 1..n
  BY ProjTypeFact
<1>2. /\ all' \in Seq(Logged) /\ Len(all') \in Nat /\ n <= Len(all')
      /\ \A i \in 1..n : all'[i] = all[i]
  BY LogGrows
<1> HIDE DEF n
<1>3. UNCHANGED <<todo, next, cursor, applied>>
  BY DEF pvars
<1>4. ProjTypeOK'
  <2>1. DOMAIN all' = 1..Len(all')
    BY <1>2, LenProperties
  <2>2. 1..n \subseteq DOMAIN all' /\ 0..n \subseteq 0..Len(all')
    BY <1>1, <1>2, <2>1
  <2>3. RepoTypeOK'
    BY DEF RInv
  <2>4. /\ todo \in [Callers -> SUBSET (1..n)] /\ next \in [Callers -> 1..NumProjections]
        /\ cursor \in [Callers -> 0..n] /\ applied \in [1..NumProjections -> SUBSET (1..n)]
    BY <1>1 DEF PInv, ProjTypeOK, n
  <2>5. /\ todo' \in [Callers -> SUBSET DOMAIN all'] /\ next' \in [Callers -> 1..NumProjections]
        /\ cursor' \in [Callers -> 0..Len(all')]
        /\ applied' \in [1..NumProjections -> SUBSET DOMAIN all']
    BY <1>3, <2>2, <2>4
  <2> QED
    BY <2>3, <2>5 DEF ProjTypeOK
<1>5. \A i \in 1..n : \A j \in 1..i : j \in 1..n /\ all'[j] = all[j] /\ all'[i] = all[i]
  BY <1>1, <1>2
<1>6. PageInv'
  BY <1>1, <1>3, <1>5, SMTT(30) DEF PInv, PageInv, Concerns, Done
<1>7. HeadInv'
  BY <1>3 DEF PInv, HeadInv, Turn
<1>8. CursorInv'
  <2>1. \A k \in {"drive", "replay_all"} : \A i \in 1..cursor[k] : all'[i] = all[i]
    <3>1. \A c \in 0..n : \A i \in 1..c : i \in 1..n
      BY <1>1
    <3> QED
      BY <1>1, <1>2, <3>1 DEF Callers
  <2> QED
    BY <1>3, <2>1 DEF PInv, CursorInv, Done
<1>9. OrderInv'
  BY <1>1, <1>3, <1>5 DEF PInv, OrderInv
<1> QED
  BY <1>4, <1>6, <1>7, <1>8, <1>9 DEF PInv

\* A page is complete: no event of the tenant is left out before its last.
LEMMA PageFact ==
  ASSUME PInv, NEW c \in Nat, NEW e \in StreamAll(c), NEW i \in 1..e, all[i].agg \in Tenant, i > c
  PROVE  i \in StreamAll(c)
<1> DEFINE rest == {j \in DOMAIN all : j > c /\ all[j].agg \in Tenant}
           before(x) == {j \in rest : j < x}
<1>1. Len(all) \in Nat /\ DOMAIN all = 1..Len(all)
  BY ProjTypeFact
<1>2. e \in rest /\ Cardinality(before(e)) < BatchSize
  BY DEF StreamAll
<1>3. e \in 1..Len(all)
  BY <1>1, <1>2
<1>4. i \in 1..Len(all) /\ i <= e
  BY <1>1, <1>3
<1>5. i \in rest
  BY <1>1, <1>4
<1>6. IsFiniteSet(1..Len(all))
  BY <1>1, FS_Interval
<1>7. before(e) \in SUBSET (1..Len(all))
  BY <1>1
<1>8. IsFiniteSet(before(e))
  BY <1>6, <1>7, FS_Subset
<1>9. before(i) \in SUBSET before(e)
  BY <1>1, <1>3, <1>4
<1> HIDE DEF before, rest
<1>10. /\ Cardinality(before(i)) <= Cardinality(before(e))
       /\ IsFiniteSet(before(i))
  BY <1>8, <1>9, FS_Subset
<1>11. Cardinality(before(i)) \in Nat /\ Cardinality(before(e)) \in Nat
  BY <1>8, <1>10, FS_CardinalityType
<1>12. Cardinality(before(i)) < BatchSize
  BY <1>2, <1>10, <1>11
<1> QED
  BY <1>5, <1>12 DEF StreamAll, rest, before

\* A caller's step that leaves the log alone keeps what the log's types say.
LEMMA CallerTypes ==
  ASSUME PInv, RInv', UNCHANGED all,
         todo' \in [Callers -> SUBSET (1..Len(all))], next' \in [Callers -> 1..NumProjections],
         cursor' \in [Callers -> 0..Len(all)],
         applied' \in [1..NumProjections -> SUBSET (1..Len(all))]
  PROVE  ProjTypeOK'
<1>1. DOMAIN all = 1..Len(all) /\ RepoTypeOK'
  BY ProjTypeFact DEF RInv
<1> QED
  BY <1>1 DEF ProjTypeOK

LEMMA ProjFunctions ==
  ASSUME PInv
  PROVE  /\ todo \in [Callers -> SUBSET (1..Len(all))] /\ next \in [Callers -> 1..NumProjections]
         /\ cursor \in [Callers -> 0..Len(all)]
         /\ applied \in [1..NumProjections -> SUBSET (1..Len(all))]
<1>1. DOMAIN all = 1..Len(all)
  BY ProjTypeFact
<1> QED
  BY <1>1 DEF PInv, ProjTypeOK

\* A caller with nothing in hand fetches events.
LEMMA FetchStep ==
  ASSUME PInv, NEW k \in Callers, NEW page \in SUBSET (1..Len(all)), todo[k] = {},
         todo' = [todo EXCEPT ![k] = page], UNCHANGED <<next, cursor, applied, rvars>>,
         \A e \in page : /\ k # "replay" => all[e].agg \in Tenant
                         /\ \A i \in 1..e : Concerns(k, i, e) => i \in page \/ Done(i)
  PROVE  PInv'
<1>1. RInv'
  <2>1. faults' \in 0..MaxFaults /\ UNCHANGED <<streams, all, snapshots, pc, mem, raised>>
    BY DEF rvars, PInv, RInv, RepoTypeOK
  <2> QED
    BY <2>1, IdleStep DEF PInv
<1>2. UNCHANGED <<all, next, cursor, applied>>
  BY DEF rvars
<1>3. /\ todo'[k] = page /\ \A c \in Callers : c # k => todo'[c] = todo[c]
      /\ todo' \in [Callers -> SUBSET (1..Len(all))]
  BY ProjFunctions
<1>4. ProjTypeOK'
  BY <1>1, <1>2, <1>3, ProjFunctions, CallerTypes
<1>5. PageInv'
  <2> SUFFICES ASSUME NEW c \in Callers, NEW e \in todo'[c]
               PROVE  /\ c # "replay" => all[e].agg \in Tenant
                      /\ \A i \in 1..e : Concerns(c, i, e) => i \in todo'[c] \/ Done(i)
    BY <1>2 DEF PageInv, Concerns, Done
  <2>1. CASE c = k
    BY <1>3, <2>1
  <2>2. CASE c # k
    BY <1>3, <2>2 DEF PInv, PageInv
  <2> QED
    BY <2>1, <2>2
<1>6. HeadInv'
  <2>1. next[k] = 1
    BY DEF PInv, HeadInv
  <2>2. 1..(next[k] - 1) = {}
    BY <2>1
  <2>3. ASSUME NEW c \in Callers
        PROVE  /\ todo'[c] = {} => next[c] = 1
               /\ \A e \in todo'[c] : Turn(c, e)' => \A p \in 1..(next[c] - 1) : e \in applied[p]
    <3>1. CASE c = k
      BY <2>1, <2>2, <3>1
    <3>2. CASE c # k
      BY <1>3, <3>2 DEF PInv, HeadInv, Turn
    <3> QED
      BY <3>1, <3>2
  <2> QED
    BY <1>2, <2>3 DEF HeadInv
<1>7. CursorInv' /\ OrderInv'
  BY <1>2 DEF PInv, CursorInv, OrderInv, Done
<1> QED
  BY <1>1, <1>4, <1>5, <1>6, <1>7 DEF PInv

LEMMA FetchPageStep == ASSUME PInv, NEW k \in Callers, FetchPage(k) PROVE PInv'
<1> DEFINE page == StreamAll(cursor[k])
<1>1. /\ k # "replay" /\ todo[k] = {} /\ todo' = [todo EXCEPT ![k] = page]
      /\ UNCHANGED <<next, cursor, applied, rvars>>
  BY DEF FetchPage
<1>2. Len(all) \in Nat /\ DOMAIN all = 1..Len(all) /\ cursor[k] \in Nat
  <2>1. Len(all) \in Nat /\ DOMAIN all = 1..Len(all) /\ cursor[k] \in 0..Len(all)
    BY ProjTypeFact
  <2> QED
    BY <2>1
<1>3. page \in SUBSET (1..Len(all)) /\ \A e \in page : all[e].agg \in Tenant
  BY <1>2 DEF StreamAll
<1>4. k \in {"drive", "replay_all"}
  BY <1>1 DEF Callers
<1>5. ASSUME NEW e \in page, NEW i \in 1..e, all[i].agg \in Tenant
      PROVE  i \in page \/ Done(i)
  <2>1. CASE i > cursor[k]
    BY <1>2, <1>5, <2>1, PageFact
  <2>2. CASE ~(i > cursor[k])
    <3>1. i \in 1..cursor[k]
      BY <1>2, <2>2
    <3> QED
      BY <1>4, <1>5, <3>1 DEF PInv, CursorInv
  <2> QED
    BY <2>1, <2>2
<1> HIDE DEF page
<1>6. \A e \in page : /\ k # "replay" => all[e].agg \in Tenant
                      /\ \A i \in 1..e : Concerns(k, i, e) => i \in page \/ Done(i)
  BY <1>1, <1>3, <1>5 DEF Concerns
<1> QED
  BY <1>1, <1>3, <1>6, FetchStep

LEMMA FetchStreamStep == ASSUME PInv, NEW a \in Aggregates, FetchStream(a) PROVE PInv'
<1> DEFINE page == {i \in DOMAIN all : all[i].agg = a}
<1>0. PICK k \in Callers : k = "replay"
  BY DEF Callers
<1>1. /\ todo[k] = {} /\ todo' = [todo EXCEPT ![k] = page]
      /\ UNCHANGED <<next, cursor, applied, rvars>>
  BY <1>0 DEF FetchStream
<1>2. Len(all) \in Nat /\ DOMAIN all = 1..Len(all)
  BY ProjTypeFact
<1>3. page \in SUBSET (1..Len(all))
  BY <1>2
<1>4. ASSUME NEW e \in page, NEW i \in 1..e, all[i].agg = all[e].agg
      PROVE  i \in page
  BY <1>2, <1>4
<1> HIDE DEF page
<1>5. \A e \in page : /\ k # "replay" => all[e].agg \in Tenant
                      /\ \A i \in 1..e : Concerns(k, i, e) => i \in page \/ Done(i)
  BY <1>0, <1>4 DEF Concerns
<1> QED
  BY <1>1, <1>3, <1>5, FetchStep

\* A cursor set back, or a page dropped: there is less to account for.
LEMMA ResetStep ==
  ASSUME PInv, NEW k \in Callers, UNCHANGED <<streams, all, snapshots, pc, mem, raised, applied>>,
         faults' \in 0..MaxFaults,
         \/ UNCHANGED <<todo, next>>
         \/ todo' = [todo EXCEPT ![k] = {}] /\ next' = [next EXCEPT ![k] = 1],
         cursor' = cursor \/ cursor' = [cursor EXCEPT ![k] = 0]
  PROVE  PInv'
<1>1. RInv'
  BY IdleStep DEF PInv
<1>2. /\ todo \in [Callers -> SUBSET (1..Len(all))] /\ next \in [Callers -> 1..NumProjections]
      /\ cursor \in [Callers -> 0..Len(all)] /\ Len(all) \in Nat
      /\ applied \in [1..NumProjections -> SUBSET (1..Len(all))]
  BY ProjFunctions, ProjTypeFact
<1>3. \A c \in Callers : \/ todo'[c] = todo[c] /\ next'[c] = next[c]
                         \/ todo'[c] = {} /\ next'[c] = 1
  <2>1. CASE UNCHANGED <<todo, next>>
    BY <2>1
  <2>2. CASE todo' = [todo EXCEPT ![k] = {}] /\ next' = [next EXCEPT ![k] = 1]
    BY <1>2, <2>2
  <2> QED
    BY <2>1, <2>2
<1>4. \A c \in Callers : cursor'[c] = cursor[c] \/ cursor'[c] = 0
  BY <1>2
<1>5. 1 \in 1..NumProjections /\ 0 \in 0..Len(all)
  BY <1>2
<1>6. /\ todo' \in [Callers -> SUBSET (1..Len(all))] /\ next' \in [Callers -> 1..NumProjections]
      /\ cursor' \in [Callers -> 0..Len(all)]
  BY <1>2, <1>5, ZenonT(60)
<1>7. ProjTypeOK'
  BY <1>1, <1>2, <1>6, CallerTypes
<1>8. PageInv'
  BY <1>3 DEF PInv, PageInv, Concerns, Done
<1>9. HeadInv'
  BY <1>3 DEF PInv, HeadInv, Turn
<1>10. CursorInv'
  <2>1. \A c \in {"drive", "replay_all"} : cursor'[c] = cursor[c] \/ 1..cursor'[c] = {}
    BY <1>4 DEF Callers
  <2> QED
    BY <2>1 DEF PInv, CursorInv, Done
<1>11. OrderInv'
  BY DEF PInv, OrderInv
<1> QED
  BY <1>1, <1>7, <1>8, <1>9, <1>10, <1>11 DEF PInv

LEMMA ApplyErrStep == ASSUME PInv, NEW k \in Callers, ApplyErr(k) PROVE PInv'
<1>1. faults \in 0..MaxFaults /\ cursor \in [Callers -> 0..Len(all)]
  BY ProjFunctions DEF PInv, RInv, RepoTypeOK
<1>2. faults' \in 0..MaxFaults
  BY <1>1 DEF ApplyErr, Fault
<1>3. cursor' = cursor \/ cursor' = [cursor EXCEPT ![k] = 0]
  BY <1>1 DEF ApplyErr
<1>4. /\ todo' = [todo EXCEPT ![k] = {}] /\ next' = [next EXCEPT ![k] = 1]
      /\ UNCHANGED <<streams, all, snapshots, pc, mem, raised, applied>>
  BY DEF ApplyErr
<1> QED
  BY <1>2, <1>3, <1>4, ResetStep

LEMMA DrainedStep == ASSUME PInv, Drained PROVE PInv'
<1>0. PICK k \in Callers : k = "replay_all"
  BY DEF Callers
<1>1. /\ cursor' = [cursor EXCEPT ![k] = 0] /\ UNCHANGED <<todo, next>>
      /\ UNCHANGED <<streams, all, snapshots, pc, mem, raised, applied>> /\ faults' \in 0..MaxFaults
  BY <1>0 DEF Drained, rvars, PInv, RInv, RepoTypeOK
<1> QED
  BY <1>1, ResetStep

\* An event enters the projection whose turn it is.
LEMMA ApplyOkStep == ASSUME PInv, NEW k \in Callers, ApplyOk(k) PROVE PInv'
<1> DEFINE n == next[k]
<1>1. PICK e \in todo[k] :
        /\ Turn(k, e) /\ applied' = [applied EXCEPT ![n] = @ \cup {e}]
        /\ IF n < NumProjections
           THEN next' = [next EXCEPT ![k] = @ + 1] /\ UNCHANGED <<todo, cursor>>
           ELSE /\ next' = [next EXCEPT ![k] = 1]
                /\ todo' = [todo EXCEPT ![k] = @ \ {e}]
                /\ cursor' = IF k = "replay" THEN cursor ELSE [cursor EXCEPT ![k] = e]
        /\ UNCHANGED rvars
  BY DEF ApplyOk
<1>2. /\ todo \in [Callers -> SUBSET (1..Len(all))] /\ next \in [Callers -> 1..NumProjections]
      /\ cursor \in [Callers -> 0..Len(all)]
      /\ applied \in [1..NumProjections -> SUBSET (1..Len(all))]
  BY ProjFunctions
<1>3. Len(all) \in Nat /\ e \in 1..Len(all) /\ n \in 1..NumProjections
      /\ \A c \in Callers : todo[c] \subseteq 1..Len(all)
  BY <1>2, ProjTypeFact
<1>4. RInv' /\ UNCHANGED all
  <2>1. faults' \in 0..MaxFaults /\ UNCHANGED <<streams, all, snapshots, pc, mem, raised>>
    BY <1>1 DEF rvars, PInv, RInv, RepoTypeOK
  <2> QED
    BY <2>1, IdleStep DEF PInv
<1>5. /\ applied' \in [1..NumProjections -> SUBSET (1..Len(all))]
      /\ applied'[n] = applied[n] \cup {e}
      /\ \A p \in 1..NumProjections : p # n => applied'[p] = applied[p]
      /\ \A p \in 1..NumProjections : applied[p] \subseteq applied'[p]
  BY <1>1, <1>2, <1>3
<1>6. \A i : Done(i) => Done(i)'
  BY <1>5 DEF Done
\* What precedes the event and concerns it is done.
<1>7. ASSUME NEW i \in 1..e, i # e, Concerns(k, i, e) PROVE Done(i)
  <2>1. i \notin todo[k]
    BY <1>1, <1>3, <1>7 DEF Turn
  <2> QED
    BY <1>7, <2>1 DEF PInv, PageInv
\* What the projections before the next one have.
<1>8. \A p \in 1..(n - 1) : e \in applied[p]
  BY <1>1 DEF PInv, HeadInv
<1>9. OrderInv'
  <2>1. ASSUME NEW p \in 1..NumProjections, NEW i \in applied'[p], NEW j \in 1..i,
               all[j].agg = all[i].agg
        PROVE  j \in applied'[p]
    <3>1. CASE i \in applied[p]
      BY <1>5, <2>1, <3>1 DEF PInv, OrderInv
    <3>2. CASE i \notin applied[p]
      <4>1. p = n /\ i = e
        BY <1>5, <3>2
      <4>2. CASE j = e
        BY <1>5, <4>1, <4>2
      <4>3. CASE j # e
        <5>1. Concerns(k, j, e)
          <6>1. k # "replay" => all[e].agg \in Tenant
            BY <1>1 DEF PInv, PageInv
          <6> QED
            BY <2>1, <4>1, <6>1 DEF Concerns
        <5>2. Done(j)
          BY <1>7, <4>1, <4>3, <5>1
        <5> QED
          BY <1>5, <5>2 DEF Done
      <4> QED
        BY <4>2, <4>3
    <3> QED
      BY <3>1, <3>2
  <2>2. ASSUME NEW p \in 1..NumProjections, p > 1 PROVE applied'[p] \subseteq applied'[p - 1]
    <3>1. p - 1 \in 1..NumProjections /\ p \in Int
      BY <2>2
    <3>2. applied[p] \subseteq applied[p - 1]
      BY <2>2 DEF PInv, OrderInv
    <3>3. CASE p = n
      <4>1. p - 1 \in 1..(n - 1)
        BY <1>3, <2>2, <3>3
      <4> QED
        BY <1>5, <1>8, <3>1, <3>2, <3>3, <4>1
    <3>4. CASE p # n
      BY <1>5, <3>1, <3>2, <3>4
    <3> QED
      BY <3>3, <3>4
  <2> QED
    BY <1>4, <2>1, <2>2 DEF OrderInv
<1>10. CASE n < NumProjections
  <2>1. /\ next' = [next EXCEPT ![k] = n + 1] /\ UNCHANGED <<todo, cursor>>
    BY <1>1, <1>10
  <2>2. n + 1 \in 1..NumProjections
    BY <1>3, <1>10
  <2>3. /\ next' \in [Callers -> 1..NumProjections] /\ next'[k] = n + 1
        /\ \A c \in Callers : c # k => next'[c] = next[c]
    BY <1>2, <2>1, <2>2
  <2>4. ProjTypeOK'
    BY <1>2, <1>4, <1>5, <2>1, <2>3, CallerTypes
  <2>5. PageInv'
    BY <1>4, <1>6, <2>1 DEF PInv, PageInv, Concerns
  <2>6. CursorInv'
    BY <1>4, <1>6, <2>1 DEF PInv, CursorInv
  <2>7. HeadInv'
    <3>1. ASSUME NEW c \in Callers
          PROVE  /\ todo[c] = {} => next'[c] = 1
                 /\ \A d \in todo[c] : Turn(c, d) => \A p \in 1..(next'[c] - 1) : d \in applied'[p]
      <4>1. CASE c = k
        <5>1. \A d \in todo[k] : Turn(k, d) => d = e
          BY <1>1, <1>3 DEF Turn
        <5>2. next'[k] - 1 = n /\ \A p \in 1..n : p \in 1..NumProjections
          BY <1>3, <2>3
        <5>3. \A p \in 1..n : e \in applied'[p]
          <6>1. ASSUME NEW p \in 1..n PROVE p = n \/ p \in 1..(n - 1)
            BY <1>3
          <6> QED
            BY <1>5, <1>8, <5>2, <6>1
        <5> QED
          BY <1>1, <4>1, <5>1, <5>2, <5>3
      <4>2. CASE c # k
        <5>1. next[c] \in 1..NumProjections /\ \A p \in 1..(next[c] - 1) : p \in 1..NumProjections
          <6>1. next[c] \in 1..NumProjections
            BY <1>2
          <6> QED
            BY <6>1
        <5> QED
          BY <1>5, <2>3, <4>2, <5>1 DEF PInv, HeadInv
      <4> QED
        BY <4>1, <4>2
    <3> QED
      BY <2>1, <3>1 DEF HeadInv, Turn
  <2> QED
    BY <1>4, <1>9, <2>4, <2>5, <2>6, <2>7 DEF PInv
<1>11. CASE ~(n < NumProjections)
  <2>1. /\ next' = [next EXCEPT ![k] = 1] /\ todo' = [todo EXCEPT ![k] = todo[k] \ {e}]
        /\ cursor' = IF k = "replay" THEN cursor ELSE [cursor EXCEPT ![k] = e]
    BY <1>1, <1>11
  <2>2. n = NumProjections /\ 1 \in 1..NumProjections /\ e \in 0..Len(all)
    BY <1>3, <1>11
  <2>3. /\ next' \in [Callers -> 1..NumProjections] /\ next'[k] = 1
        /\ todo' \in [Callers -> SUBSET (1..Len(all))] /\ todo'[k] = todo[k] \ {e}
        /\ \A c \in Callers : c # k => next'[c] = next[c] /\ todo'[c] = todo[c]
    BY <1>2, <2>1, <2>2
  <2>4. /\ cursor' \in [Callers -> 0..Len(all)]
        /\ \A c \in Callers : \/ cursor'[c] = cursor[c]
                              \/ c = k /\ c # "replay" /\ cursor'[c] = e
    <3>1. CASE k = "replay"
      BY <1>2, <2>1, <3>1
    <3>2. CASE k # "replay"
      BY <1>2, <2>1, <2>2, <3>2
    <3> QED
      BY <3>1, <3>2
  <2>5. ProjTypeOK'
    BY <1>4, <1>5, <2>3, <2>4, CallerTypes
  \* The last projection has the event now.
  <2>6. Done(e)'
    <3>1. ASSUME NEW p \in 1..NumProjections PROVE p = n \/ p \in 1..(n - 1)
      BY <1>3, <2>2
    <3> QED
      BY <1>5, <1>8, <3>1 DEF Done
  <2>7. PageInv'
    <3> SUFFICES ASSUME NEW c \in Callers, NEW d \in todo'[c]
                 PROVE  /\ c # "replay" => all[d].agg \in Tenant
                        /\ \A i \in 1..d : Concerns(c, i, d) => i \in todo'[c] \/ Done(i)'
      BY <1>4 DEF PageInv, Concerns
    <3>1. d \in todo[c] /\ \A i \in todo[c] : i \in todo'[c] \/ i = e
      BY <2>3
    <3> QED
      BY <1>6, <2>6, <3>1 DEF PInv, PageInv
  <2>8. CursorInv'
    <3> SUFFICES ASSUME NEW c \in {"drive", "replay_all"}, NEW i \in 1..cursor'[c],
                        all[i].agg \in Tenant
                 PROVE  Done(i)'
      BY <1>4 DEF CursorInv
    <3>1. c \in Callers
      BY DEF Callers
    <3>2. CASE cursor'[c] = cursor[c]
      BY <1>6, <3>2 DEF PInv, CursorInv
    <3>3. CASE c = k /\ c # "replay" /\ cursor'[c] = e
      <4>1. i \in 1..e /\ Concerns(k, i, e)
        BY <3>3 DEF Concerns
      <4> QED
        BY <1>6, <1>7, <2>6, <4>1
    <3> QED
      BY <2>4, <3>1, <3>2, <3>3
  <2>9. HeadInv'
    <3>1. ASSUME NEW c \in Callers
          PROVE  /\ todo'[c] = {} => next'[c] = 1
                 /\ \A d \in todo'[c] : Turn(c, d)' => \A p \in 1..(next'[c] - 1) : d \in applied'[p]
      <4>1. CASE c = k
        <5>1. 1..(next'[k] - 1) = {}
          BY <2>3
        <5> QED
          BY <2>3, <4>1, <5>1
      <4>2. CASE c # k
        <5>1. next[c] \in 1..NumProjections /\ \A p \in 1..(next[c] - 1) : p \in 1..NumProjections
          <6>1. next[c] \in 1..NumProjections
            BY <1>2
          <6> QED
            BY <6>1
        <5>2. todo'[c] = todo[c] /\ next'[c] = next[c]
          BY <2>3, <4>2
        <5> QED
          BY <1>5, <5>1, <5>2 DEF PInv, HeadInv, Turn
      <4> QED
        BY <4>1, <4>2
    <3> QED
      BY <3>1 DEF HeadInv
  <2> QED
    BY <1>4, <1>9, <2>5, <2>7, <2>8, <2>9 DEF PInv
<1> QED
  BY <1>10, <1>11

\* Each step of a behaviour, the repository's or a caller's.
LEMMA ProjStep == ASSUME Reload, PInv, [ProjNext]_<<rvars, pvars>> PROVE PInv'
<1>1. CASE [RepoNext]_rvars /\ UNCHANGED pvars
  BY <1>1, RepoStep, ProjRepoStep DEF PInv
<1>2. ASSUME NEW k \in Callers, Caller(k) PROVE PInv'
  BY <1>2, FetchPageStep, ApplyOkStep, ApplyErrStep, DrainedStep, FetchStreamStep DEF Caller
<1> QED
  BY <1>1, <1>2 DEF ProjNext

\* What a step of the composition is to the abstract log.
LEMMA ProjStepMaps ==
  ASSUME Reload, PInv, [ProjNext]_<<rvars, pvars>>
  PROVE  [Log!LogNext]_(Log!logvars)
<1>1. CASE [RepoNext]_rvars
  BY <1>1, RepoStepMaps DEF PInv
<1>2. ASSUME NEW k \in Callers, Caller(k) PROVE UNCHANGED Log!logvars
  <2>1. UNCHANGED <<streams, mem, pc>>
    BY <1>2 DEF Caller, FetchPage, ApplyOk, ApplyErr, Drained, FetchStream, rvars
  <2>2. UNCHANGED <<LogBar, ViewBar>>
    BY <2>1 DEF LogBar, ViewBar, Viewed, Base, Pending
  <2> QED
    BY <2>2 DEF Log!logvars, LogBar, ViewBar, Viewed
<1> QED
  BY <1>1, <1>2 DEF ProjNext

\* The inductive invariant of the repository and the projections, for callers
\* that drop an aggregate whose save() failed.
THEOREM EventSourcingInvariant == ASSUME Reload PROVE ProjSpec => []PInv
<1>1. ProjInit => PInv
  BY ProjInitial
<1>2. PInv /\ [ProjNext]_<<rvars, pvars>> => PInv'
  BY ProjStep
<1> QED
  BY <1>1, <1>2, PTL DEF ProjSpec

\* The streams, the global log, the snapshots, the roots in memory and what
\* the three callers of the projections hold keep their types.
THEOREM EventSourcingTypeCorrect == ASSUME Reload PROVE ProjSpec => []ProjTypeOK
<1>1. PInv => ProjTypeOK
  BY DEF PInv
<1> QED
  BY <1>1, EventSourcingInvariant, PTL

\* However late and by whomever a snapshot is written, it is the fold of
\* exactly the first `version` events of the stream: save() and load() of any
\* number of writers, with any interval.
THEOREM SnapshotsFaithful == ASSUME Reload PROVE ProjSpec => []SnapshotFaithful
<1>1. PInv => SnapshotFaithful
  BY SnapshotsRead DEF PInv
<1> QED
  BY <1>1, EventSourcingInvariant, PTL

\* The repository implements EventLog: load() is one consistent read, although
\* it makes two, and save() extends exactly the history it was read from.
THEOREM RepositoryImplementsEventLog == ASSUME Reload PROVE ProjSpec => ImplementsEventLog
<1>1. ProjInit => Log!LogInit
  BY RepoInitMaps DEF ProjInit
<1>2. PInv /\ [ProjNext]_<<rvars, pvars>> => [Log!LogNext]_(Log!logvars)
  BY ProjStepMaps
<1> QED
  BY <1>1, <1>2, EventSourcingInvariant, PTL DEF ProjSpec, ImplementsEventLog, Log!LogSpec

\* drive_once(), replay_all() and replay() interleave, overtake each other and
\* fail anywhere: the cursor passes no event that a projection lacks, and no
\* projection has an event without the earlier ones of its aggregate or before
\* a projection registered earlier has it.
THEOREM ProjectionsWithoutGap == ASSUME Reload PROVE ProjSpec => []NoProjectionGap
<1>1. PInv => NoProjectionGap
  BY DEF PInv, CursorInv, OrderInv, Done, NoProjectionGap
<1> QED
  BY <1>1, EventSourcingInvariant, PTL
=============================================================================
