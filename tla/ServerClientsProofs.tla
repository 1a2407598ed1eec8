------------------------- MODULE ServerClientsProofs -------------------------
(* ServerClients for every number of slots and components: references are    *)
(* counted exactly whatever happens, the client that is served has its       *)
(* connection, and the table of clients stays in order, so that a reset      *)
(* comes when nobody is connected and leaves nothing.                        *)
EXTENDS ServerClients, CountingLemmas

\* What the environment must not do: these are the divergences of the README.
NoLateKill == "kill of a ready client" \notin Happens
Orderly == Happens \cap {"refused", "hangup of retaining clients"} = {}

\* The types that hold whatever happens; the ranges of nClients and refCnt are
\* consequences of what they count.
Typed == /\ clients \in [Slots -> Clients \cup {NoClient}]
         /\ nClients \in Int
         /\ nextFreeClientID \in 1 .. MaxClients
         /\ currentMaxClients \in 1 .. MaxClients
         /\ exception \in BOOLEAN
         /\ ready \subseteq Slots /\ current \in Slots \cup {0}
         /\ component \in [Owners -> Components \cup {NoComponent}]
         /\ flow \in [Slots -> Components \cup {NoFlow, Empty}]
         /\ refCnt \in [Components -> Int]

\* A round of Dispatch: the clients that are still to be served keep their
\* connection or are gone altogether, and none is served twice.
RoundInOrder == /\ ServedClientConnected
                /\ current \notin ready
                /\ \A i \in ready : clients[i] # NoClient => ~clients[i].gone

\* The table of clients: what the counters count, and who may ask for a reset.
\* A connection that is not established cannot have changed its mode.
TableInOrder ==
    /\ nextFreeClientID = Min({MaxClients} \cup {i \in Slots : clients[i] = NoClient})
    /\ \A i \in Slots : clients[i] # NoClient => i < currentMaxClients
    /\ \A i \in Slots : (component[i] # NoComponent \/ flow[i] # NoFlow) => clients[i] # NoClient
    /\ nClients = Cardinality({i \in Slots : Established(i)})
    /\ \A i \in Slots : Connected(i) /\ (~Established(i) \/ exception)
                          => clients[i].mode = "Destroy"

Counted == Typed /\ ComponentsCounted
IInv == Counted /\ TableInOrder

-----------------------------------------------------------------------------
LEMMA Constants ==
  /\ MaxClients \in Nat /\ MaxClients > 1 /\ NoClient \notin Clients
  /\ Slots \in SUBSET Nat /\ Slots \subseteq Owners
  /\ IsFiniteSet(Slots) /\ IsFiniteSet(Owners)
  /\ NoComponent \notin Components /\ NoFlow \notin Components /\ Empty \notin Components
  /\ NewClient \in Clients /\ NewClient # NoClient
<1>1. IsFiniteSet(Slots) /\ IsFiniteSet(Owners)
  <2>1. MaxClients \in Nat \ {0, 1}
    BY ClientsAssumption
  <2>2. MaxClients - 1 \in Int
    BY <2>1
  <2> QED
    BY <2>2, FS_Interval DEF Slots, Owners
<1>2. MaxClients \in Nat /\ MaxClients > 1
  <2>1. MaxClients \in Nat \ {0, 1}
    BY ClientsAssumption
  <2> QED
    BY <2>1
<1>3. Slots \in SUBSET Nat /\ Slots \subseteq Owners
  BY <1>2 DEF Slots, Owners
<1>4. /\ NoComponent \notin Components /\ NoFlow \notin Components
      /\ Empty \notin Components /\ NoClient \notin Clients
  BY ClientsAssumption
<1>5. NewClient \in Clients
  BY DEF NewClient, Clients, Modes
<1> QED
  BY <1>1, <1>2, <1>3, <1>4, <1>5

\* The number of a set is its Min if it is the least element.
LEMMA MinIs ==
  ASSUME NEW S \in SUBSET Nat, NEW x \in S, \A y \in S : x <= y
  PROVE  Min(S) = x
<1>1. S # {}
  OBVIOUS
<1>2. Min(S) \in S /\ \A y \in S : Min(S) <= y
  BY <1>1, MinIsLeast
<1>3. Min(S) \in Nat /\ x \in Nat /\ Min(S) <= x /\ x <= Min(S)
  BY <1>2
<1> QED
  BY <1>3

\* The invariant in terms of Count.
LEMMA CountedIs ==
  ComponentsCounted <=> \A c \in Components :
                           refCnt[c] + 1 = Count(Owners, component, c) + Count(Slots, flow, c)
BY DEF ComponentsCounted, Count

\* Freeing the ids of I and the flows of F keeps the references counted.
LEMMA FreeResourcesCounts ==
  ASSUME Counted, NEW I \in SUBSET Owners, NEW F \in SUBSET Slots, FreeResources(I, F)
  PROVE  /\ component' \in [Owners -> Components \cup {NoComponent}]
         /\ flow' \in [Slots -> Components \cup {NoFlow, Empty}]
         /\ refCnt' \in [Components -> Int]
         /\ ComponentsCounted'
<1>1. /\ component' \in [Owners -> Components \cup {NoComponent}]
      /\ flow' \in [Slots -> Components \cup {NoFlow, Empty}]
  BY DEF Counted, Typed, FreeResources
<1>2. ASSUME NEW c \in Components
      PROVE  /\ References(c, I, F) \in Int
             /\ refCnt'[c] = refCnt[c] - References(c, I, F)
             /\ refCnt'[c] + 1 = Count(Owners, component', c) + Count(Slots, flow', c)
  <2>1. c # NoComponent /\ c # NoFlow /\ IsFiniteSet(Owners) /\ IsFiniteSet(Slots)
    BY Constants
  <2>2. /\ Count(Owners, component, c) \in Nat /\ Count(I, component, c) \in Nat
        /\ Count(Owners, component', c) = Count(Owners, component, c) - Count(I, component, c)
    <3>1. \A i \in Owners : IF i \in I THEN component'[i] # c ELSE component'[i] = component[i]
      BY <2>1 DEF FreeResources
    <3> QED
      BY <2>1, <3>1, CountRemoved
  <2>3. /\ Count(Slots, flow, c) \in Nat /\ Count(F, flow, c) \in Nat
        /\ Count(Slots, flow', c) = Count(Slots, flow, c) - Count(F, flow, c)
    <3>1. \A i \in Slots : IF i \in F THEN flow'[i] # c ELSE flow'[i] = flow[i]
      BY <2>1 DEF FreeResources
    <3> QED
      BY <2>1, <3>1, CountRemoved
  <2>4. refCnt[c] \in Int /\ refCnt[c] + 1 = Count(Owners, component, c) + Count(Slots, flow, c)
    BY CountedIs DEF Counted, Typed
  <2>5. refCnt'[c] = refCnt[c] - References(c, I, F)
    BY DEF FreeResources
  <2>6. References(c, I, F) = Count(I, component, c) + Count(F, flow, c)
    BY DEF References, Count
  <2> QED
    BY <2>2, <2>3, <2>4, <2>5, <2>6
<1>3. refCnt' \in [Components -> Int]
  <2>1. refCnt' = [c \in Components |-> refCnt[c] - References(c, I, F)]
    BY DEF FreeResources
  <2>2. \A c \in Components : refCnt[c] - References(c, I, F) \in Int
    BY <1>2 DEF Counted, Typed
  <2> QED
    BY <2>1, <2>2
<1>4. ComponentsCounted'
  BY <1>2 DEF ComponentsCounted, Count
<1> QED
  BY <1>1, <1>3, <1>4

\* The slots that LastSlot keeps in range.
LEMMA LastSlotCovers ==
  ASSUME Typed, NEW table
  PROVE  /\ LastSlot(table) \in 1 .. currentMaxClients
         /\ \A i \in Slots : i < currentMaxClients /\ table[i] # NoClient => i < LastSlot(table)
<1> DEFINE used == {i \in 1 .. currentMaxClients - 1 : table[i] # NoClient}
           S == {0} \cup used
<1>1. currentMaxClients \in Nat /\ currentMaxClients >= 1
  BY Constants DEF Typed
<1>2. /\ S \in SUBSET Nat /\ S # {}
      /\ currentMaxClients - 1 \in Nat /\ \A y \in S : y <= currentMaxClients - 1
  BY <1>1
<1> HIDE DEF S
<1>3. Max(S) \in S /\ \A y \in S : y <= Max(S)
  BY <1>2, MaxIsGreatest
<1>4. LastSlot(table) = 1 + Max(S)
  BY DEF LastSlot, S
<1>5. Max(S) \in Nat /\ Max(S) <= currentMaxClients - 1
  BY <1>2, <1>3
<1>6. ASSUME NEW i \in Slots, i < currentMaxClients, table[i] # NoClient
      PROVE  i < LastSlot(table)
  <2>1. i \in Nat /\ i \in S
    BY <1>1, <1>6, Constants DEF Slots, S
  <2>2. i <= Max(S)
    BY <1>3, <2>1
  <2> QED
    BY <1>4, <1>5, <2>1, <2>2
<1> QED
  BY <1>1, <1>4, <1>5, <1>6

LEMMA ClosedDownTyped ==
  ASSUME Typed, NEW C \in SUBSET {i \in Slots : clients[i] # NoClient}
  PROVE  /\ ClosedDown(C) \in [Slots -> Clients \cup {NoClient}]
         /\ StillConnected(C) \in Int
         /\ NextFree(C) \in 1 .. MaxClients
         /\ Freed(C) \in SUBSET C
<1>1. ClosedDown(C) \in [Slots -> Clients \cup {NoClient}]
  <2>1. ASSUME NEW i \in C
        PROVE  [clients[i] EXCEPT !.gone = TRUE] \in Clients
    <3>1. clients[i] \in Clients
      BY DEF Typed
    <3> QED
      BY <3>1 DEF Clients
  <2> QED
    BY <2>1 DEF ClosedDown, Typed
<1>2. StillConnected(C) \in Int
  <2>1. {i \in C : Connected(i)} \in SUBSET Slots
    OBVIOUS
  <2>2. IsFiniteSet({i \in C : Connected(i)})
    BY <2>1, Constants, FS_Subset
  <2>3. Cardinality({i \in C : Connected(i)}) \in Nat
    BY <2>2, FS_CardinalityType
  <2> QED
    BY <2>3 DEF StillConnected, Typed
<1>3. Freed(C) \in SUBSET C
  BY DEF Freed
<1>4. NextFree(C) \in 1 .. MaxClients
  <2> DEFINE S == {nextFreeClientID} \cup Freed(C)
  <2>1. S \in SUBSET (1 .. MaxClients) /\ S # {}
    <3>1. Slots \subseteq 1 .. MaxClients
      BY Constants DEF Slots
    <3>2. Freed(C) \subseteq 1 .. MaxClients
      BY <1>3, <3>1
    <3> QED
      BY <3>2 DEF Typed
  <2>2. S \in SUBSET Nat
    BY <2>1
  <2> HIDE DEF S
  <2>3. Min(S) \in S
    BY <2>1, <2>2, MinIsLeast
  <2> QED
    BY <2>1, <2>3 DEF NextFree, S
<1> QED
  BY <1>1, <1>2, <1>3, <1>4

-----------------------------------------------------------------------------
\* Whatever happens, a component is allocated exactly as long as it is used.
LEMMA CloseDownCounts ==
  ASSUME Counted, NEW C \in SUBSET {i \in Slots : clients[i] # NoClient}, CloseDown(C),
         ready' \subseteq Slots, current' \in Slots \cup {0}
  PROVE  Counted'
<1>1. Typed
  BY DEF Counted
<1>2. Freed(C) \in SUBSET Owners /\ Freed(C) \in SUBSET Slots
  BY <1>1, ClosedDownTyped, Constants
<1>3. /\ component' \in [Owners -> Components \cup {NoComponent}]
      /\ flow' \in [Slots -> Components \cup {NoFlow, Empty}]
      /\ refCnt' \in [Components -> Int]
      /\ ComponentsCounted'
  BY <1>2, FreeResourcesCounts DEF CloseDown
<1>4. currentMaxClients' \in 1 .. MaxClients
  <2>1. /\ currentMaxClients' \in 1 .. currentMaxClients
        /\ currentMaxClients \in 1 .. MaxClients
    BY <1>1, LastSlotCovers DEF CloseDown, Typed
  <2> QED
    BY <2>1, Constants
<1>5. exception' \in BOOLEAN
  BY <1>1 DEF CloseDown, Typed
<1>6. /\ clients' \in [Slots -> Clients \cup {NoClient}]
      /\ nClients' \in Int /\ nextFreeClientID' \in 1 .. MaxClients
  BY <1>1, ClosedDownTyped DEF CloseDown
<1> QED
  BY <1>3, <1>4, <1>5, <1>6 DEF Counted, Typed

LEMMA AcceptCounts == ASSUME Counted, Accept PROVE Counted'
<1>1. Typed
  BY DEF Counted
<1>2. PICK stragglers \in SUBSET {i \in 1 .. currentMaxClients - 1 :
                                     Connected(i) /\ ~Established(i)} :
        LET i == NextFree(stragglers)
            last == LastSlot(ClosedDown(stragglers))
            table == [ClosedDown(stragglers) EXCEPT ![i] = NewClient]
        IN  /\ i < MaxClients
            /\ clients' = table
            /\ currentMaxClients' = IF i = last THEN last + 1 ELSE last
            /\ nextFreeClientID' =
                  Min({MaxClients} \cup {j \in i .. MaxClients - 1 : table[j] = NoClient})
            /\ nClients' = StillConnected(stragglers)
            /\ FreeResources(stragglers, stragglers)
  BY DEF Accept
<1> DEFINE i == NextFree(stragglers)
           last == LastSlot(ClosedDown(stragglers))
           table == [ClosedDown(stragglers) EXCEPT ![i] = NewClient]
<1>3. stragglers \in SUBSET {j \in Slots : clients[j] # NoClient}
  <2>1. currentMaxClients \in Nat /\ currentMaxClients <= MaxClients
    BY <1>1, Constants DEF Typed
  <2>2. 1 .. currentMaxClients - 1 \subseteq Slots
    BY <2>1, Constants DEF Slots
  <2> QED
    BY <1>2, <2>2 DEF Connected
<1>4. /\ i \in 1 .. MaxClients /\ last \in 1 .. currentMaxClients
      /\ currentMaxClients \in 1 .. MaxClients
      /\ ClosedDown(stragglers) \in [Slots -> Clients \cup {NoClient}]
      /\ StillConnected(stragglers) \in Int
  BY <1>1, <1>3, ClosedDownTyped, LastSlotCovers DEF Typed
<1>5. i < MaxClients
  BY <1>2
<1>6. clients' \in [Slots -> Clients \cup {NoClient}] /\ nClients' \in Int
  <2>1. clients' = table /\ nClients' = StillConnected(stragglers)
    BY <1>2
  <2> QED
    BY <1>4, <2>1, Constants
<1>7. currentMaxClients' \in 1 .. MaxClients
  <2>1. currentMaxClients' = IF i = last THEN last + 1 ELSE last
    BY <1>2
  <2> HIDE DEF i, last
  <2> QED
    BY <1>4, <1>5, <2>1, Constants
<1>8. nextFreeClientID' \in 1 .. MaxClients
  <2> DEFINE S == {MaxClients} \cup {j \in i .. MaxClients - 1 : table[j] = NoClient}
  <2>1. nextFreeClientID' = Min(S)
    BY <1>2
  <2>2. S \in SUBSET (1 .. MaxClients) /\ S # {}
    <3> HIDE DEF i, table
    <3> QED
      BY <1>4, Constants
  <2>3. S \in SUBSET Nat
    BY <2>2
  <2> HIDE DEF S
  <2> QED
    BY <2>1, <2>2, <2>3, MinIsLeast
<1>9. /\ component' \in [Owners -> Components \cup {NoComponent}]
      /\ flow' \in [Slots -> Components \cup {NoFlow, Empty}]
      /\ refCnt' \in [Components -> Int]
      /\ ComponentsCounted'
  <2>1. FreeResources(stragglers, stragglers)
    BY <1>2
  <2>2. stragglers \in SUBSET Owners /\ stragglers \in SUBSET Slots
    BY <1>3, Constants
  <2> QED
    BY <2>1, <2>2, FreeResourcesCounts
<1>10. exception' \in BOOLEAN /\ ready' \subseteq Slots /\ current' \in Slots \cup {0}
  BY <1>1 DEF Accept, Typed
<1> QED
  BY <1>6, <1>7, <1>8, <1>9, <1>10 DEF Counted, Typed

\* A component that is allocated and used from one place, ...
LEMMA CreateBucketCounts == ASSUME Counted, CreateBucket PROVE Counted'
<1>1. /\ current \in Slots /\ component[current] = NoComponent
      /\ current \in Owners
  BY Constants DEF CreateBucket, Serving, Counted, Typed
<1>2. PICK c \in FreeComponents : /\ component' = [component EXCEPT ![current] = c]
                                  /\ refCnt' = [refCnt EXCEPT ![c] = 0]
  BY DEF CreateBucket
<1>3. c \in Components /\ refCnt[c] = -1
  BY <1>2 DEF FreeComponents
<1>4. Typed'
  BY <1>1, <1>2, <1>3 DEF Counted, Typed, CreateBucket, clientVars
<1>5. ASSUME NEW d \in Components
      PROVE  refCnt'[d] + 1 = Count(Owners, component', d) + Count(Slots, flow', d)
  <2>1. /\ Count(Owners, component, d) \in Nat
        /\ Count(Owners, component', d) = Count(Owners, component, d)
             - (IF component[current] = d THEN 1 ELSE 0)
             + (IF component'[current] = d THEN 1 ELSE 0)
    <3>1. \A i \in Owners : i # current => component'[i] = component[i]
      BY <1>2 DEF Counted, Typed
    <3>2. IsFiniteSet(Owners) /\ current \in Owners
      BY <1>1, Constants
    <3> QED
      BY <3>1, <3>2, CountChanged, CountType
  <2>2. component[current] # d /\ component'[current] = c
    BY <1>1, <1>2, Constants DEF Counted, Typed
  <2>3. refCnt[d] \in Int /\ refCnt[d] + 1 = Count(Owners, component, d) + Count(Slots, flow, d)
    BY CountedIs DEF Counted, Typed
  <2>4. refCnt'[d] = IF d = c THEN 0 ELSE refCnt[d]
    BY <1>2 DEF Counted, Typed
  <2>5. flow' = flow
    BY DEF CreateBucket
  <2>6. Count(Slots, flow, d) \in Nat
    BY Constants, CountType
  <2> QED
    BY <1>3, <2>1, <2>2, <2>3, <2>4, <2>5, <2>6
<1>6. ComponentsCounted'
  BY <1>5 DEF ComponentsCounted, Count
<1> QED
  BY <1>4, <1>6 DEF Counted

\* ... and one that a flow takes instead of another.
LEMMA SetElementsCounts ==
  ASSUME Counted, NEW i \in Slots, NEW o \in Owners, SetElements(i, o)
  PROVE  Counted'
<1> DEFINE old == flow[i]
           new == component[o]
           set == IF new = NoComponent THEN Empty ELSE new
<1>1. /\ flow' = [flow EXCEPT ![i] = set]
      /\ refCnt' = [c \in Components |-> refCnt[c] - (IF c = old THEN 1 ELSE 0)
                                                   + (IF c = new THEN 1 ELSE 0)]
      /\ UNCHANGED <<clientVars, ready, current, component>>
  BY DEF SetElements
<1>2. Typed'
  BY <1>1 DEF Counted, Typed, clientVars
<1>3. ASSUME NEW d \in Components
      PROVE  refCnt'[d] + 1 = Count(Owners, component', d) + Count(Slots, flow', d)
  <2>1. /\ Count(Slots, flow, d) \in Nat
        /\ Count(Slots, flow', d) = Count(Slots, flow, d)
             - (IF flow[i] = d THEN 1 ELSE 0) + (IF flow'[i] = d THEN 1 ELSE 0)
    <3>1. \A j \in Slots : j # i => flow'[j] = flow[j]
      BY <1>1 DEF Counted, Typed
    <3>2. IsFiniteSet(Slots)
      BY Constants
    <3> QED
      BY <3>1, <3>2, CountChanged, CountType
  <2>2. flow'[i] = d <=> new = d
    BY <1>1, Constants DEF Counted, Typed
  <2>3. refCnt[d] \in Int /\ refCnt[d] + 1 = Count(Owners, component, d) + Count(Slots, flow, d)
    BY CountedIs DEF Counted, Typed
  <2>4. refCnt'[d] = refCnt[d] - (IF d = old THEN 1 ELSE 0) + (IF d = new THEN 1 ELSE 0)
    BY <1>1
  <2>5. component' = component
    BY <1>1
  <2>6. Count(Owners, component, d) \in Nat
    BY Constants, CountType
  <2> HIDE DEF old, new, set
  <2> QED
    BY <2>1, <2>2, <2>3, <2>4, <2>5, <2>6 DEF old
<1>4. ComponentsCounted'
  BY <1>3 DEF ComponentsCounted, Count
<1> QED
  BY <1>2, <1>4 DEF Counted

\* A reset takes away the references of the slots it knows of, and adds those
\* of the new device.
LEMMA ResetCounts == ASSUME Counted, Reset PROVE Counted'
<1> DEFINE kept == {i \in Slots : i >= currentMaxClients}
           left == [c \in Components |-> refCnt[c] - References(c, Owners \ kept, Slots \ kept)]
           bare == [i \in Owners |-> IF i \in kept THEN component[i] ELSE NoComponent]
<1>1. PICK device \in {c \in Components : left[c] = -1} :
        /\ component' = [i \in Owners |-> IF i = 0 THEN device
                                          ELSE IF i \in kept THEN component[i]
                                          ELSE NoComponent]
        /\ flow' = [i \in Slots |-> IF i \in kept THEN flow[i] ELSE NoFlow]
        /\ refCnt' = [left EXCEPT ![device] = 0]
  BY DEF Reset
<1>2. 0 \in Owners /\ 0 \notin Slots /\ IsFiniteSet(Owners) /\ IsFiniteSet(Slots)
  BY Constants DEF Owners, Slots
<1>3. ASSUME NEW c \in Components
      PROVE  /\ left[c] \in Int
             /\ refCnt'[c] + 1 = Count(Owners, component', c) + Count(Slots, flow', c)
  <2>1. c # NoComponent /\ c # NoFlow /\ device \in Components /\ device # NoComponent
    BY <1>1, Constants
  <2>2. Count(Owners, bare, c) = Count(Owners, component, c) - Count(Owners \ kept, component, c)
    <3>1. \A i \in Owners : IF i \in Owners \ kept THEN bare[i] # c ELSE bare[i] = component[i]
      BY <2>1
    <3>2. Owners \ kept \in SUBSET Owners
      OBVIOUS
    <3> HIDE DEF bare, kept
    <3> QED
      BY <1>2, <3>1, <3>2, CountRemoved
  <2>3. Count(Owners, component', c) = Count(Owners, bare, c) + (IF device = c THEN 1 ELSE 0)
    <3>1. \A i \in Owners : i # 0 => component'[i] = bare[i]
      BY <1>1
    <3>2. component'[0] = device /\ bare[0] # c
      BY <1>1, <1>2, <2>1
    <3>3. Count(Owners, bare, c) \in Nat
      BY <1>2, CountType
    <3> HIDE DEF bare
    <3> QED
      BY <1>2, <3>1, <3>2, <3>3, CountChanged
  <2>4. Count(Slots, flow', c) = Count(Slots, flow, c) - Count(Slots \ kept, flow, c)
    <3>1. \A i \in Slots : IF i \in Slots \ kept THEN flow'[i] # c ELSE flow'[i] = flow[i]
      BY <1>1, <2>1
    <3>2. Slots \ kept \in SUBSET Slots
      OBVIOUS
    <3> HIDE DEF kept
    <3> QED
      BY <1>2, <3>1, <3>2, CountRemoved
  <2>5. /\ Count(Owners, component, c) \in Nat /\ Count(Slots, flow, c) \in Nat
        /\ Count(Owners \ kept, component, c) \in Nat /\ Count(Slots \ kept, flow, c) \in Nat
    <3>1. Owners \ kept \in SUBSET Owners /\ Slots \ kept \in SUBSET Slots
      OBVIOUS
    <3>2. IsFiniteSet(Owners \ kept) /\ IsFiniteSet(Slots \ kept)
      BY <1>2, <3>1, FS_Subset
    <3> HIDE DEF kept
    <3> QED
      BY <1>2, <3>2, CountType
  <2>6. refCnt[c] \in Int /\ refCnt[c] + 1 = Count(Owners, component, c) + Count(Slots, flow, c)
    BY CountedIs DEF Counted, Typed
  <2>7. left[c] = refCnt[c] - (Count(Owners \ kept, component, c) + Count(Slots \ kept, flow, c))
    BY DEF References, Count
  <2>8. left[device] = -1 /\ refCnt'[c] = IF c = device THEN 0 ELSE left[c]
    BY <1>1
  <2> HIDE DEF left, bare, kept
  <2> QED
    BY <2>2, <2>3, <2>4, <2>5, <2>6, <2>7, <2>8
<1>4. Typed'
  <2>1. /\ component' \in [Owners -> Components \cup {NoComponent}]
        /\ flow' \in [Slots -> Components \cup {NoFlow, Empty}]
    BY <1>1, Constants DEF Counted, Typed
  <2>2. refCnt' \in [Components -> Int]
    <3>1. \A c \in Components : left[c] \in Int
      BY <1>3
    <3>2. left \in [Components -> Int]
      BY <3>1
    <3>3. refCnt' = [left EXCEPT ![device] = 0]
      BY <1>1
    <3> HIDE DEF left
    <3> QED
      BY <3>2, <3>3
  <2>3. clients' \in [Slots -> Clients \cup {NoClient}]
    <3>1. Listed \in SUBSET {i \in Slots : clients[i] # NoClient}
      <4>1. currentMaxClients \in Nat /\ currentMaxClients <= MaxClients
        BY Constants DEF Counted, Typed
      <4>2. 1 .. currentMaxClients - 1 \subseteq Slots
        BY <4>1, Constants DEF Slots
      <4> QED
        BY <4>2 DEF Listed
    <3> QED
      BY <3>1, ClosedDownTyped DEF Reset, Counted
  <2>4. /\ nClients' \in Int /\ nextFreeClientID' \in 1 .. MaxClients
        /\ currentMaxClients' \in 1 .. MaxClients
        /\ ready' \subseteq Slots /\ current' \in Slots \cup {0}
    <3>1. /\ nClients' = 0 /\ nextFreeClientID' = 1 /\ currentMaxClients' = 1
          /\ ready' = {} /\ current' = current
      BY DEF Reset
    <3>2. MaxClients \in Nat /\ 1 <= MaxClients
      BY Constants
    <3> QED
      BY <3>1, <3>2 DEF Counted, Typed
  <2>5. exception' \in BOOLEAN
    BY DEF Reset
  <2> QED
    BY <2>1, <2>2, <2>3, <2>4, <2>5 DEF Typed
<1>5. ComponentsCounted'
  BY <1>3 DEF ComponentsCounted, Count
<1> QED
  BY <1>4, <1>5 DEF Counted

LEMMA InitCounts == Init => Counted
<1> SUFFICES ASSUME Init PROVE Counted
  OBVIOUS
<1>1. PICK device \in Components :
        /\ component = [i \in Owners |-> IF i = 0 THEN device ELSE NoComponent]
        /\ refCnt = [c \in Components |-> IF c = device THEN 0 ELSE -1]
  BY DEF Init
<1>2. Typed
  <2>1. MaxClients \in Nat /\ 1 <= MaxClients
    BY Constants
  <2>2. /\ clients \in [Slots -> Clients \cup {NoClient}]
        /\ flow \in [Slots -> Components \cup {NoFlow, Empty}]
        /\ ready \subseteq Slots /\ current \in Slots \cup {0}
    BY DEF Init
  <2>3. /\ component \in [Owners -> Components \cup {NoComponent}]
        /\ refCnt \in [Components -> Int]
    BY <1>1
  <2>4. /\ nClients \in Int /\ nextFreeClientID \in 1 .. MaxClients
        /\ currentMaxClients \in 1 .. MaxClients
    BY <2>1 DEF Init
  <2>5. exception \in BOOLEAN
    BY DEF Init
  <2> QED
    BY <2>2, <2>3, <2>4, <2>5 DEF Typed
<1>3. ASSUME NEW c \in Components
      PROVE  refCnt[c] + 1 = Cardinality({i \in Owners : component[i] = c})
                              + Cardinality({i \in Slots : flow[i] = c})
  <2>1. {i \in Slots : flow[i] = c} = {}
    BY Constants DEF Init
  <2>2. {i \in Owners : component[i] = c} = IF c = device THEN {0} ELSE {}
    BY <1>1, Constants DEF Owners
  <2>3. Cardinality({0}) = 1 /\ Cardinality({}) = 0
    BY FS_Singleton, FS_EmptySet
  <2> QED
    BY <1>1, <2>1, <2>2, <2>3
<1> QED
  BY <1>2, <1>3 DEF Counted, ComponentsCounted

\* The clients that an action closes.
LEMMA RetainedAreSlots ==
  ASSUME Typed
  PROVE  {i \in 1 .. currentMaxClients - 1 : /\ clients[i] # NoClient /\ clients[i].gone
                                             /\ clients[i].mode = "RetainTemporary"}
           \in SUBSET {i \in Slots : clients[i] # NoClient}
<1>1. currentMaxClients \in Nat /\ currentMaxClients <= MaxClients
  BY Constants DEF Typed
<1>2. 1 .. currentMaxClients - 1 \subseteq Slots
  BY <1>1, Constants DEF Slots
<1> QED
  BY <1>2

LEMMA FreeOneCounts ==
  ASSUME Counted, NEW I \in SUBSET Owners, NEW F \in SUBSET Slots, FreeResources(I, F),
         UNCHANGED <<clientVars, ready, current>>
  PROVE  Counted'
<1>1. /\ component' \in [Owners -> Components \cup {NoComponent}]
      /\ flow' \in [Slots -> Components \cup {NoFlow, Empty}]
      /\ refCnt' \in [Components -> Int]
      /\ ComponentsCounted'
  BY FreeResourcesCounts
<1> QED
  BY <1>1 DEF Counted, Typed, clientVars

LEMMA RequestCounts == ASSUME Counted, Request PROVE Counted'
<1>1. Typed
  BY DEF Counted
<1>2. ASSUME NEW mode \in Modes, SetCloseDownMode(mode)
      PROVE  Counted'
  <2>1. current \in Slots /\ clients[current] \in Clients
    BY <1>1, <1>2 DEF SetCloseDownMode, Serving, Established, Connected, Typed
  <2>2. [clients[current] EXCEPT !.mode = mode] \in Clients
    BY <2>1 DEF Clients
  <2>3. clients' \in [Slots -> Clients \cup {NoClient}]
    BY <1>1, <1>2, <2>1, <2>2 DEF SetCloseDownMode, Typed
  <2> QED
    BY <1>2, <2>3 DEF SetCloseDownMode, Counted, Typed, ComponentsCounted, resourceVars
<1>3. CASE KillRetained
  BY <1>1, <1>3, RetainedAreSlots, CloseDownCounts DEF KillRetained, Typed
<1>4. CASE CreateBucket
  BY <1>4, CreateBucketCounts
<1>5. CASE CreateFlow
  <2>1. current \in Slots /\ flow[current] = NoFlow /\ flow' = [flow EXCEPT ![current] = Empty]
    BY <1>1, <1>5 DEF CreateFlow, Serving, Typed
  <2>2. UNCHANGED <<clientVars, ready, current, component, refCnt>>
    BY <1>5 DEF CreateFlow
  <2>3. Typed'
    BY <1>1, <2>1, <2>2 DEF Typed, clientVars
  <2>4. ASSUME NEW c \in Components
        PROVE  {i \in Slots : flow'[i] = c} = {i \in Slots : flow[i] = c}
    BY <1>1, <2>1, Constants DEF Typed
  <2>5. ComponentsCounted'
    BY <2>2, <2>4 DEF Counted, ComponentsCounted
  <2> QED
    BY <2>3, <2>5 DEF Counted
<1>6. ASSUME NEW i \in Slots
      PROVE  /\ KillClient(i) => Counted'
             /\ DestroyBucket(i) => Counted'
             /\ DestroyFlow(i) => Counted'
  <2>1. CASE KillClient(i)
    <3>1. {i} \in SUBSET {j \in Slots : clients[j] # NoClient}
      BY <2>1 DEF KillClient
    <3>2. CloseDown({i}) /\ ready' = ready /\ current' = StillServed(i)
      BY <2>1 DEF KillClient
    <3>3. ready' \subseteq Slots /\ current' \in Slots \cup {0}
      BY <1>1, <3>2 DEF StillServed, Typed
    <3> QED
      BY <3>1, <3>2, <3>3, CloseDownCounts
  <2>2. CASE DestroyBucket(i)
    <3>1. {i} \in SUBSET Owners /\ {} \in SUBSET Slots
      BY Constants
    <3> QED
      BY <2>2, <3>1, FreeOneCounts DEF DestroyBucket
  <2>3. CASE DestroyFlow(i)
    <3>1. {} \in SUBSET Owners /\ {i} \in SUBSET Slots
      OBVIOUS
    <3> QED
      BY <2>3, <3>1, FreeOneCounts DEF DestroyFlow
  <2> QED
    BY <2>1, <2>2, <2>3
<1>7. ASSUME NEW i \in Slots, NEW o \in Owners, SetElements(i, o)
      PROVE  Counted'
  BY <1>7, SetElementsCounts
<1> QED
  BY <1>2, <1>3, <1>4, <1>5, <1>6, <1>7 DEF Request

LEMMA NextCounts == ASSUME Counted, [Next]_vars PROVE Counted'
<1>1. Typed
  BY DEF Counted
<1>2. CASE Accept
  BY <1>2, AcceptCounts
<1>3. CASE Wait
  BY <1>3 DEF Wait, Counted, Typed, ComponentsCounted, clientVars, resourceVars
<1>4. CASE Take
  <2>1. ready' \subseteq Slots /\ current' \in Slots \cup {0}
    BY <1>1, <1>4 DEF Take, Typed
  <2> QED
    BY <1>4, <2>1 DEF Take, Counted, Typed, ComponentsCounted, clientVars, resourceVars
<1>5. CASE Yield
  BY <1>5 DEF Yield, Counted, Typed, ComponentsCounted, clientVars, resourceVars
<1>6. CASE Disconnect
  <2>1. {current} \in SUBSET {j \in Slots : clients[j] # NoClient}
    BY <1>1, <1>6 DEF Disconnect, Connected, Typed
  <2>2. CloseDown({current}) /\ ready' = ready /\ current' = 0
    BY <1>6 DEF Disconnect
  <2> QED
    BY <1>1, <2>1, <2>2, CloseDownCounts DEF Typed
<1>7. CASE EstablishConnection
  <2>1. /\ current \in Slots /\ clients[current] \in Clients
        /\ clients' = [clients EXCEPT ![current].established = TRUE]
    BY <1>1, <1>7 DEF EstablishConnection, Connected, Typed
  <2>2. clients' \in [Slots -> Clients \cup {NoClient}]
    <3>1. [clients[current] EXCEPT !.established = TRUE] \in Clients
      BY <2>1 DEF Clients
    <3> QED
      BY <1>1, <2>1, <3>1 DEF Typed
  <2> QED
    BY <1>7, <2>2 DEF EstablishConnection, Counted, Typed, ComponentsCounted, resourceVars
<1>8. CASE Request
  BY <1>8, RequestCounts
<1>9. CASE Hangup
  <2>1. exception' \in BOOLEAN
    BY <1>9 DEF Hangup
  <2> QED
    BY <1>9, <2>1 DEF Hangup, Counted, Typed, ComponentsCounted, resourceVars
<1>10. CASE Reset
  BY <1>10, ResetCounts
<1>11. CASE UNCHANGED vars
  BY <1>11 DEF vars, Counted, Typed, ComponentsCounted, clientVars, resourceVars
<1> QED
  BY <1>2, <1>3, <1>4, <1>5, <1>6, <1>7, <1>8, <1>9, <1>10, <1>11 DEF Next

\* A component lives exactly as long as an id or a flow refers to it: whatever
\* clients and users do, the counts of auutil.c are the numbers of references.
THEOREM ComponentsAlwaysCounted == Spec => []ComponentsCounted
<1>1. Init => Counted
  BY InitCounts
<1>2. Counted /\ [Next]_vars => Counted'
  BY NextCounts
<1>3. Counted => ComponentsCounted
  BY DEF Counted
<1> QED
  BY <1>1, <1>2, <1>3, PTL DEF Spec

-----------------------------------------------------------------------------
\* A client that is not being closed is left alone; one that is loses its slot
\* or becomes one that is gone.
LEMMA ClosedDownSlots ==
  ASSUME Typed, NEW C \in SUBSET {i \in Slots : clients[i] # NoClient}, NEW i \in Slots
  PROVE  /\ i \notin C => ClosedDown(C)[i] = clients[i]
         /\ i \in Freed(C) => ClosedDown(C)[i] = NoClient
         /\ i \in C \ Freed(C) => /\ ClosedDown(C)[i] = [clients[i] EXCEPT !.gone = TRUE]
                                  /\ ClosedDown(C)[i] \in Clients /\ ClosedDown(C)[i] # NoClient
                                  /\ ClosedDown(C)[i].gone
                                  /\ ClosedDown(C)[i].mode = clients[i].mode
         /\ i \in Freed(C) <=> i \in C /\ (clients[i].gone \/ clients[i].mode = "Destroy")
         /\ clients[i] = NoClient => i \notin C
<1>1. Freed(C) \in SUBSET C
  BY DEF Freed
<1>2. ASSUME i \in C \ Freed(C)
      PROVE  LET closed == [clients[i] EXCEPT !.gone = TRUE]
             IN  /\ closed \in Clients /\ closed # NoClient
                 /\ closed.gone /\ closed.mode = clients[i].mode
  <2>1. clients[i] \in Clients
    BY <1>2 DEF Typed
  <2> QED
    BY <2>1, Constants DEF Clients
<1> QED
  BY <1>1, <1>2 DEF ClosedDown, Freed

\* A closed client keeps no connection, and one already gone loses its slot.
LEMMA ClosedDownGone ==
  ASSUME Typed, NEW C \in SUBSET {i \in Slots : clients[i] # NoClient}, NEW i \in Slots
  PROVE  /\ i \notin C => ClosedDown(C)[i] = clients[i]
         /\ i \in C => ClosedDown(C)[i] = NoClient \/ ClosedDown(C)[i].gone
         /\ i \in C /\ clients[i].gone => ClosedDown(C)[i] = NoClient
<1>1. CASE i \notin C
  BY <1>1, ClosedDownSlots
<1>2. CASE i \in Freed(C)
  BY <1>2, ClosedDownSlots DEF Freed
<1>3. CASE i \in C \ Freed(C)
  BY <1>3, ClosedDownSlots DEF Freed
<1> QED
  BY <1>1, <1>2, <1>3

\* Dispatch: nobody who is still to be served in a round has lost his
\* connection and kept his slot.
LEMMA RoundKept ==
  ASSUME NoLateKill, Typed, RoundInOrder, [Next]_vars
  PROVE  RoundInOrder'
<1>1. CASE Accept
  <2>1. current' = 0 /\ ready' = {}
    BY <1>1 DEF Accept
  <2> QED
    BY <2>1 DEF RoundInOrder, ServedClientConnected
<1>2. CASE Wait
  <2>1. /\ current' = 0 /\ ready' \subseteq {i \in Slots : Connected(i)} /\ clients' = clients
    BY <1>2 DEF Wait, clientVars
  <2> QED
    BY <2>1 DEF RoundInOrder, ServedClientConnected, Connected, Slots
<1>3. CASE Take
  <2>1. PICK i \in ready : /\ ready' = ready \ {i}
                           /\ current' = IF clients[i] = NoClient THEN 0 ELSE i
    BY <1>3 DEF Take
  <2>2. clients' = clients
    BY <1>3 DEF Take, clientVars
  <2>3. 0 \notin ready
    BY DEF Typed, Slots
  <2> QED
    BY <2>1, <2>2, <2>3 DEF RoundInOrder, ServedClientConnected, Connected
<1>4. CASE Yield
  <2>1. current' = 0 /\ ready' = ready /\ clients' = clients
    BY <1>4 DEF Yield, clientVars
  <2>2. 0 \notin ready
    BY DEF Typed, Slots
  <2> QED
    BY <2>1, <2>2 DEF RoundInOrder, ServedClientConnected
<1>5. ASSUME NEW C \in SUBSET {i \in Slots : clients[i] # NoClient}, CloseDown(C),
             ready' = ready, current' \in {0, current}, current \in C => current' = 0,
             \A i \in C : i \in ready => i \in Freed(C)
      PROVE  RoundInOrder'
  <2>1. clients' = ClosedDown(C)
    BY <1>5 DEF CloseDown
  <2>2. current' # 0 => clients'[current'] = clients[current]
    <3>1. SUFFICES ASSUME current' # 0 PROVE clients'[current'] = clients[current]
      OBVIOUS
    <3>2. current' = current /\ current \in Slots /\ current \notin C
      BY <1>5, <3>1 DEF Typed
    <3>3. ClosedDown(C)[current] = clients[current]
      BY <3>2, ClosedDownSlots
    <3> QED
      BY <2>1, <3>2, <3>3
  <2>3. ServedClientConnected'
    BY <1>5, <2>2 DEF RoundInOrder, ServedClientConnected, Connected
  <2>4. ASSUME NEW i \in ready
        PROVE  clients'[i] # NoClient => ~clients'[i].gone
    BY <1>5, <2>1, ClosedDownSlots DEF Typed, RoundInOrder
  <2>5. current' \notin ready
    <3>1. 0 \notin ready
      BY DEF Typed, Slots
    <3> QED
      BY <1>5, <3>1 DEF RoundInOrder
  <2> QED
    BY <1>5, <2>3, <2>4, <2>5 DEF RoundInOrder
<1>6. CASE Disconnect
  <2>1. {current} \in SUBSET {j \in Slots : clients[j] # NoClient}
    BY <1>6 DEF Disconnect, Connected, Typed
  <2> QED
    BY <1>5, <1>6, <2>1 DEF Disconnect, RoundInOrder
<1>7. ASSUME current \in Slots, ready' = ready, current' = current,
             NEW closed, closed.gone = clients[current].gone, closed # NoClient,
             clients' = [clients EXCEPT ![current] = closed]
      PROVE  RoundInOrder'
  BY <1>7 DEF RoundInOrder, ServedClientConnected, Connected, Typed
<1>8. CASE EstablishConnection
  <2>1. clients[current] \in Clients /\ current \in Slots
    BY <1>8 DEF EstablishConnection, Connected, Typed
  <2>2. /\ [clients[current] EXCEPT !.established = TRUE].gone = clients[current].gone
        /\ [clients[current] EXCEPT !.established = TRUE] \in Clients
    BY <2>1 DEF Clients
  <2> QED
    BY <1>7, <1>8, <2>1, <2>2, Constants DEF EstablishConnection
<1>9. CASE \E mode \in Modes : SetCloseDownMode(mode)
  <2>1. PICK mode \in Modes : SetCloseDownMode(mode)
    BY <1>9
  <2>2. clients[current] \in Clients /\ current \in Slots
    BY <2>1 DEF SetCloseDownMode, Serving, Established, Connected, Typed
  <2>3. /\ [clients[current] EXCEPT !.mode = mode].gone = clients[current].gone
        /\ [clients[current] EXCEPT !.mode = mode] \in Clients
    BY <2>2 DEF Clients
  <2> QED
    BY <1>7, <2>1, <2>2, <2>3, Constants DEF SetCloseDownMode
<1>10. CASE KillRetained
  <2> DEFINE C == {i \in 1 .. currentMaxClients - 1 : /\ clients[i] # NoClient /\ clients[i].gone
                                                      /\ clients[i].mode = "RetainTemporary"}
  <2>1. C \in SUBSET {i \in Slots : clients[i] # NoClient}
    BY RetainedAreSlots
  <2>2. current \notin C /\ \A i \in C : i \notin ready
    BY <1>10 DEF KillRetained, Serving, Established, Connected, RoundInOrder
  <2>3. CloseDown(C) /\ ready' = ready /\ current' = current
    BY <1>10 DEF KillRetained
  <2> HIDE DEF C
  <2> QED
    BY <1>5, <2>1, <2>2, <2>3
<1>11. ASSUME NEW i \in Slots, KillClient(i)
       PROVE  RoundInOrder'
  <2>1. {i} \in SUBSET {j \in Slots : clients[j] # NoClient}
    BY <1>11 DEF KillClient
  <2>2. i = current \/ i \notin ready \/ clients[i].mode = "Destroy"
    BY <1>11 DEF KillClient, NoLateKill
  <2>3. i \in ready => i \in Freed({i})
    BY <2>2 DEF Freed, RoundInOrder
  <2>4. current' \in {0, current} /\ (current \in {i} => current' = 0)
    BY <1>11 DEF KillClient, StillServed
  <2> QED
    BY <1>5, <1>11, <2>1, <2>3, <2>4 DEF KillClient
<1>12. ASSUME UNCHANGED <<clients, ready, current>>
       PROVE  RoundInOrder'
  BY <1>12 DEF RoundInOrder, ServedClientConnected, Connected
<1>13. CASE Request
  <2>1. CASE CreateBucket \/ CreateFlow
    BY <1>12, <2>1 DEF CreateBucket, CreateFlow, clientVars
  <2>2. ASSUME NEW i \in Slots, DestroyBucket(i) \/ DestroyFlow(i)
        PROVE  RoundInOrder'
    BY <1>12, <2>2 DEF DestroyBucket, DestroyFlow, clientVars
  <2>3. ASSUME NEW i \in Slots, NEW o \in Owners, SetElements(i, o)
        PROVE  RoundInOrder'
    BY <1>12, <2>3 DEF SetElements, clientVars
  <2> QED
    BY <1>9, <1>10, <1>11, <1>13, <2>1, <2>2, <2>3 DEF Request
<1>14. CASE Hangup
  BY <1>12, <1>14 DEF Hangup
<1>15. CASE Reset
  <2>1. current' = 0 /\ ready' = {}
    BY <1>15 DEF Reset
  <2> QED
    BY <2>1 DEF RoundInOrder, ServedClientConnected
<1>16. CASE UNCHANGED vars
  BY <1>12, <1>16 DEF vars, clientVars
<1> QED
  BY <1>1, <1>2, <1>3, <1>4, <1>6, <1>8, <1>13, <1>14, <1>15, <1>16 DEF Next

\* Dispatch reads requests only from a client that has its connection, as long
\* as no client kills one that retains and is still to be served.
THEOREM OnlyConnectedServed == NoLateKill => (Spec => []ServedClientConnected)
<1> SUFFICES ASSUME NoLateKill PROVE Spec => []ServedClientConnected
  OBVIOUS
<1>1. Init => Counted /\ RoundInOrder
  BY InitCounts DEF Init, RoundInOrder, ServedClientConnected
<1>2. Counted /\ RoundInOrder /\ [Next]_vars => (Counted /\ RoundInOrder)'
  BY NextCounts, RoundKept DEF Counted
<1>3. RoundInOrder => ServedClientConnected
  BY DEF RoundInOrder
<1> QED
  BY <1>1, <1>2, <1>3, PTL DEF Spec

-----------------------------------------------------------------------------
\* Closing established and retained clients keeps the table in order.
LEMMA CloseDownInOrder ==
  ASSUME Typed, TableInOrder, NEW C \in SUBSET {i \in Slots : clients[i] # NoClient},
         \A i \in C : Connected(i) => Established(i),
         CloseDown(C)
  PROVE  /\ TableInOrder'
         /\ ~exception /\ exception' => \A i \in Slots : ~Established(i)'
<1>1. clients' = ClosedDown(C) /\ Freed(C) \in SUBSET C
  BY ClosedDownTyped DEF CloseDown
<1>2. nextFreeClientID' = Min({MaxClients} \cup {i \in Slots : clients'[i] = NoClient})
  <2> DEFINE S == {nextFreeClientID} \cup Freed(C)
             T == {MaxClients} \cup {i \in Slots : clients[i] = NoClient}
             U == {MaxClients} \cup {i \in Slots : clients'[i] = NoClient}
  <2>1. S \in SUBSET Nat /\ T \in SUBSET Nat /\ U \in SUBSET Nat /\ S # {} /\ T # {}
    <3>1. nextFreeClientID \in Nat
      BY DEF Typed
    <3>2. Freed(C) \in SUBSET Nat
      BY <1>1, Constants
    <3> QED
      BY <3>1, <3>2, Constants
  <2>2. nextFreeClientID \in T /\ \A y \in T : nextFreeClientID <= y
    <3>1. nextFreeClientID = Min(T)
      BY DEF TableInOrder
    <3> QED
      BY <2>1, <3>1, MinIsLeast
  <2>3. T \subseteq U /\ Freed(C) \subseteq U /\ U \subseteq T \cup Freed(C)
    BY <1>1, ClosedDownSlots
  <2>4. Min(S) \in S /\ \A y \in S : Min(S) <= y
    BY <2>1, MinIsLeast
  <2>5. Min(S) \in U
    BY <2>2, <2>3, <2>4
  <2>6. ASSUME NEW y \in U PROVE Min(S) <= y
    <3>1. CASE y \in Freed(C)
      BY <2>4, <3>1
    <3>2. CASE y \in T
      <4>1. nextFreeClientID <= y /\ Min(S) <= nextFreeClientID
        BY <2>2, <2>4, <3>2
      <4>2. Min(S) \in Nat /\ nextFreeClientID \in Nat /\ y \in Nat
        BY <2>1, <2>2, <2>4, <3>2
      <4> QED
        BY <4>1, <4>2
    <3> QED
      BY <2>3, <3>1, <3>2
  <2>7. Min(U) = Min(S)
    <3> HIDE DEF S, T, U
    <3> QED
      BY <2>1, <2>5, <2>6, MinIs
  <2> QED
    BY <2>7 DEF CloseDown, NextFree
<1>3. \A i \in Slots : clients'[i] # NoClient => i < currentMaxClients'
  <2>1. currentMaxClients' = LastSlot(ClosedDown(C))
    BY DEF CloseDown
  <2>2. \A i \in Slots : ClosedDown(C)[i] # NoClient => clients[i] # NoClient
    BY ClosedDownSlots
  <2> QED
    BY <1>1, <2>1, <2>2, LastSlotCovers DEF TableInOrder
<1>4. \A i \in Slots : (component'[i] # NoComponent \/ flow'[i] # NoFlow) => clients'[i] # NoClient
  <2> SUFFICES ASSUME NEW i \in Slots, component'[i] # NoComponent \/ flow'[i] # NoFlow
               PROVE  clients'[i] # NoClient
    OBVIOUS
  <2>1. /\ component' = [j \in Owners |-> IF j \in Freed(C) THEN NoComponent ELSE component[j]]
        /\ flow' = [j \in Slots |-> IF j \in Freed(C) THEN NoFlow ELSE flow[j]]
    BY DEF CloseDown, FreeResources
  <2>2. i \notin Freed(C) /\ (component[i] # NoComponent \/ flow[i] # NoFlow)
    BY <2>1, Constants
  <2>3. clients[i] # NoClient
    BY <2>2 DEF TableInOrder
  <2> QED
    BY <1>1, <2>2, <2>3, ClosedDownSlots
<1>5. {i \in Slots : Established(i)'} = {i \in Slots : Established(i)} \ {i \in C : Connected(i)}
  <2>1. ASSUME NEW i \in Slots
        PROVE  Established(i)' <=> Established(i) /\ i \notin C
    <3>1. clients'[i] = ClosedDown(C)[i]
      BY <1>1
    <3> QED
      BY <3>1, ClosedDownGone DEF Established, Connected
  <2> QED
    BY <2>1 DEF Established
<1>6. /\ nClients' = Cardinality({i \in Slots : Established(i)'})
      /\ IsFiniteSet({i \in Slots : Established(i)'})
  <2> DEFINE E == {i \in Slots : Established(i)}
             D == {i \in C : Connected(i)}
  <2>1. E \in SUBSET Slots /\ D \in SUBSET E
    OBVIOUS
  <2>2. IsFiniteSet(E) /\ IsFiniteSet(D) /\ IsFiniteSet(E \ D)
    BY <2>1, Constants, FS_Subset
  <2>3. nClients = Cardinality(E) /\ nClients' = nClients - Cardinality(D)
    BY DEF TableInOrder, CloseDown, StillConnected
  <2>4. E \cap D = D
    BY <2>1
  <2> HIDE DEF E, D
  <2>5. Cardinality(E \ D) = Cardinality(E) - Cardinality(D)
    BY <2>2, <2>4, FS_Difference
  <2> QED
    BY <1>5, <2>2, <2>3, <2>5 DEF E, D
<1>7. ~exception /\ exception' => \A i \in Slots : ~Established(i)'
  <2> SUFFICES ASSUME ~exception, exception' PROVE \A i \in Slots : ~Established(i)'
    OBVIOUS
  <2>1. nClients' = 0
    BY DEF CloseDown
  <2>2. {i \in Slots : Established(i)'} = {}
    BY <1>6, <2>1, FS_EmptySet
  <2> QED
    BY <2>2
<1>8. ASSUME NEW i \in Slots, Connected(i)', ~Established(i)' \/ exception'
      PROVE  clients'[i].mode = "Destroy"
  <2>1. i \notin C /\ clients'[i] = clients[i]
    BY <1>1, <1>8, ClosedDownGone DEF Connected
  <2>2. Connected(i) /\ (Established(i)' <=> Established(i))
    BY <1>8, <2>1 DEF Connected, Established
  <2>3. CASE exception \/ ~Established(i)
    BY <2>1, <2>2, <2>3 DEF TableInOrder
  <2>4. CASE ~exception /\ Established(i)
    BY <1>7, <1>8, <2>2, <2>4
  <2> QED
    BY <2>3, <2>4
<1> QED
  BY <1>2, <1>3, <1>4, <1>6, <1>7, <1>8 DEF TableInOrder

\* EstablishNewConnections: the smallest free slot is the one a connection gets.
LEMMA AcceptInOrder ==
  ASSUME Orderly, Typed, TableInOrder, Accept
  PROVE  /\ TableInOrder'
         /\ \A i \in Slots : clients[i] # NoClient => clients'[i] = clients[i]
<1> DEFINE id == nextFreeClientID
           last == LastSlot(clients)
           T == {MaxClients} \cup {i \in Slots : clients[i] = NoClient}
<1>1. Freed({}) = {} /\ ClosedDown({}) = clients
  <2>1. Freed({}) = {}
    BY DEF Freed
  <2>2. clients = [i \in Slots |-> clients[i]]
    BY DEF Typed
  <2> QED
    BY <2>1, <2>2 DEF ClosedDown
<1>2. NextFree({}) = id /\ StillConnected({}) = nClients
  <2>1. id \in Nat /\ {id} \in SUBSET Nat /\ id \in {id} /\ \A y \in {id} : id <= y
    BY DEF Typed
  <2>2. Min({id}) = id
    BY <2>1, MinIs
  <2>3. {id} \cup Freed({}) = {id} /\ {i \in {} : Connected(i)} = {}
    BY <1>1
  <2>4. Cardinality({}) = 0
    BY FS_EmptySet
  <2>5. NextFree({}) = id
    BY <2>2, <2>3 DEF NextFree
  <2>6. StillConnected({}) = nClients - 0 /\ nClients \in Int
    BY <2>3, <2>4 DEF StillConnected, Typed
  <2> QED
    BY <2>5, <2>6
<1>3. /\ id < MaxClients
      /\ clients' = [clients EXCEPT ![id] = NewClient]
      /\ currentMaxClients' = IF id = last THEN last + 1 ELSE last
      /\ nextFreeClientID' = Min({MaxClients} \cup {j \in id .. MaxClients - 1 : clients'[j] = NoClient})
      /\ nClients' = nClients /\ FreeResources({}, {})
  <2>1. "refused" \notin Happens
    BY DEF Orderly
  <2> QED
    BY <1>1, <1>2, <2>1 DEF Accept
<1>4. id \in T /\ (\A y \in T : id <= y) /\ T \in SUBSET Nat
  <2>1. T \in SUBSET Nat /\ T # {}
    BY Constants
  <2>2. id = Min(T)
    BY DEF TableInOrder
  <2> QED
    BY <2>1, <2>2, MinIsLeast
<1>5. id \in Slots /\ clients[id] = NoClient /\ id \in Nat
  BY <1>3, <1>4, Constants
<1>6. ASSUME NEW j \in Slots, j < id
      PROVE  clients[j] # NoClient
  <2>1. j \notin T
    BY <1>4, <1>5, <1>6, Constants
  <2> QED
    BY <2>1
<1>7. /\ clients' \in [Slots -> Clients \cup {NoClient}]
      /\ \A i \in Slots : clients'[i] = IF i = id THEN NewClient ELSE clients[i]
  BY <1>3, <1>5, Constants DEF Typed
<1>8. nextFreeClientID' = Min({MaxClients} \cup {i \in Slots : clients'[i] = NoClient})
  <2>1. \A j \in Slots : j < id => clients'[j] # NoClient
    BY <1>6, <1>7, <1>5, Constants
  <2>2. \A j \in id .. MaxClients - 1 : j \in Slots
    BY <1>5, Constants DEF Slots
  <2>3. \A j \in Slots : ~(j < id) => j \in id .. MaxClients - 1
    BY <1>5, Constants DEF Slots
  <2>4. {j \in id .. MaxClients - 1 : clients'[j] = NoClient} = {i \in Slots : clients'[i] = NoClient}
    BY <2>1, <2>2, <2>3
  <2> QED
    BY <1>3, <2>4
<1>9. \A i \in Slots : clients'[i] # NoClient => i < currentMaxClients'
  <2>1. /\ last \in 1 .. currentMaxClients
        /\ \A i \in Slots : clients[i] # NoClient => i < last
    BY LastSlotCovers DEF TableInOrder
  <2>2. last \in Nat /\ last >= 1
    BY <2>1
  <2>3. id <= last
    <3>1. SUFFICES ASSUME last < id PROVE FALSE
      BY <1>5, <2>2
    <3>2. last \in Slots
      BY <1>3, <1>5, <2>2, <3>1, Constants DEF Slots
    <3>3. last < last
      BY <1>6, <2>1, <3>1, <3>2
    <3> QED
      BY <2>2, <3>3
  <2> HIDE DEF last
  <2>4. currentMaxClients' = (IF id = last THEN last + 1 ELSE last)
    BY <1>3 DEF last
  <2>5. ASSUME NEW i \in Slots, clients'[i] # NoClient
        PROVE  i < currentMaxClients'
    <3>1. i \in Nat /\ (i = id \/ i < last)
      BY <1>7, <2>1, <2>5, Constants
    <3> QED
      BY <1>5, <2>2, <2>3, <2>4, <3>1
  <2> QED
    BY <2>5
<1>10. \A i \in Slots : (component'[i] # NoComponent \/ flow'[i] # NoFlow) => clients'[i] # NoClient
  <2>1. \A i \in Slots : component'[i] = component[i] /\ flow'[i] = flow[i]
    BY <1>3, Constants DEF FreeResources
  <2> QED
    BY <1>7, <2>1, Constants DEF TableInOrder
<1>11. nClients' = Cardinality({i \in Slots : Established(i)'})
  <2>1. ASSUME NEW i \in Slots PROVE Established(i)' <=> Established(i)
    BY <1>5, <1>7 DEF Established, Connected, NewClient
  <2>2. {i \in Slots : Established(i)'} = {i \in Slots : Established(i)}
    BY <2>1
  <2> QED
    BY <1>3, <2>2 DEF TableInOrder
<1>12. ASSUME NEW i \in Slots, Connected(i)', ~Established(i)' \/ exception'
       PROVE  clients'[i].mode = "Destroy"
  <2>1. CASE i = id
    BY <1>7, <2>1 DEF NewClient
  <2>2. CASE i # id
    <3>1. ~exception'
      BY DEF Accept
    <3>2. clients'[i] = clients[i] /\ Connected(i) /\ ~Established(i)
      BY <1>7, <1>12, <2>2, <3>1 DEF Connected, Established
    <3> QED
      BY <3>2 DEF TableInOrder
  <2> QED
    BY <2>1, <2>2
<1> QED
  BY <1>5, <1>7, <1>8, <1>9, <1>10, <1>11, <1>12 DEF TableInOrder

\* KillAllClients and FreeAllResources leave nothing.
LEMMA ResetInOrder ==
  ASSUME Typed, TableInOrder, Reset
  PROVE  /\ TableInOrder'
         /\ \A i \in Slots : /\ clients'[i] = NoClient /\ flow'[i] = NoFlow
                             /\ component'[i] = NoComponent
<1>1. \A i \in Slots : clients'[i] = NoClient
  <2>1. Listed = {i \in Slots : clients[i] # NoClient}
    <3>1. currentMaxClients \in Nat /\ currentMaxClients <= MaxClients
      BY Constants DEF Typed
    <3>2. 1 .. currentMaxClients - 1 \subseteq Slots
      BY <3>1, Constants DEF Slots
    <3>3. \A i \in Slots : clients[i] # NoClient => i \in 1 .. currentMaxClients - 1
      BY <3>1, Constants DEF TableInOrder, Slots
    <3> QED
      BY <3>2, <3>3 DEF Listed
  <2>2. ASSUME NEW i \in Listed PROVE i \in Freed(Listed)
    <3>1. i \in Slots /\ clients[i] # NoClient /\ exception
      BY <2>1 DEF Reset
    <3> QED
      BY <2>2, <3>1 DEF Freed, TableInOrder, Connected
  <2>3. Listed \in SUBSET {i \in Slots : clients[i] # NoClient} /\ clients' = ClosedDown(Listed)
    BY <2>1 DEF Reset
  <2>4. ASSUME NEW i \in Slots PROVE ClosedDown(Listed)[i] = NoClient
    <3>1. CASE i \in Listed
      BY <2>2, <2>3, <3>1, ClosedDownSlots
    <3>2. CASE i \notin Listed
      <4>1. clients[i] = NoClient
        BY <2>1, <3>2
      <4> QED
        BY <2>3, <3>2, <4>1, ClosedDownSlots
    <3> QED
      BY <3>1, <3>2
  <2> QED
    BY <2>3, <2>4
<1>2. \A i \in Slots : flow'[i] = NoFlow /\ component'[i] = NoComponent
  <2>1. ASSUME NEW i \in Slots, i >= currentMaxClients
        PROVE  component[i] = NoComponent /\ flow[i] = NoFlow
    <3>1. currentMaxClients \in Nat /\ i \in Nat
      BY Constants DEF Typed
    <3>2. clients[i] = NoClient
      BY <2>1, <3>1 DEF TableInOrder
    <3> QED
      BY <3>2 DEF TableInOrder
  <2>2. ASSUME NEW i \in Slots PROVE i # 0 /\ i \in Owners
    BY Constants DEF Slots
  <2> QED
    BY <2>1, <2>2 DEF Reset
<1>3. nextFreeClientID' = Min({MaxClients} \cup {i \in Slots : clients'[i] = NoClient})
  <2>1. {MaxClients} \cup {i \in Slots : clients'[i] = NoClient} = {MaxClients} \cup Slots
    BY <1>1
  <2>2. /\ {MaxClients} \cup Slots \in SUBSET Nat /\ 1 \in {MaxClients} \cup Slots
        /\ \A y \in {MaxClients} \cup Slots : 1 <= y
    BY Constants DEF Slots
  <2>3. Min({MaxClients} \cup Slots) = 1
    BY <2>2, MinIs
  <2> QED
    BY <2>1, <2>3 DEF Reset
<1>4. nClients' = Cardinality({i \in Slots : Established(i)'})
  <2>1. {i \in Slots : Established(i)'} = {}
    BY <1>1 DEF Established, Connected
  <2> QED
    BY <2>1, FS_EmptySet DEF Reset
<1> QED
  BY <1>1, <1>2, <1>3, <1>4 DEF TableInOrder, Connected

\* What a step does to the clients, the exception and the retained slots.
Idle == ~exception /\ exception' /\ clients' # clients => \A i \in Slots : ~Established(i)'

Retains ==
    \A i \in Slots :
       clients[i] # NoClient /\ clients[i].gone /\ clients'[i] # clients[i]
          => clients'[i] = NoClient /\ (exception \/ current # 0)

FreesAll ==
    exception /\ ~exception' =>
       /\ \A i \in Slots : clients'[i] = NoClient /\ flow'[i] = NoFlow
       /\ \A i \in Slots : component'[i] = NoComponent

InOrder == TableInOrder' /\ Idle /\ Retains /\ FreesAll

\* A request or a disconnection that closes the clients of C.
LEMMA ClosingInOrder ==
  ASSUME Typed, TableInOrder, NEW C \in SUBSET {i \in Slots : clients[i] # NoClient},
         \A i \in C : Connected(i) => Established(i),
         CloseDown(C), current # 0
  PROVE  InOrder
<1>1. TableInOrder' /\ Idle
  BY CloseDownInOrder DEF Idle
<1>2. Retains
  <2> SUFFICES ASSUME NEW i \in Slots, clients[i] # NoClient, clients[i].gone,
                      clients'[i] # clients[i]
               PROVE  clients'[i] = NoClient
    BY DEF Retains
  <2>1. clients' = ClosedDown(C)
    BY DEF CloseDown
  <2> QED
    BY <2>1, ClosedDownGone
<1>3. FreesAll
  <2>1. exception => exception'
    BY DEF CloseDown
  <2> QED
    BY <2>1 DEF FreesAll
<1> QED
  BY <1>1, <1>2, <1>3 DEF InOrder

\* A request that changes what a client owns, and no client.
LEMMA OwningInOrder ==
  ASSUME TableInOrder, UNCHANGED clientVars,
         \A i \in Slots : (component'[i] # NoComponent \/ flow'[i] # NoFlow) => clients[i] # NoClient
  PROVE  InOrder
<1>1. \A i \in Slots : /\ Connected(i)' <=> Connected(i)
                       /\ Established(i)' <=> Established(i)
  BY DEF clientVars, Connected, Established
<1>2. {i \in Slots : Established(i)'} = {i \in Slots : Established(i)}
  BY <1>1
<1>3. TableInOrder'
  BY <1>1, <1>2 DEF TableInOrder, clientVars
<1> QED
  BY <1>3 DEF InOrder, Idle, Retains, FreesAll, clientVars

\* What a client that is being served changes of itself.
LEMMA ServedInOrder ==
  ASSUME Typed, TableInOrder, current \in Slots, Connected(current),
         NEW served \in Clients, clients' = [clients EXCEPT ![current] = served],
         ~served.gone, ~served.established => served.mode = "Destroy",
         exception => served.mode = "Destroy",
         nClients' = nClients + (IF served.established THEN 1 ELSE 0)
                              - (IF Established(current) THEN 1 ELSE 0),
         UNCHANGED <<nextFreeClientID, currentMaxClients, exception, resourceVars>>
  PROVE  InOrder
<1>1. \A i \in Slots : clients'[i] = IF i = current THEN served ELSE clients[i]
  BY DEF Typed
<1>2. clients[current] # NoClient /\ served # NoClient
  BY Constants DEF Connected
<1>3. {i \in Slots : clients'[i] = NoClient} = {i \in Slots : clients[i] = NoClient}
  BY <1>1, <1>2
<1>4. nClients' = Cardinality({i \in Slots : Established(i)'})
  <2> DEFINE E == {i \in Slots : Established(i)}
             F == {i \in Slots : Established(i)'}
             R == E \ {current}
  <2>1. IsFiniteSet(E) /\ IsFiniteSet(R)
    <3>1. E \in SUBSET Slots /\ R \in SUBSET Slots
      OBVIOUS
    <3> QED
      BY <3>1, Constants, FS_Subset
  <2>2. F = IF served.established THEN R \cup {current} ELSE R
    BY <1>1, <1>2 DEF Established, Connected
  <2>3. current \in E <=> Established(current)
    OBVIOUS
  <2>4. current \notin R
    OBVIOUS
  <2>5. nClients = Cardinality(E)
    BY DEF TableInOrder
  <2> HIDE DEF E, F
  <2>6. Cardinality(R) = Cardinality(E) - (IF current \in E THEN 1 ELSE 0)
    BY <2>1, FS_RemoveElement, FS_CardinalityType
  <2> HIDE DEF R
  <2>7. Cardinality(F) = Cardinality(R) + (IF served.established THEN 1 ELSE 0)
    <3>1. Cardinality(R \cup {current}) = Cardinality(R) + 1
      BY <2>1, <2>4, FS_AddElement
    <3>2. Cardinality(R) \in Nat
      BY <2>1, FS_CardinalityType
    <3>3. CASE served.established
      BY <2>2, <3>1, <3>3
    <3>4. CASE ~served.established
      BY <2>2, <3>2, <3>4
    <3> QED
      BY <3>3, <3>4
  <2>8. nClients' = Cardinality(F)
    <3>1. Cardinality(E) \in Nat /\ Cardinality(R) \in Nat
      BY <2>1, FS_CardinalityType
    <3> QED
      BY <2>3, <2>5, <2>6, <2>7, <3>1
  <2> QED
    BY <2>8 DEF F
<1>5. ASSUME NEW i \in Slots, Connected(i)', ~Established(i)' \/ exception'
      PROVE  clients'[i].mode = "Destroy"
  BY <1>1, <1>5 DEF Established, Connected, TableInOrder
<1>6. TableInOrder'
  BY <1>1, <1>2, <1>3, <1>4, <1>5 DEF TableInOrder, resourceVars
<1>7. Retains
  BY <1>1 DEF Retains, Connected
<1> QED
  BY <1>6, <1>7 DEF InOrder, Idle, FreesAll

LEMMA RequestInOrder ==
  ASSUME Orderly, Typed, TableInOrder, Request
  PROVE  InOrder
<1>1. Serving => /\ current # 0 /\ current \in Slots /\ Connected(current) /\ Established(current)
                 /\ clients[current] \in Clients /\ ~exception
  BY DEF Serving, Established, Connected, Typed, Orderly
<1>2. ASSUME NEW mode \in Modes, SetCloseDownMode(mode)
      PROVE  InOrder
  <2> DEFINE served == [clients[current] EXCEPT !.mode = mode]
  <2>1. Serving
    BY <1>2 DEF SetCloseDownMode
  <2>2. /\ served \in Clients /\ served.gone = clients[current].gone
        /\ served.established = clients[current].established
    BY <1>1, <2>1 DEF Clients
  <2>3. ~served.gone /\ served.established
    BY <1>1, <2>1, <2>2 DEF Established, Connected
  <2>4. /\ clients' = [clients EXCEPT ![current] = served] /\ nClients' = nClients
        /\ UNCHANGED <<nextFreeClientID, currentMaxClients, exception, resourceVars>>
    BY <1>2 DEF SetCloseDownMode
  <2>5. nClients' = nClients + 1 - 1
    BY <2>4 DEF Typed
  <2> HIDE DEF served
  <2> QED
    BY <1>1, <2>1, <2>2, <2>3, <2>4, <2>5, ServedInOrder
<1>3. CASE KillRetained
  <2> DEFINE C == {i \in 1 .. currentMaxClients - 1 : /\ clients[i] # NoClient /\ clients[i].gone
                                                      /\ clients[i].mode = "RetainTemporary"}
  <2>1. C \in SUBSET {i \in Slots : clients[i] # NoClient}
    BY RetainedAreSlots
  <2>2. \A i \in C : Connected(i) => Established(i)
    BY DEF Connected
  <2>3. CloseDown(C) /\ current # 0
    BY <1>1, <1>3 DEF KillRetained
  <2> HIDE DEF C
  <2> QED
    BY <2>1, <2>2, <2>3, ClosingInOrder
<1>4. ASSUME NEW i \in Slots, KillClient(i)
      PROVE  InOrder
  <2>1. {i} \in SUBSET {j \in Slots : clients[j] # NoClient}
    BY <1>4 DEF KillClient
  <2>2. \A j \in {i} : Connected(j) => Established(j)
    BY <1>4 DEF KillClient, Established
  <2>3. CloseDown({i}) /\ current # 0
    BY <1>1, <1>4 DEF KillClient
  <2> QED
    BY <2>1, <2>2, <2>3, ClosingInOrder
<1>5. CASE CreateBucket
  <2>1. PICK c \in Components : component' = [component EXCEPT ![current] = c]
    BY <1>5 DEF CreateBucket, FreeComponents
  <2>2. /\ UNCHANGED clientVars /\ flow' = flow
        /\ current \in Slots /\ clients[current] # NoClient
    BY <1>1, <1>5 DEF CreateBucket, Connected
  <2>3. \A i \in Slots : component'[i] = IF i = current THEN c ELSE component[i]
    BY <2>1, Constants DEF Typed
  <2> QED
    BY <2>2, <2>3, OwningInOrder DEF TableInOrder
<1>6. CASE CreateFlow
  <2>1. /\ UNCHANGED clientVars /\ component' = component
        /\ flow' = [flow EXCEPT ![current] = Empty]
        /\ current \in Slots /\ clients[current] # NoClient
    BY <1>1, <1>6 DEF CreateFlow, Connected
  <2>2. \A i \in Slots : flow'[i] = IF i = current THEN Empty ELSE flow[i]
    BY <2>1 DEF Typed
  <2> QED
    BY <2>1, <2>2, OwningInOrder DEF TableInOrder
<1>7. ASSUME NEW i \in Slots, DestroyBucket(i) \/ DestroyFlow(i)
      PROVE  InOrder
  <2>1. UNCHANGED clientVars
    BY <1>7 DEF DestroyBucket, DestroyFlow
  <2>2. PICK I \in SUBSET Owners, F \in SUBSET Slots : FreeResources(I, F)
    BY <1>7, Constants DEF DestroyBucket, DestroyFlow
  <2>3. \A j \in Slots : /\ component'[j] # NoComponent => component[j] # NoComponent
                         /\ flow'[j] # NoFlow => flow[j] # NoFlow
    BY <2>2, Constants DEF FreeResources
  <2> QED
    BY <2>1, <2>3, OwningInOrder DEF TableInOrder
<1>8. ASSUME NEW i \in Slots, NEW o \in Owners, SetElements(i, o)
      PROVE  InOrder
  <2>1. /\ UNCHANGED clientVars /\ component' = component /\ flow[i] # NoFlow
        /\ \A j \in Slots : j # i => flow'[j] = flow[j]
    BY <1>8 DEF SetElements, Typed
  <2> QED
    BY <2>1, OwningInOrder DEF TableInOrder
<1> QED
  BY <1>2, <1>3, <1>4, <1>5, <1>6, <1>7, <1>8 DEF Request

LEMMA NextInOrder ==
  ASSUME Orderly, Typed, TableInOrder, [Next]_vars
  PROVE  InOrder
<1>1. CASE Accept
  <2>1. ~exception /\ exception' = exception
    BY <1>1 DEF Accept
  <2>2. TableInOrder' /\ \A i \in Slots : clients[i] # NoClient => clients'[i] = clients[i]
    BY <1>1, AcceptInOrder
  <2> QED
    BY <2>1, <2>2 DEF InOrder, Idle, Retains, FreesAll
<1>2. CASE Wait \/ Take \/ Yield \/ UNCHANGED vars
  <2>1. UNCHANGED <<clientVars, resourceVars>>
    BY <1>2 DEF Wait, Take, Yield, vars
  <2> QED
    BY <2>1, OwningInOrder DEF TableInOrder, resourceVars
<1>3. CASE Disconnect
  <2>1. {current} \in SUBSET {j \in Slots : clients[j] # NoClient}
    BY <1>3 DEF Disconnect, Connected, Typed
  <2>2. \A j \in {current} : Connected(j) => Established(j)
    BY <1>3 DEF Disconnect, Orderly
  <2>3. CloseDown({current}) /\ current # 0
    BY <1>3 DEF Disconnect
  <2> QED
    BY <2>1, <2>2, <2>3, ClosingInOrder
<1>4. CASE EstablishConnection
  <2> DEFINE served == [clients[current] EXCEPT !.established = TRUE]
  <2>1. current \in Slots /\ Connected(current) /\ ~Established(current)
    BY <1>4 DEF EstablishConnection, Typed
  <2>2. clients[current] \in Clients /\ clients[current].mode = "Destroy" /\ ~clients[current].gone
    BY <2>1 DEF Typed, TableInOrder, Connected
  <2>3. served \in Clients /\ ~served.gone /\ served.established /\ served.mode = "Destroy"
    BY <2>2 DEF Clients
  <2>4. /\ clients' = [clients EXCEPT ![current] = served] /\ nClients' = nClients + 1
        /\ UNCHANGED <<nextFreeClientID, currentMaxClients, exception, resourceVars>>
    BY <1>4 DEF EstablishConnection
  <2>5. nClients' = nClients + 1 - 0
    BY <2>4 DEF Typed
  <2> HIDE DEF served
  <2> QED
    BY <2>1, <2>3, <2>4, <2>5, ServedInOrder
<1>5. CASE Request
  BY <1>5, RequestInOrder
<1>6. CASE Hangup
  <2>1. /\ UNCHANGED <<clients, nClients, nextFreeClientID, currentMaxClients, resourceVars>>
        /\ exception' /\ \A i \in Slots : Connected(i) => clients[i].mode = "Destroy"
    BY <1>6 DEF Hangup, Orderly
  <2>2. {i \in Slots : Established(i)'} = {i \in Slots : Established(i)}
    BY <2>1 DEF Established, Connected
  <2>3. TableInOrder'
    BY <2>1, <2>2 DEF TableInOrder, resourceVars, Established, Connected
  <2> QED
    BY <2>1, <2>3 DEF InOrder, Idle, Retains, FreesAll
<1>7. CASE Reset
  <2>1. exception /\ ~exception'
    BY <1>7 DEF Reset
  <2>2. TableInOrder' /\ \A i \in Slots : /\ clients'[i] = NoClient /\ flow'[i] = NoFlow
                                          /\ component'[i] = NoComponent
    BY <1>7, ResetInOrder
  <2> QED
    BY <2>1, <2>2 DEF InOrder, Idle, Retains, FreesAll
<1> QED
  BY <1>1, <1>2, <1>3, <1>4, <1>5, <1>6, <1>7 DEF Next

LEMMA InitInOrder == Init => TableInOrder
<1> SUFFICES ASSUME Init PROVE TableInOrder
  OBVIOUS
<1>1. \A i \in Slots : clients[i] = NoClient /\ flow[i] = NoFlow /\ component[i] = NoComponent
  <2>1. \A i \in Slots : i # 0 /\ i \in Owners
    BY Constants DEF Slots
  <2> QED
    BY <2>1 DEF Init
<1>2. nextFreeClientID = Min({MaxClients} \cup {i \in Slots : clients[i] = NoClient})
  <2>1. {MaxClients} \cup {i \in Slots : clients[i] = NoClient} = {MaxClients} \cup Slots
    BY <1>1
  <2>2. /\ {MaxClients} \cup Slots \in SUBSET Nat /\ 1 \in {MaxClients} \cup Slots
        /\ \A y \in {MaxClients} \cup Slots : 1 <= y
    BY Constants DEF Slots
  <2>3. Min({MaxClients} \cup Slots) = 1
    BY <2>2, MinIs
  <2> QED
    BY <2>1, <2>3 DEF Init
<1>3. nClients = Cardinality({i \in Slots : Established(i)})
  <2>1. {i \in Slots : Established(i)} = {}
    BY <1>1 DEF Established, Connected
  <2> QED
    BY <2>1, FS_EmptySet DEF Init
<1> QED
  BY <1>1, <1>2, <1>3 DEF TableInOrder, Connected

\* The ranges that TypeOK gives follow from what is counted.
LEMMA InRange ==
  ASSUME IInv
  PROVE  SlotsAccountedFor
<1>1. nClients \in -2 * MaxClients .. MaxClients
  <2>1. {i \in Slots : Established(i)} \in SUBSET (1 .. MaxClients - 1)
    BY DEF Slots
  <2>2. MaxClients \in Nat /\ MaxClients > 1
    BY Constants
  <2>3. /\ Cardinality({i \in Slots : Established(i)}) \in Nat
        /\ Cardinality({i \in Slots : Established(i)}) <= MaxClients - 1
    <3>1. 1 \in Int /\ MaxClients - 1 \in Int
      BY <2>2
    <3>2. /\ Cardinality({i \in Slots : Established(i)}) \in Nat
          /\ Cardinality({i \in Slots : Established(i)})
                <= IF 1 > MaxClients - 1 THEN 0 ELSE MaxClients - 1 - 1 + 1
      BY <2>1, <3>1, CountBounded
    <3> QED
      BY <2>2, <3>2
  <2>4. nClients = Cardinality({i \in Slots : Established(i)})
    BY DEF IInv, TableInOrder
  <2> QED
    BY <2>2, <2>3, <2>4
<1>2. ASSUME NEW c \in Components
      PROVE  refCnt[c] \in -1 .. 2 * MaxClients
  <2>1. MaxClients \in Nat /\ MaxClients > 1
    BY Constants
  <2>2. Count(Owners, component, c) \in Nat /\ Count(Owners, component, c) <= MaxClients
    <3>1. /\ {i \in Owners : component[i] = c} \in SUBSET (0 .. MaxClients - 1)
          /\ 0 \in Int /\ MaxClients - 1 \in Int
      BY <2>1 DEF Owners
    <3>2. /\ Count(Owners, component, c) \in Nat
          /\ Count(Owners, component, c)
                <= IF 0 > MaxClients - 1 THEN 0 ELSE MaxClients - 1 - 0 + 1
      BY <3>1, CountBounded DEF Count
    <3> QED
      BY <2>1, <3>2
  <2>3. Count(Slots, flow, c) \in Nat /\ Count(Slots, flow, c) <= MaxClients
    <3>1. /\ {i \in Slots : flow[i] = c} \in SUBSET (1 .. MaxClients - 1)
          /\ 1 \in Int /\ MaxClients - 1 \in Int
      BY <2>1 DEF Slots
    <3>2. /\ Count(Slots, flow, c) \in Nat
          /\ Count(Slots, flow, c)
                <= IF 1 > MaxClients - 1 THEN 0 ELSE MaxClients - 1 - 1 + 1
      BY <3>1, CountBounded DEF Count
    <3> QED
      BY <2>1, <3>2
  <2>4. refCnt[c] \in Int /\ refCnt[c] + 1 = Count(Owners, component, c) + Count(Slots, flow, c)
    BY CountedIs DEF IInv, Counted, Typed
  <2> QED
    BY <2>1, <2>2, <2>3, <2>4
<1>3. refCnt \in [Components -> -1 .. 2 * MaxClients]
  <2>1. refCnt \in [Components -> Int]
    BY DEF IInv, Counted, Typed
  <2> QED
    BY <1>2, <2>1
<1>4. TypeOK
  BY <1>1, <1>3 DEF IInv, Counted, Typed, TypeOK
<1> QED
  BY <1>4 DEF IInv, TableInOrder, SlotsAccountedFor

LEMMA Invariance == Orderly => (Spec => []IInv)
<1> SUFFICES ASSUME Orderly PROVE Spec => []IInv
  OBVIOUS
<1>1. Init => IInv
  BY InitCounts, InitInOrder DEF IInv
<1>2. IInv /\ [Next]_vars => IInv'
  BY NextCounts, NextInOrder DEF IInv, Counted, InOrder
<1> QED
  BY <1>1, <1>2, PTL DEF Spec

\* The table of clients is in order: the next id is the least free one, no loop
\* over the clients misses one, and nothing is owned by an empty slot.
THEOREM SlotsAlwaysAccountedFor == Orderly => (Spec => []SlotsAccountedFor)
<1> SUFFICES ASSUME Orderly PROVE Spec => []SlotsAccountedFor
  OBVIOUS
<1>1. IInv => SlotsAccountedFor
  BY InRange
<1>2. Spec => []IInv
  BY Invariance
<1> QED
  BY <1>1, <1>2, PTL

\* CloseDownClient asks for a reset only when no established client is left.
THEOREM ResetsWhenIdle == Orderly => (Spec => ResetOnlyWhenIdle)
<1> SUFFICES ASSUME Orderly PROVE Spec => ResetOnlyWhenIdle
  OBVIOUS
<1>1. IInv /\ [Next]_vars => [~exception /\ exception' /\ clients' # clients
                                 => \A i \in Slots : ~Established(i)']_vars
  BY NextInOrder DEF IInv, Counted, InOrder, Idle
<1>2. Spec => []IInv
  BY Invariance
<1> QED
  BY <1>1, <1>2, PTL DEF Spec, ResetOnlyWhenIdle

\* No new connection is given the id base of a retained client.
THEOREM RetainedClientsStay == Orderly => (Spec => RetainedStay)
<1> SUFFICES ASSUME Orderly PROVE Spec => RetainedStay
  OBVIOUS
<1>1. IInv /\ [Next]_vars =>
        [\A i \in Slots :
            clients[i] # NoClient /\ clients[i].gone /\ clients'[i] # clients[i]
               => clients'[i] = NoClient /\ (exception \/ current # 0)]_vars
  BY NextInOrder DEF IInv, Counted, InOrder, Retains
<1>2. Spec => []IInv
  BY Invariance
<1> QED
  BY <1>1, <1>2, PTL DEF Spec, RetainedStay

\* A component that is in use when nothing but the device has an id is the device.
LEMMA OnlyTheDevice ==
  ASSUME Counted, \A i \in Slots : component[i] = NoComponent /\ flow[i] = NoFlow
  PROVE  \E c \in Components : \A d \in Components : refCnt[d] # -1 => d = c
<1>1. ASSUME NEW d \in Components, d # component[0]
      PROVE  refCnt[d] = -1
  <2>1. {i \in Slots : flow[i] = d} = {} /\ {i \in Owners : component[i] = d} = {}
    <3>1. \A i \in Owners : i = 0 \/ i \in Slots
      BY Constants DEF Owners, Slots
    <3> QED
      BY <1>1, <3>1, Constants
  <2>2. refCnt[d] \in Int /\ refCnt[d] + 1 = 0 + 0
    BY <2>1, FS_EmptySet DEF Counted, Typed, ComponentsCounted
  <2> QED
    BY <2>2
<1>2. CASE component[0] \in Components
  BY <1>1, <1>2
<1>3. CASE component[0] \notin Components
  <2>1. PICK c \in Components : TRUE
    BY ClientsAssumption
  <2> QED
    BY <1>1, <1>3, <2>1
<1> QED
  BY <1>2, <1>3

\* A reset leaves no client, no flow and no bucket behind.
THEOREM ResetsFreeAll == Orderly => (Spec => ResetFreesAll)
<1> SUFFICES ASSUME Orderly PROVE Spec => ResetFreesAll
  OBVIOUS
<1>1. IInv /\ [Next]_vars =>
        [exception /\ ~exception' =>
           /\ \A i \in Slots : clients'[i] = NoClient /\ flow'[i] = NoFlow
           /\ \A i \in Slots : component'[i] = NoComponent
           /\ \E c \in Components : \A d \in Components : refCnt'[d] # -1 => d = c]_vars
  <2> SUFFICES ASSUME IInv, [Next]_vars, exception, ~exception'
               PROVE  /\ \A i \in Slots : clients'[i] = NoClient /\ flow'[i] = NoFlow
                      /\ \A i \in Slots : component'[i] = NoComponent
                      /\ \E c \in Components : \A d \in Components : refCnt'[d] # -1 => d = c
    OBVIOUS
  <2>1. \A i \in Slots : /\ clients'[i] = NoClient /\ flow'[i] = NoFlow
                         /\ component'[i] = NoComponent
    BY NextInOrder DEF IInv, Counted, InOrder, FreesAll
  <2>2. Counted'
    BY NextCounts DEF IInv
  <2>3. (Counted /\ \A i \in Slots : component[i] = NoComponent /\ flow[i] = NoFlow)'
           => (\E c \in Components : \A d \in Components : refCnt[d] # -1 => d = c)'
    BY OnlyTheDevice, PTL
  <2> QED
    BY <2>1, <2>2, <2>3
<1>2. Spec => []IInv
  BY Invariance
<1> QED
  BY <1>1, <1>2, PTL DEF Spec, ResetFreesAll
=============================================================================
