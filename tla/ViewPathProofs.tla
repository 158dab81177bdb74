--------------------------- MODULE ViewPathProofs ---------------------------
(***************************************************************************)
(* The composition takes no step that its parts do not: it behaves as each  *)
(* of RecordView, Seeding and EventViews says, so what is proved of a part   *)
(* holds of the whole.  Beyond that: a server that serves has found complete *)
(* data, and no view of an event without a row is ever queued.              *)
(***************************************************************************)
EXTENDS ViewPath, FiniteSums, FiniteSetTheorems, TLAPS

-----------------------------------------------------------------------------
(***************************************************************************)
(* The requests, by the specification of RecordView.  A window lasts        *)
(* DEDUPE_TTL by the clock (WindowIsFixed), so each further window opens    *)
(* DEDUPE_TTL after the one before it; and a view on its way belongs to the *)
(* one window it opened.                                                   *)
(***************************************************************************)
\* Only requests whose address is known get to record.
AddressIsKnown == \A r \in Requests : pc[r] \in {"recording", "marked"} => ClientOf[r] \in Clients

\* The windows of a client are DEDUPE_TTL apart.
WindowsAreApart ==
    \A c \in Clients :
        opened[c] > 0 => opened_at[c] <= now /\ (opened[c] - 1) * DEDUPE_TTL <= opened_at[c]

IInv == TypeOK /\ AddressIsKnown /\ WindowIsFixed /\ WindowsAreApart /\ OneViewPerWindow

\* The number of views on the way is a number.
LEMMA OnTheWayIsFinite ==
    ASSUME NEW c
    PROVE  IsFiniteSet(OnTheWay(c)) /\ Cardinality(OnTheWay(c)) \in Nat
<1>1. OnTheWay(c) \subseteq Requests
  BY DEF OnTheWay
<1>2. IsFiniteSet(Requests)
  BY RecordViewAssumption
<1>3. IsFiniteSet(OnTheWay(c))
  BY <1>1, <1>2, FS_Subset
<1> QED
  BY <1>3, FS_CardinalityType

\* The type invariant and the known address are preserved.
LEMMA TypeStep ==
    ASSUME TypeOK, AddressIsKnown, Next
    PROVE  TypeOK' /\ AddressIsKnown'
<1> USE RecordViewAssumption DEF TypeOK, AddressIsKnown, PCs, At, Goto, windows
<1>1. ASSUME NEW r \in Requests, GetEventFails(r) PROVE TypeOK' /\ AddressIsKnown'
  BY <1>1 DEF GetEventFails
<1>2. ASSUME NEW r \in Requests, GetEvent(r) PROVE TypeOK' /\ AddressIsKnown'
  BY <1>2 DEF GetEvent
<1>3. ASSUME NEW r \in Requests, MarkViewed(r) PROVE TypeOK' /\ AddressIsKnown'
  BY <1>3 DEF MarkViewed, SetKey, IsFirst
<1>4. ASSUME NEW r \in Requests, MarkViewedFails(r) PROVE TypeOK' /\ AddressIsKnown'
  BY <1>4 DEF MarkViewedFails, SetKey
<1>5. ASSUME NEW r \in Requests, Submit(r) PROVE TypeOK' /\ AddressIsKnown'
  BY <1>5 DEF Submit
<1>6. ASSUME NEW r \in Requests, Crash(r) PROVE TypeOK' /\ AddressIsKnown'
  BY <1>6 DEF Crash
<1>7. ASSUME Tick PROVE TypeOK' /\ AddressIsKnown'
  BY <1>7 DEF Tick, OneTickLess
<1> QED
  BY <1>1, <1>2, <1>3, <1>4, <1>5, <1>6, <1>7 DEF Next, record

\* Multiplication is monotonic in the step from one window to the next.
LEMMA OneMoreWindow ==
    ASSUME NEW n \in Nat, NEW t \in Nat, NEW at \in Nat, n > 0, (n - 1) * t <= at
    PROVE  n * t <= at + t
<1>1. n * t = (n - 1) * t + t
  OBVIOUS
<1>2. (n - 1) * t \in Int
  OBVIOUS
<1> QED
  BY <1>1, <1>2

\* Setting the key of a client keeps its windows fixed and apart.
LEMMA SetKeyStep ==
    ASSUME NEW c \in Clients, TypeOK, WindowIsFixed, WindowsAreApart, SetKey(c), now' = now
    PROVE  WindowIsFixed' /\ WindowsAreApart'
<1> USE RecordViewAssumption DEF TypeOK
<1>1. CASE key[c] # 0
  BY <1>1 DEF SetKey, windows, WindowIsFixed, WindowsAreApart
<1>2. ASSUME key[c] = 0 PROVE WindowIsFixed'
  BY <1>2 DEF SetKey, WindowIsFixed
<1>3. ASSUME key[c] = 0 PROVE WindowsAreApart'
  <2>1. SUFFICES ASSUME NEW d \in Clients, opened'[d] > 0
                 PROVE  opened_at'[d] <= now' /\ (opened'[d] - 1) * DEDUPE_TTL <= opened_at'[d]
    BY DEF WindowsAreApart
  <2>2. CASE d # c
    BY <1>3, <2>1, <2>2 DEF SetKey, WindowsAreApart
  <2>3. CASE d = c
    <3>1. opened'[c] = opened[c] + 1 /\ opened_at'[c] = now
      BY <1>3 DEF SetKey
    <3>2. CASE opened[c] = 0
      BY <2>3, <3>1, <3>2
    <3>3. CASE opened[c] > 0
      <4>1. now >= opened_at[c] + DEDUPE_TTL
        BY <1>3, <3>3 DEF WindowIsFixed
      <4>2. opened[c] * DEDUPE_TTL <= opened_at[c] + DEDUPE_TTL
        BY <3>3, OneMoreWindow DEF WindowsAreApart
      <4>3. opened'[c] - 1 = opened[c]
        BY <3>1
      <4>4. opened[c] * DEDUPE_TTL \in Nat
        OBVIOUS
      <4> QED
        BY <2>3, <3>1, <4>1, <4>2, <4>3, <4>4
    <3> QED
      BY <3>2, <3>3
  <2> QED
    BY <2>2, <2>3
<1> QED
  BY <1>1, <1>2, <1>3

\* Every step keeps the windows fixed and apart.
LEMMA WindowsStep ==
    ASSUME TypeOK, AddressIsKnown, WindowIsFixed, WindowsAreApart, Next
    PROVE  WindowIsFixed' /\ WindowsAreApart'
<1>1. ASSUME UNCHANGED <<now, windows>> PROVE WindowIsFixed' /\ WindowsAreApart'
  BY <1>1 DEF windows, WindowIsFixed, WindowsAreApart
<1>2. ASSUME NEW r \in Requests, MarkViewed(r) PROVE WindowIsFixed' /\ WindowsAreApart'
  <2>1. ClientOf[r] \in Clients /\ SetKey(ClientOf[r]) /\ now' = now
    BY <1>2 DEF MarkViewed, At, AddressIsKnown
  <2> QED
    BY <2>1, SetKeyStep
<1>3. ASSUME NEW r \in Requests, MarkViewedFails(r) PROVE WindowIsFixed' /\ WindowsAreApart'
  <2>1. ClientOf[r] \in Clients /\ now' = now
    BY <1>3 DEF MarkViewedFails, At, AddressIsKnown
  <2>2. UNCHANGED windows \/ SetKey(ClientOf[r])
    BY <1>3 DEF MarkViewedFails
  <2> QED
    BY <1>1, <2>1, <2>2, SetKeyStep
<1>4. ASSUME Tick PROVE WindowIsFixed' /\ WindowsAreApart'
  <2>1. WindowIsFixed'
    BY <1>4, RecordViewAssumption DEF Tick, OneTickLess, TypeOK, WindowIsFixed
  <2>2. WindowsAreApart'
    <3>1. SUFFICES ASSUME NEW c \in Clients, opened[c] > 0
                   PROVE  opened_at[c] <= now' /\ (opened[c] - 1) * DEDUPE_TTL <= opened_at[c]
      BY <1>4 DEF Tick, WindowsAreApart
    <3>2. opened_at[c] <= now /\ (opened[c] - 1) * DEDUPE_TTL <= opened_at[c]
      BY <3>1 DEF WindowsAreApart
    <3>3. opened_at[c] \in Nat /\ now \in Nat /\ now' = now + 1
      BY <1>4 DEF Tick, TypeOK
    <3>4. opened_at[c] <= now'
      BY <3>2, <3>3
    <3> QED
      BY <3>2, <3>4
  <2> QED
    BY <2>1, <2>2
<1> QED
  BY <1>1, <1>2, <1>3, <1>4
  DEF Next, record, GetEventFails, GetEvent, Submit, Crash

\* A request that stays on or off its way leaves the count alone.
LEMMA OneViewUntouched ==
    ASSUME OneViewPerWindow, NEW c \in Clients,
           OnTheWay(c)' = OnTheWay(c), counted'[c] = counted[c], opened'[c] = opened[c],
           lapses' = lapses
    PROVE  /\ counted'[c] + Cardinality(OnTheWay(c)') <= opened'[c]
           /\ lapses' = 0 => counted'[c] + Cardinality(OnTheWay(c)') = opened'[c]
BY DEF OneViewPerWindow

\* The view that opens a window is on its way, and no other joins.
LEMMA MarkViewedStep ==
    ASSUME IInv, NEW r \in Requests, MarkViewed(r)
    PROVE  OneViewPerWindow'
<1> DEFINE Good(c) == /\ counted'[c] + Cardinality(OnTheWay(c)') <= opened'[c]
                      /\ lapses' = 0 => counted'[c] + Cardinality(OnTheWay(c)') = opened'[c]
<1>1. SUFFICES ASSUME NEW c \in Clients PROVE Good(c)
  BY DEF OneViewPerWindow
<1>2. TypeOK /\ OneViewPerWindow /\ ClientOf[r] \in Clients /\ pc[r] = "recording"
  BY DEF IInv, MarkViewed, At, AddressIsKnown
<1>3. counted' = counted /\ lapses' = lapses
  BY DEF MarkViewed
<1>4. /\ pc' = [pc EXCEPT ![r] = "marked"]
      /\ first' = [first EXCEPT ![r] = key[ClientOf[r]] = 0]
  BY DEF MarkViewed, Goto, IsFirst
<1>5. ASSUME ~(ClientOf[r] = c /\ key[c] = 0) PROVE Good(c)
  <2>1. OnTheWay(c)' = OnTheWay(c)
    BY <1>2, <1>4, <1>5 DEF OnTheWay, At, TypeOK
  <2>2. opened'[c] = opened[c]
    BY <1>2, <1>5 DEF MarkViewed, SetKey, windows, TypeOK
  <2> QED
    BY <1>2, <1>3, <2>1, <2>2, OneViewUntouched
<1>6. ASSUME ClientOf[r] = c, key[c] = 0 PROVE Good(c)
  <2>1. OnTheWay(c)' = OnTheWay(c) \cup {r} /\ r \notin OnTheWay(c)
    BY <1>2, <1>4, <1>6 DEF OnTheWay, At, TypeOK
  <2>2. opened'[c] = opened[c] + 1
    BY <1>2, <1>6 DEF MarkViewed, SetKey, TypeOK
  <2>3. Cardinality(OnTheWay(c)') = Cardinality(OnTheWay(c)) + 1
    BY <2>1, OnTheWayIsFinite, FS_AddElement
  <2>4. Cardinality(OnTheWay(c)) \in Nat /\ counted[c] \in Nat /\ opened[c] \in Nat
    BY <1>2, OnTheWayIsFinite DEF TypeOK
  <2> QED
    BY <1>2, <1>3, <2>2, <2>3, <2>4 DEF OneViewPerWindow
<1> QED
  BY <1>5, <1>6

\* A window that opens without a view is a lapse.
LEMMA MarkViewedFailsStep ==
    ASSUME IInv, NEW r \in Requests, MarkViewedFails(r)
    PROVE  OneViewPerWindow'
<1>1. SUFFICES ASSUME NEW c \in Clients
               PROVE  /\ counted'[c] + Cardinality(OnTheWay(c)') <= opened'[c]
                      /\ lapses' # 0
  BY DEF OneViewPerWindow
<1>2. TypeOK /\ OneViewPerWindow /\ ClientOf[r] \in Clients /\ pc[r] = "recording"
  BY DEF IInv, MarkViewedFails, At, AddressIsKnown
<1>3. OnTheWay(c)' = OnTheWay(c)
  BY <1>2 DEF MarkViewedFails, Goto, OnTheWay, At, TypeOK
<1>4. opened'[c] \in Nat /\ opened'[c] >= opened[c]
  BY <1>2 DEF MarkViewedFails, SetKey, windows, TypeOK
<1>5. counted' = counted /\ lapses' = lapses + 1
  BY DEF MarkViewedFails
<1>6. Cardinality(OnTheWay(c)) \in Nat /\ counted[c] \in Nat /\ opened[c] \in Nat /\ lapses \in Nat
  BY <1>2, OnTheWayIsFinite DEF TypeOK
<1> QED
  BY <1>2, <1>3, <1>4, <1>5, <1>6 DEF OneViewPerWindow

\* The view of a request that is through is not on the way any more.
LEMMA LeavesTheWay ==
    ASSUME TypeOK, NEW r \in Requests, NEW c \in Clients,
           pc' = [pc EXCEPT ![r] = "answered"], first' = first
    PROVE  IF r \in OnTheWay(c)
           THEN Cardinality(OnTheWay(c)') = Cardinality(OnTheWay(c)) - 1
           ELSE OnTheWay(c)' = OnTheWay(c)
<1>1. OnTheWay(c)' = OnTheWay(c) \ {r}
  BY DEF OnTheWay, At, TypeOK
<1>2. ASSUME r \in OnTheWay(c) PROVE Cardinality(OnTheWay(c)') = Cardinality(OnTheWay(c)) - 1
  BY <1>1, <1>2, OnTheWayIsFinite, FS_RemoveElement
<1> QED
  BY <1>1, <1>2

\* A view that is submitted is counted, or dropped, which is a lapse.
LEMMA SubmitStep ==
    ASSUME IInv, NEW r \in Requests, Submit(r)
    PROVE  OneViewPerWindow'
<1> DEFINE Good(c) == /\ counted'[c] + Cardinality(OnTheWay(c)') <= opened'[c]
                      /\ lapses' = 0 => counted'[c] + Cardinality(OnTheWay(c)') = opened'[c]
<1>1. SUFFICES ASSUME NEW c \in Clients PROVE Good(c)
  BY DEF OneViewPerWindow
<1>2. TypeOK /\ OneViewPerWindow /\ ClientOf[r] \in Clients /\ pc[r] = "marked"
  BY DEF IInv, Submit, At, AddressIsKnown
<1>3. opened'[c] = opened[c]
  BY DEF Submit, windows
<1>4. IF r \in OnTheWay(c)
      THEN Cardinality(OnTheWay(c)') = Cardinality(OnTheWay(c)) - 1
      ELSE OnTheWay(c)' = OnTheWay(c)
  BY <1>2, LeavesTheWay DEF Submit, Goto
<1>5. Cardinality(OnTheWay(c)) \in Nat /\ counted[c] \in Nat /\ opened[c] \in Nat /\ lapses \in Nat
  BY <1>2, OnTheWayIsFinite DEF TypeOK
<1>6. lapses' = lapses \/ lapses' = lapses + 1
  BY DEF Submit
<1>7. ASSUME r \in OnTheWay(c) PROVE Good(c)
  <2>1. ClientOf[r] = c /\ first[r]
    BY <1>7 DEF OnTheWay
  <2>2. \/ counted'[c] = counted[c] + 1 /\ lapses' = lapses
        \/ counted' = counted /\ lapses' = lapses + 1
    BY <1>2, <2>1 DEF Submit, TypeOK
  <2> QED
    BY <1>2, <1>3, <1>4, <1>5, <1>7, <2>2 DEF OneViewPerWindow
<1>8. ASSUME r \notin OnTheWay(c) PROVE Good(c)
  <2>1. counted'[c] = counted[c]
    BY <1>2, <1>8 DEF Submit, OnTheWay, At, TypeOK
  <2> QED
    BY <1>2, <1>3, <1>4, <1>5, <1>6, <1>8, <2>1 DEF OneViewPerWindow
<1> QED
  BY <1>7, <1>8

\* A death takes at most a view off its way.
LEMMA CrashStep ==
    ASSUME IInv, NEW r \in Requests, Crash(r)
    PROVE  OneViewPerWindow'
<1>1. SUFFICES ASSUME NEW c \in Clients
               PROVE  /\ counted'[c] + Cardinality(OnTheWay(c)') <= opened'[c]
                      /\ lapses' # 0
  BY DEF OneViewPerWindow
<1>2. TypeOK /\ OneViewPerWindow
  BY DEF IInv
<1>3. counted' = counted /\ opened' = opened /\ lapses' = lapses + 1
  BY DEF Crash, windows
<1>4. IF r \in OnTheWay(c)
      THEN Cardinality(OnTheWay(c)') = Cardinality(OnTheWay(c)) - 1
      ELSE OnTheWay(c)' = OnTheWay(c)
  BY <1>2, LeavesTheWay DEF Crash, Goto
<1>5. Cardinality(OnTheWay(c)) \in Nat /\ counted[c] \in Nat /\ opened[c] \in Nat /\ lapses \in Nat
  BY <1>2, OnTheWayIsFinite DEF TypeOK
<1> QED
  BY <1>2, <1>3, <1>4, <1>5 DEF OneViewPerWindow

\* The steps before record and the clock move no view.
LEMMA OtherStep ==
    ASSUME IInv, (\E r \in Requests : GetEventFails(r) \/ GetEvent(r)) \/ Tick
    PROVE  OneViewPerWindow'
<1>1. SUFFICES ASSUME NEW c \in Clients
               PROVE  /\ OnTheWay(c)' = OnTheWay(c)
                      /\ counted'[c] = counted[c] /\ opened'[c] = opened[c] /\ lapses' = lapses
  BY OneViewUntouched DEF OneViewPerWindow, IInv
<1>2. TypeOK
  BY DEF IInv
<1> QED
  BY <1>2 DEF GetEventFails, GetEvent, Tick, windows, OnTheWay, At, Goto, TypeOK

\* No window is open at first.
LEMMA InitInvariant == Init => IInv
<1> SUFFICES ASSUME Init PROVE IInv
  OBVIOUS
<1>1. TypeOK /\ AddressIsKnown /\ WindowIsFixed /\ WindowsAreApart
  BY RecordViewAssumption
  DEF Init, TypeOK, PCs, AddressIsKnown, WindowIsFixed, WindowsAreApart
<1>2. ASSUME NEW c \in Clients PROVE Cardinality(OnTheWay(c)) = 0
  <2>1. OnTheWay(c) = {}
    BY DEF Init, OnTheWay, At
  <2> QED
    BY <2>1, FS_EmptySet
<1>3. OneViewPerWindow
  BY <1>2 DEF Init, OneViewPerWindow
<1> QED
  BY <1>1, <1>3 DEF IInv

\* Every step keeps the invariant.
LEMMA StepInvariant == IInv /\ [Next]_vars => IInv'
<1> SUFFICES ASSUME IInv, [Next]_vars PROVE IInv'
  OBVIOUS
<1>1. CASE Next
  <2>1. TypeOK' /\ AddressIsKnown' /\ WindowIsFixed' /\ WindowsAreApart'
    BY <1>1, TypeStep, WindowsStep DEF IInv
  <2>2. OneViewPerWindow'
    BY <1>1, MarkViewedStep, MarkViewedFailsStep, SubmitStep, CrashStep, OtherStep
    DEF Next, record
  <2> QED
    BY <2>1, <2>2 DEF IInv
<1>2. CASE UNCHANGED vars
  BY <1>2
  DEF vars, windows, IInv, TypeOK, AddressIsKnown, WindowIsFixed, WindowsAreApart,
      OneViewPerWindow, OnTheWay, At
<1> QED
  BY <1>1, <1>2

\* The window of a client is fixed, and its windows are apart.
THEOREM RecordInvariant == Spec => []IInv
BY InitInvariant, StepInvariant, PTL DEF Spec

\* Type correctness of the model of record.
THEOREM RecordTypeCorrect == Spec => []TypeOK
<1>1. IInv => TypeOK
  BY DEF IInv
<1> QED
  BY <1>1, RecordInvariant, PTL

\* A key never outlives its window, however often its client comes back: the
\* window runs from the view that set the key (mark_viewed, SET NX EX).
THEOREM WindowsAreFixed == Spec => []WindowIsFixed
<1>1. IInv => WindowIsFixed
  BY DEF IInv
<1> QED
  BY <1>1, RecordInvariant, PTL

\* However many processes serve the requests of a client, mark_viewed lets one
\* view through for each window (EventViewsService.record).
THEOREM WindowsCountOnce == Spec => []OneViewPerWindow
<1>1. IInv => OneViewPerWindow
  BY DEF IInv
<1> QED
  BY <1>1, RecordInvariant, PTL

\* And so n views of a client take n - 1 windows of time.
THEOREM ViewsTakeTheirTime == Spec => []ViewsTakeTime
<1>1. ASSUME IInv PROVE ViewsTakeTime
  <2>1. SUFFICES ASSUME NEW c \in Clients, counted[c] > 0
                 PROVE  (counted[c] - 1) * DEDUPE_TTL <= now
    BY DEF ViewsTakeTime
  <2>2. /\ counted[c] \in Nat /\ opened[c] \in Nat /\ opened_at[c] \in Nat /\ now \in Nat
        /\ Cardinality(OnTheWay(c)) \in Nat /\ DEDUPE_TTL \in Nat
    BY <1>1, OnTheWayIsFinite, RecordViewAssumption DEF IInv, TypeOK
  <2>3. counted[c] <= opened[c]
    BY <1>1, <2>2 DEF IInv, OneViewPerWindow
  <2>4. opened_at[c] <= now /\ (opened[c] - 1) * DEDUPE_TTL <= opened_at[c]
    BY <1>1, <2>1, <2>2, <2>3 DEF IInv, WindowsAreApart
  <2>5. (counted[c] - 1) * DEDUPE_TTL <= (opened[c] - 1) * DEDUPE_TTL
    BY <2>2, <2>3
  <2>6. (counted[c] - 1) * DEDUPE_TTL \in Int /\ (opened[c] - 1) * DEDUPE_TTL \in Int
    BY <2>2
  <2> QED
    BY <2>2, <2>4, <2>5, <2>6
<1> QED
  BY <1>1, RecordInvariant, PTL

-----------------------------------------------------------------------------
(***************************************************************************)
(* The path.                                                               *)
(***************************************************************************)
\* EventViews with what is proved of it.
CP == INSTANCE EventViewsProofs WITH Events <- {Event}, MaxViews <- Cardinality(Requests)

\* One step of Seeding or of the consolidators for one of the processes.
SeedingStep(p) ==
    S!CountLocations(p) \/ S!FlushRows(p) \/ S!CommitSeeding(p) \/ S!StartFails(p)

ConsolidatorStep(p) ==
    \/ C!start(p) \/ C!submit(p, Event)
    \/ C!Collect(p) \/ C!Write(p) \/ C!FlushFails(p)
    \/ C!BeginStop(p) \/ C!stop(p) \/ C!LeaveFlush(p)
    \/ C!Crash(p)

\* A joint step is a step or a stutter of the requests ...
LEMMA RequestsStep == [ViewPathNext]_pathVars => [Next]_vars
<1> SUFFICES ASSUME [ViewPathNext]_pathVars PROVE [Next]_vars
  OBVIOUS
<1>1. ASSUME NEW r \in Requests, Fetch(r) \/ Mark(r) \/ SubmitView(r) \/ Lose(r) PROVE Next
  BY <1>1 DEF Fetch, Mark, SubmitView, Lose, Next, record
<1>2. ASSUME NEW p \in Processes, Seed(p) \/ Start(p) \/ StartFails(p) \/ Consolidate(p)
      PROVE  UNCHANGED vars
  BY <1>2 DEF Seed, Start, StartFails, Consolidate
<1>3. CASE PathTick
  BY <1>3 DEF PathTick, Next
<1>4. CASE UNCHANGED pathVars
  BY <1>4 DEF pathVars
<1> QED
  BY <1>1, <1>2, <1>3, <1>4 DEF ViewPathNext

\* ... of the seeding ...
LEMMA SeedingSteps == [ViewPathNext]_pathVars => [S!Next]_seeding
<1> SUFFICES ASSUME [ViewPathNext]_pathVars PROVE [S!Next]_seeding
  OBVIOUS
<1>1. ASSUME NEW p \in Processes, Seed(p) \/ StartFails(p) PROVE S!Next
  BY <1>1 DEF Seed, StartFails, S!Next
<1>2. ASSUME NEW p \in Processes, Start(p) \/ Consolidate(p) PROVE UNCHANGED seeding
  BY <1>2 DEF Start, Consolidate
<1>3. ASSUME NEW r \in Requests, Fetch(r) \/ Mark(r) \/ SubmitView(r) \/ Lose(r)
      PROVE  UNCHANGED seeding
  BY <1>3 DEF Fetch, Mark, SubmitView, Lose
<1>4. CASE PathTick
  BY <1>4 DEF PathTick
<1>5. CASE UNCHANGED pathVars
  BY <1>5 DEF pathVars
<1> QED
  BY <1>1, <1>2, <1>3, <1>4, <1>5 DEF ViewPathNext

\* ... and of the consolidators.
LEMMA ConsolidatorSteps == [ViewPathNext]_pathVars => [C!Next]_consolidators
<1> SUFFICES ASSUME [ViewPathNext]_pathVars PROVE [C!Next]_consolidators
  OBVIOUS
<1>1. ASSUME NEW p \in Processes, ConsolidatorStep(p) PROVE C!Next
  BY <1>1 DEF ConsolidatorStep, C!Next
<1>2. ASSUME NEW p \in Processes, Seed(p) PROVE UNCHANGED consolidators
  BY <1>2 DEF Seed
<1>3. ASSUME NEW p \in Processes, Start(p) \/ StartFails(p) \/ Consolidate(p) PROVE C!Next
  <2>1. ConsolidatorStep(p)
    BY <1>3 DEF Start, StartFails, Consolidate, ConsolidatorStep, CommitFlush, BeginStop, C!Write
  <2> QED
    BY <1>1, <2>1
<1>4. ASSUME NEW r \in Requests, Fetch(r) \/ Mark(r) \/ Lose(r) PROVE UNCHANGED consolidators
  BY <1>4 DEF Fetch, Mark, Lose
<1>5. ASSUME NEW r \in Requests, SubmitView(r) PROVE [C!Next]_consolidators
  <2>1. ProcessOf[r] \in Processes
    BY ViewPathAssumption
  <2>2. C!submit(ProcessOf[r], Event) => ConsolidatorStep(ProcessOf[r])
    BY DEF ConsolidatorStep
  <2> QED
    BY <1>1, <1>5, <2>1, <2>2 DEF SubmitView
<1>6. CASE PathTick
  BY <1>6 DEF PathTick, C!Next
<1>7. CASE C!Rest
  BY <1>7 DEF C!Next
<1>8. CASE UNCHANGED pathVars
  BY <1>8 DEF pathVars
<1> QED
  BY <1>2, <1>3, <1>4, <1>5, <1>6, <1>7, <1>8 DEF ViewPathNext

\* Each part behaves in the composition as it does alone.
THEOREM PartsBehaveAsSpecified == ViewPathSpec => Spec /\ S!Spec /\ C!Spec
<1>1. ViewPathInit => Init /\ S!Init /\ C!Init
  BY DEF ViewPathInit
<1>2. [S!Next]_seeding => [S!Next]_(S!vars)
  BY DEF seeding, S!vars
<1>3. [C!Next]_consolidators => [C!Next]_(C!vars)
  BY DEF consolidators, C!vars, C!table, C!memory, C!run, C!lifespan, C!counts
<1> QED
  BY <1>1, <1>2, <1>3, RequestsStep, SeedingSteps, ConsolidatorSteps, PTL
     DEF ViewPathSpec, Spec, S!Spec, C!Spec

\* Hence what is proved of RecordView ...
THEOREM PathCountsWindowsOnce == ViewPathSpec => []OneViewPerWindow
<1> QED
  BY PartsBehaveAsSpecified, WindowsCountOnce, PTL

-----------------------------------------------------------------------------
(***************************************************************************)
(* ... and of EventViews: C and CP are the same, name by name.              *)
(***************************************************************************)
\* The operators of the standard modules that EventViews uses.
LEMMA SameOperators ==
    /\ \A f : C!SumFunction(f) = SumFunction(f) /\ CP!SumFunction(f) = SumFunction(f)
    /\ \A T : C!IsFiniteSet(T) = IsFiniteSet(T) /\ CP!IsFiniteSet(T) = IsFiniteSet(T)
    /\ \A T : C!Cardinality(T) = Cardinality(T) /\ CP!Cardinality(T) = Cardinality(T)
<1>1. \A f : C!SumFunction(f) = SumFunction(f)
  BY DEF C!SumFunction, C!SumFunctionOnSet, C!FoldFunctionOnSet, C!MapThenFoldSet,
         SumFunction, SumFunctionOnSet, FoldFunctionOnSet, MapThenFoldSet
<1>2. \A f : CP!SumFunction(f) = SumFunction(f)
  BY DEF CP!SumFunction, CP!SumFunctionOnSet, CP!FoldFunctionOnSet, CP!MapThenFoldSet,
         SumFunction, SumFunctionOnSet, FoldFunctionOnSet, MapThenFoldSet
<1>3. \A T : C!IsFiniteSet(T) = IsFiniteSet(T) /\ CP!IsFiniteSet(T) = IsFiniteSet(T)
  BY DEF C!IsFiniteSet, CP!IsFiniteSet, IsFiniteSet
<1>4. \A T : C!Cardinality(T) = Cardinality(T) /\ CP!Cardinality(T) = Cardinality(T)
  BY DEF C!Cardinality, CP!Cardinality, Cardinality
<1> QED
  BY <1>1, <1>2, <1>3, <1>4

\* The constants.
LEMMA SameConstants == CP!EventViewsAssumption
BY ConsolidatorsAssumption, SameOperators DEF C!EventViewsAssumption, CP!EventViewsAssumption

\* The steps.
LEMMA SameSteps == [C!Next]_(C!vars) => [CP!Next]_(CP!vars)
<1> USE DEF C!vars, C!table, C!memory, C!run, C!lifespan, C!counts, CP!vars, CP!table, CP!memory,
            CP!run, CP!lifespan, CP!counts
<1>1. ASSUME NEW p \in Processes, C!start(p) \/ \E e \in {Event} : C!submit(p, e)
      PROVE  CP!Next
  <2>1. \A g : C!Total(g) = CP!Total(g)
    BY SameOperators DEF C!Total, CP!Total
  <2>2. CP!start(p) \/ \E e \in {Event} : CP!submit(p, e)
    BY <1>1, <2>1 DEF C!start, CP!start, C!submit, CP!submit
  <2> QED
    BY <2>2 DEF CP!Next
<1>2. ASSUME NEW p \in Processes, C!Collect(p) PROVE CP!Next
  <2>1. CP!Collect(p)
    BY <1>2 DEF C!Collect, C!Take, C!GetView, C!GetNone, C!DeadlinePasses, C!CountView, C!BeginFlush,
                C!AfterFlush, C!Viewed,
                CP!Collect, CP!Take, CP!GetView, CP!GetNone, CP!DeadlinePasses, CP!CountView,
                CP!BeginFlush, CP!AfterFlush, CP!Viewed
  <2> QED
    BY <2>1 DEF CP!Next
<1>3. \A p : C!Unacknowledged(p) => CP!Unacknowledged(p)
  BY DEF C!Unacknowledged, C!EndTransaction, C!KeysLocked, C!InTransaction, C!Plus,
         CP!Unacknowledged, CP!EndTransaction, CP!KeysLocked, CP!InTransaction, CP!Plus
<1>4. ASSUME NEW p \in Processes, C!Write(p) \/ C!FlushFails(p) PROVE CP!Next
  <2>1. CP!Write(p) \/ CP!FlushFails(p)
    BY <1>3, <1>4
       DEF C!Write, C!LockKey, C!NextKey, C!CommitFlush, C!KeysLocked, C!InTransaction, C!Plus, C!NoViews,
           C!EndTransaction, C!AfterFlush, C!FlushFails,
           CP!Write, CP!LockKey, CP!NextKey, CP!CommitFlush, CP!KeysLocked, CP!InTransaction, CP!Plus, CP!NoViews,
           CP!EndTransaction, CP!AfterFlush, CP!FlushFails
  <2> QED
    BY <2>1 DEF CP!Next
<1>5. ASSUME NEW p \in Processes, C!BeginStop(p) \/ C!stop(p) \/ C!Crash(p) PROVE CP!Next
  <2>1. CP!BeginStop(p) \/ CP!stop(p) \/ CP!Crash(p)
    BY <1>3, <1>5
       DEF C!BeginStop, C!stop, C!PutNone, C!Join, C!StopTimesOut, C!Crash,
           CP!BeginStop, CP!stop, CP!PutNone, CP!Join, CP!StopTimesOut, CP!Crash
  <2> QED
    BY <2>1 DEF CP!Next
<1>6. ASSUME NEW p \in Processes, C!LeaveFlush(p) PROVE CP!Next
  <2>1. CP!LeaveFlush(p)
    BY <1>3, <1>6
       DEF C!LeaveFlush, C!CancelEnds, C!CancelFails, C!EndTransaction, C!AfterFlush,
           CP!LeaveFlush, CP!CancelEnds, CP!CancelFails, CP!EndTransaction, CP!AfterFlush
  <2> QED
    BY <2>1 DEF CP!Next
<1>7. ASSUME C!Tick \/ C!Rest PROVE CP!Next
  BY <1>7 DEF C!Tick, C!Rest, C!OneLess, CP!Tick, CP!Rest, CP!OneLess, CP!Next
<1> QED
  BY <1>1, <1>2, <1>4, <1>5, <1>6, <1>7 DEF C!Next

\* What EventViewsProofs shows of EventViews holds of the consolidators on the path,
\* between starts that may fail, a row that may be missing and the requests.
THEOREM ConsolidatorsKeepTheirPromises ==
    ViewPathSpec => [](/\ CP!IInv /\ CP!ViewsAreConserved /\ CP!PendingCountsTheBatch
                       /\ CP!ReturnedWorkerLeavesNothing /\ CP!NoFlushDeadlock)
<1>1. C!Init => CP!Init
  BY DEF C!Init, C!NoViews, CP!Init, CP!NoViews
<1>2. ViewPathSpec => CP!Spec
  BY <1>1, SameSteps, PartsBehaveAsSpecified, PTL DEF C!Spec, CP!Spec
<1>3. CP!Spec => []CP!IInv
  BY SameConstants, CP!EventViewsInvariant
<1>4. CP!Spec => []CP!ViewsAreConserved
  BY SameConstants, CP!NoViewIsLost
<1>5. CP!Spec => []CP!PendingCountsTheBatch
  BY SameConstants, CP!PendingIsTheBatch
<1>6. CP!Spec => []CP!ReturnedWorkerLeavesNothing
  BY SameConstants, CP!StopLeavesNothing
<1>7. CP!Spec => []CP!NoFlushDeadlock
  BY SameConstants, CP!FlushesNeverDeadlock
<1> QED
  BY <1>2, <1>3, <1>4, <1>5, <1>6, <1>7, PTL

-----------------------------------------------------------------------------
(***************************************************************************)
(* Seeding.                                                                *)
(***************************************************************************)
SeedingInv == S!TypeOK /\ S!AllOrNothing /\ S!InsertsOnlyUnlessSeen

\* There are four tables, locations first and events third.
LEMMA TablesInOrder ==
    /\ Len(S!Tables) = 4
    /\ \A s \in S!Sources : stored[s] \in 0 .. 4 =>
         /\ S!Holds(s, "locations") <=> stored[s] > 0
         /\ S!Holds(s, "events") <=> stored[s] > 2
BY DEF S!Tables, S!Holds

\* An empty database, or what an earlier deployment has inserted.
LEMMA SeedingInit == S!Init => SeedingInv
<1> SUFFICES ASSUME S!Init PROVE SeedingInv
  OBVIOUS
<1>1. PICK n \in {0, 4} : stored = [s \in S!Sources |-> IF s = Earlier THEN n ELSE 0]
  BY TablesInOrder DEF S!Init
<1>2. /\ \A p \in Processes : p \in S!Sources /\ stored[p] = 0
      /\ stored \in [S!Sources -> {0, 4}]
  BY <1>1, ViewPathAssumption DEF S!Sources
<1> QED
  BY <1>2, TablesInOrder DEF S!Init, SeedingInv, S!TypeOK, S!AllOrNothing, S!InsertsOnlyUnlessSeen

\* Rows are stored by a commit, all of them at once.
LEMMA StoredTogether ==
    ASSUME SeedingInv, [S!Next]_seeding
    PROVE  /\ stored' \in [S!Sources -> 0 .. 4]
           /\ \A s \in S!Sources :
                \/ stored'[s] = stored[s]
                \/ s \in Processes /\ boot[s] = "inserting" /\ stored'[s] = 4
<1>1. /\ \A p \in Processes : p \in S!Sources
      /\ stored \in [S!Sources -> 0 .. 4]
  BY TablesInOrder DEF SeedingInv, S!TypeOK, S!Sources
<1>2. ASSUME NEW p \in Processes, S!CommitSeeding(p) \/ S!StartFails(p)
      PROVE  \/ stored' = stored
             \/ boot[p] = "inserting" /\ stored' = [stored EXCEPT ![p] = 4]
  BY <1>2, TablesInOrder DEF S!CommitSeeding, S!StartFails, S!Commit
<1>3. ASSUME NEW p \in Processes, S!CountLocations(p) \/ S!FlushRows(p)
      PROVE  stored' = stored
  BY <1>3 DEF S!CountLocations, S!FlushRows
<1>4. CASE UNCHANGED seeding
  BY <1>1, <1>4 DEF seeding
<1>5. ASSUME NEW p \in Processes, boot[p] = "inserting", stored' = [stored EXCEPT ![p] = 4]
      PROVE  /\ stored' \in [S!Sources -> 0 .. 4]
             /\ \A s \in S!Sources :
                  \/ stored'[s] = stored[s]
                  \/ s \in Processes /\ boot[s] = "inserting" /\ stored'[s] = 4
  BY <1>1, <1>5
<1> QED
  BY <1>1, <1>2, <1>3, <1>4, <1>5 DEF S!Next

\* A step of the seeding keeps its invariant.
LEMMA SeedingStepKeeps ==
    ASSUME SeedingInv, [S!Next]_seeding
    PROVE  SeedingInv'
<1> DEFINE Grown == /\ stored' \in [S!Sources -> 0 .. 4]
                    /\ \A s \in S!Sources :
                         \/ stored'[s] = stored[s]
                         \/ s \in Processes /\ boot[s] = "inserting" /\ stored'[s] = 4
<1>1. Grown
  BY StoredTogether
<1>2. /\ \A p \in Processes : p \in S!Sources
      /\ Earlier \in S!Sources /\ Earlier \notin Processes
      /\ Len(S!Tables) = 4
      /\ stored \in [S!Sources -> 0 .. 4]
      /\ \A s \in S!Sources : S!Holds(s, "locations") <=> stored[s] > 0
  BY TablesInOrder, ViewPathAssumption DEF SeedingInv, S!TypeOK, S!Sources
<1>3. ASSUME NEW p \in Processes, S!CountLocations(p) PROVE SeedingInv'
  <2> DEFINE Counted == {s \in S!Sources : S!Holds(s, "locations")}
  <2>1. /\ boot[p] = "starting"
        /\ seen' = [seen EXCEPT ![p] = Counted]
        /\ boot' = [boot EXCEPT ![p] = IF seen'[p] # {} THEN "seeded" ELSE "inserting"]
        /\ flushed' = flushed /\ stored' = stored
    BY <1>3 DEF S!CountLocations, S!DataExist
  <2>2. \A s \in S!Sources : s \in Counted <=> stored[s] > 0
    BY <1>2
  <2> HIDE DEF Counted
  <2>3. Counted \in SUBSET S!Sources
    BY DEF Counted
  <2>4. \A q \in Processes : /\ q # p => boot'[q] = boot[q] /\ seen'[q] = seen[q]
                             /\ q = p => /\ seen'[q] = Counted
                                         /\ boot'[q] = IF Counted # {} THEN "seeded" ELSE "inserting"
    BY <2>1 DEF SeedingInv, S!TypeOK
  <2>5. S!TypeOK'
    BY <2>1, <2>3 DEF SeedingInv, S!TypeOK
  <2>6. S!AllOrNothing'
    BY <1>2, <2>1, <2>2, <2>3, <2>4 DEF SeedingInv, S!AllOrNothing
  <2>7. S!InsertsOnlyUnlessSeen'
    <3>1. stored[p] = 0
      BY <2>1 DEF SeedingInv, S!InsertsOnlyUnlessSeen
    <3>2. Counted = {} => stored[Earlier] = 0
      BY <1>2, <2>2
    <3> QED
      BY <2>1, <2>4, <3>1, <3>2 DEF SeedingInv, S!InsertsOnlyUnlessSeen
  <2> QED
    BY <2>5, <2>6, <2>7 DEF SeedingInv
<1>4. ASSUME NEW p \in Processes, S!FlushRows(p) PROVE SeedingInv'
  BY <1>2, <1>4
     DEF S!FlushRows, SeedingInv, S!TypeOK, S!AllOrNothing, S!InsertsOnlyUnlessSeen
<1>5. ASSUME NEW p \in Processes, S!CommitSeeding(p) PROVE SeedingInv'
  BY <1>2, <1>5
     DEF S!CommitSeeding, S!Commit, SeedingInv, S!TypeOK, S!AllOrNothing,
         S!InsertsOnlyUnlessSeen
<1>6. ASSUME NEW p \in Processes, S!StartFails(p) PROVE SeedingInv'
  BY <1>2, <1>6
     DEF S!StartFails, S!Commit, SeedingInv, S!TypeOK, S!AllOrNothing,
         S!InsertsOnlyUnlessSeen
<1>7. CASE UNCHANGED seeding
  BY <1>7 DEF seeding, SeedingInv, S!TypeOK, S!AllOrNothing, S!InsertsOnlyUnlessSeen, S!Tables
<1> QED
  BY <1>3, <1>4, <1>5, <1>6, <1>7 DEF S!Next

\* The invariant of the seeding holds throughout.
LEMMA SeedingInvariant == ViewPathSpec => []SeedingInv
<1>1. ViewPathInit => SeedingInv
  BY SeedingInit DEF ViewPathInit
<1>2. SeedingInv /\ [ViewPathNext]_pathVars => SeedingInv'
  BY SeedingStepKeeps, SeedingSteps
<1> QED
  BY <1>1, <1>2, PTL DEF ViewPathSpec

\* A process that goes on to serve has stored complete data or counted such.
THEOREM ServedDataAreComplete == ViewPathSpec => []ServesCompleteData
<1>1. SeedingInv => ServesCompleteData
  BY TablesInOrder
     DEF SeedingInv, ServesCompleteData, S!ServesCompleteData, S!TypeOK, S!AllOrNothing,
         S!InsertsOnlyUnlessSeen, S!Sources
<1> QED
  BY <1>1, SeedingInvariant, PTL

\* Starts that do not overlap seed once.
THEOREM SeedingTwiceTakesARace == ViewPathSpec => []OnlyRacingStartsSeedTwice
<1>1. SeedingInv => OnlyRacingStartsSeedTwice
  BY DEF SeedingInv, OnlyRacingStartsSeedTwice, S!OnlyRacingStartsSeedTwice,
         S!InsertsOnlyUnlessSeen
<1> QED
  BY <1>1, SeedingInvariant, PTL

-----------------------------------------------------------------------------
(***************************************************************************)
(* The foreign key.                                                        *)
(***************************************************************************)
MemoryTypes ==
    /\ queue \in [Processes -> Seq({Event, None})]
    /\ pending \in [Processes -> Int]
    /\ pc \in [Requests -> PCs]

OnlySignals(q) == \A i \in 1 .. Len(q) : q[i] = None

\* Without a row of the event, no request is past get_event and nothing waits.
NothingWithoutEvent ==
    ~EventExists =>
        /\ \A r \in Requests : pc[r] \in {"start", "answered"}
        /\ \A p \in Processes : pending[p] = 0 /\ OnlySignals(queue[p])

\* The steps that take no view and write none.
QuietStep(p) ==
    \/ C!start(p) \/ C!GetNone(p) \/ C!DeadlinePasses(p) \/ C!LockKey(p) \/ C!FlushFails(p)
    \/ C!BeginStop(p) \/ C!stop(p) \/ C!LeaveFlush(p) \/ C!Crash(p)

\* A quiet step leaves the count alone and the queue without views.
LEMMA QuietMoves ==
    ASSUME MemoryTypes, NEW p \in Processes, QuietStep(p)
    PROVE  /\ queue' \in [Processes -> Seq({Event, None})]
           /\ pending' = pending
           /\ \A q \in Processes : OnlySignals(queue[q]) => OnlySignals(queue'[q])
<1> USE DEF MemoryTypes
<1>1. CASE C!GetNone(p)
  <2>1. queue[p] # <<>> /\ queue' = [queue EXCEPT ![p] = Tail(@)] /\ pending' = pending
    BY <1>1 DEF C!GetNone
  <2>2. /\ Tail(queue[p]) \in Seq({Event, None})
        /\ OnlySignals(queue[p]) => OnlySignals(Tail(queue[p]))
    BY <2>1 DEF OnlySignals
  <2> QED
    BY <2>1, <2>2
<1>2. CASE C!PutNone(p)
  BY <1>2 DEF C!PutNone, OnlySignals
<1>3. CASE \/ C!start(p) \/ C!DeadlinePasses(p) \/ C!LockKey(p) \/ C!FlushFails(p)
           \/ C!BeginStop(p) \/ C!Join(p) \/ C!StopTimesOut(p) \/ C!LeaveFlush(p) \/ C!Crash(p)
  <2>1. queue' = queue /\ pending' = pending
    BY <1>3 DEF C!start, C!DeadlinePasses, C!LockKey, C!FlushFails, C!BeginStop, C!Join,
                C!StopTimesOut, C!LeaveFlush, C!CancelEnds, C!CancelFails, C!Crash, C!memory
  <2> QED
    BY <2>1
<1> QED
  BY <1>1, <1>2, <1>3 DEF QuietStep, C!stop

\* The others keep the types.
LEMMA BusyMoves ==
    ASSUME MemoryTypes, NEW p \in Processes,
           C!GetView(p) \/ C!CommitFlush(p) \/ C!submit(p, Event)
    PROVE  /\ queue' \in [Processes -> Seq({Event, None})]
           /\ pending' \in [Processes -> Int]
<1> USE DEF MemoryTypes
<1>1. CASE C!GetView(p)
  <2>1. /\ queue[p] # <<>> /\ queue' = [queue EXCEPT ![p] = Tail(@)]
        /\ pending' = [pending EXCEPT ![p] = @ + 1]
    BY <1>1 DEF C!GetView, C!CountView
  <2>2. Tail(queue[p]) \in Seq({Event, None})
    BY <2>1
  <2> QED
    BY <2>1, <2>2
<1>2. CASE C!CommitFlush(p)
  BY <1>2 DEF C!CommitFlush
<1>3. CASE C!submit(p, Event)
  BY <1>3 DEF C!submit
<1> QED
  BY <1>1, <1>2, <1>3

\* A row that is stored stays.
LEMMA EventStays ==
    ASSUME SeedingInv, [S!Next]_seeding, EventExists
    PROVE  EventExists'
<1>1. SeedingInv' /\ Inserter \in S!Sources
  BY SeedingStepKeeps, ViewPathAssumption DEF S!Sources
<1>2. stored[Inserter] > 2 /\ stored'[Inserter] \in {stored[Inserter], 4}
  BY <1>1, StoredTogether, TablesInOrder DEF EventExists, SeedingInv, S!TypeOK
<1>3. stored'[Inserter] > 2 /\ stored'[Inserter] \in 0 .. 4
  BY <1>1, <1>2, TablesInOrder DEF SeedingInv, S!TypeOK
<1> QED
  BY <1>1, <1>3 DEF EventExists, S!Holds, S!Tables

\* Requests and consolidators keep to events that exist.
LEMMA PoisonStep ==
    ASSUME SeedingInv, MemoryTypes, NothingWithoutEvent, [ViewPathNext]_pathVars
    PROVE  MemoryTypes' /\ NothingWithoutEvent'
<1>1. EventExists => EventExists'
  BY EventStays, SeedingSteps
<1>2. pc' \in [Requests -> PCs]
  BY RequestsStep
     DEF MemoryTypes, Next, GetEventFails, GetEvent, record, MarkViewed, MarkViewedFails, Submit,
         Crash, Tick, Goto, PCs, vars
<1>3. ASSUME NEW r \in Requests, Fetch(r) \/ Mark(r) \/ SubmitView(r) \/ Lose(r)
      PROVE  MemoryTypes' /\ NothingWithoutEvent'
  <2>1. CASE Fetch(r) \/ Mark(r) \/ Lose(r)
    <3>1. UNCHANGED <<seeding, queue, pending>>
      BY <2>1 DEF Fetch, Mark, Lose, consolidators
    <3>2. EventExists' <=> EventExists
      BY <3>1 DEF seeding, EventExists, S!Holds
    <3>3. ~EventExists => \A s \in Requests : pc'[s] \in {"start", "answered"}
      BY <2>1 DEF MemoryTypes, NothingWithoutEvent, Fetch, Mark, Lose, GetEventFails, GetEvent,
                  MarkViewed, MarkViewedFails, Crash, Goto, At
    <3> QED
      BY <1>2, <3>1, <3>2, <3>3 DEF MemoryTypes, NothingWithoutEvent
  <2>2. CASE SubmitView(r)
    <3>1. EventExists
      BY <2>2 DEF SubmitView, Submit, At, NothingWithoutEvent
    <3>2. MemoryTypes'
      BY <1>2, <2>2, ViewPathAssumption, BusyMoves DEF SubmitView, consolidators, MemoryTypes
    <3> QED
      BY <1>1, <3>1, <3>2 DEF NothingWithoutEvent
  <2> QED
    BY <1>3, <2>1, <2>2
<1>4. ASSUME NEW p \in Processes, Seed(p) PROVE MemoryTypes' /\ NothingWithoutEvent'
  BY <1>1, <1>4 DEF Seed, vars, consolidators, MemoryTypes, NothingWithoutEvent
<1>5. ASSUME NEW p \in Processes, Start(p) \/ StartFails(p) \/ Consolidate(p)
      PROVE  MemoryTypes' /\ NothingWithoutEvent'
  <2>1. pc' = pc
    BY <1>5 DEF Start, StartFails, Consolidate, vars
  <2>2. QuietStep(p) \/ C!GetView(p) \/ CommitFlush(p)
    BY <1>5 DEF Start, StartFails, Consolidate, QuietStep, BeginStop, C!Collect, C!Take
  <2>3. CASE QuietStep(p)
    BY <1>1, <2>1, <2>3, QuietMoves DEF MemoryTypes, NothingWithoutEvent
  <2>4. CASE C!GetView(p)
    <3>1. EventExists
      BY <1>5, <2>4 DEF C!GetView, MemoryTypes, NothingWithoutEvent, OnlySignals
    <3> QED
      BY <1>1, <2>1, <2>4, <3>1, BusyMoves DEF MemoryTypes, NothingWithoutEvent
  <2>5. CASE CommitFlush(p)
    BY <1>1, <2>1, <2>5, BusyMoves DEF CommitFlush, MemoryTypes, NothingWithoutEvent
  <2> QED
    BY <2>2, <2>3, <2>4, <2>5
<1>6. CASE PathTick
  BY <1>1, <1>6 DEF PathTick, Tick, C!Tick, C!memory, seeding, vars, consolidators, MemoryTypes,
                    NothingWithoutEvent
<1>7. CASE C!Rest /\ UNCHANGED <<vars, seeding>>
  BY <1>1, <1>7 DEF C!Rest, C!vars, C!memory, vars, MemoryTypes, NothingWithoutEvent
<1>8. CASE UNCHANGED pathVars
  BY <1>1, <1>8 DEF pathVars, vars, consolidators, MemoryTypes, NothingWithoutEvent
<1> QED
  BY <1>3, <1>4, <1>5, <1>6, <1>7, <1>8 DEF ViewPathNext

\* No view of an event without a row is ever queued or counted.
THEOREM NoViewWithoutEvent == ViewPathSpec => []NoFlushIsPoisoned
<1>1. ViewPathInit => MemoryTypes /\ NothingWithoutEvent
  BY DEF ViewPathInit, Init, C!Init, MemoryTypes, NothingWithoutEvent, OnlySignals, PCs
<1>2. NothingWithoutEvent => NoFlushIsPoisoned
  BY DEF NothingWithoutEvent, NoFlushIsPoisoned, OnlySignals
<1> QED
  BY <1>1, <1>2, PoisonStep, SeedingInvariant, PTL DEF ViewPathSpec

-----------------------------------------------------------------------------
(***************************************************************************)
(* From the windows of the clients to the table.                           *)
(***************************************************************************)
Numbers == [{Event} -> Nat]

\* What the rest needs of the types of the consolidators, and of their start.
ConsolidatorTypes ==
    /\ event_views \in Numbers /\ failures \in Nat
    /\ batch \in [Processes -> Numbers]
    /\ accepted \in [Processes -> Numbers] /\ repeated \in [Processes -> Numbers]
    /\ worker \in [Processes -> CP!WorkerStates] /\ app \in [Processes -> CP!AppStates]
    /\ \A p \in Processes : app[p] = "starting" => worker[p] = "none"

Submitted == [p \in Processes |-> accepted[p][Event] + repeated[p][Event]]
StoredTwice == [p \in Processes |-> repeated[p][Event]]

\* The views submitted by the requests are those the consolidators have accepted.
SubmittedViewsAreCounted == SumFunction(Submitted) = SumFunction(counted) + SumFunction(StoredTwice)

\* A view is stored twice only after a failure, or by a worker that is cut short.
RepeatsTakeFailures ==
    \A p \in Processes : failures = 0 /\ worker[p] # "cancelled" => repeated[p][Event] = 0

\* The lifespan of a process ends behind its requests, unless it dies.
RequestsAreServed ==
    \A r \in Requests : pc[r] \in {"recording", "marked"} => app[ProcessOf[r]] \in {"serving", "crashed"}

PathInv == SubmittedViewsAreCounted /\ RepeatsTakeFailures /\ RequestsAreServed

\* The types follow from the invariant of EventViews.
LEMMA ConsolidatorTypesHold == CP!IInv => ConsolidatorTypes
BY DEF CP!IInv, CP!TypeOK, CP!Views, CP!NoneComesLast, ConsolidatorTypes, Numbers

\* What a consolidator does by itself.
OwnStep(p) == QuietStep(p) \/ C!GetView(p) \/ C!CommitFlush(p)

\* It accepts no view, and stores one twice only if its commit is not acknowledged.
LEMMA OwnMoves ==
    ASSUME ConsolidatorTypes, NEW p \in Processes, OwnStep(p),
           ConsolidatorTypes'
    PROVE  /\ accepted' = accepted
           /\ \A q \in Processes \ {p} :
                repeated'[q] = repeated[q] /\ worker'[q] = worker[q] /\ app'[q] = app[q]
           /\ repeated'[p] = repeated[p] \/ failures' > 0 \/ worker'[p] = "cancelled"
           /\ failures' = 0 => failures = 0
           /\ worker[p] = "cancelled" => worker'[p] = "cancelled"
           /\ app'[p] \in {app[p], "crashed"} \/ app[p] # "serving" \/ C!BeginStop(p)
           /\ app[p] # "crashed" \/ app'[p] = "crashed"
<1> USE DEF ConsolidatorTypes, C!table, C!memory, C!run, C!lifespan, C!counts
<1>1. CASE C!start(p)
  BY <1>1 DEF C!start
<1>2. CASE C!GetView(p) \/ C!GetNone(p) \/ C!DeadlinePasses(p) \/ C!LockKey(p)
  BY <1>2 DEF C!GetView, C!GetNone, C!DeadlinePasses, C!LockKey, C!BeginFlush, C!AfterFlush
<1>3. CASE C!CommitFlush(p)
  BY <1>3 DEF C!CommitFlush, C!KeysLocked, C!AfterFlush
<1>4. CASE C!FlushFails(p) \/ C!CancelFails(p)
  BY <1>4 DEF C!FlushFails, C!CancelFails, C!Unacknowledged, C!AfterFlush
<1>5. CASE C!BeginStop(p) \/ C!PutNone(p) \/ C!Join(p) \/ C!StopTimesOut(p)
  BY <1>5 DEF C!BeginStop, C!PutNone, C!Join, C!StopTimesOut
<1>6. CASE C!CancelEnds(p) \/ C!Crash(p)
  BY <1>6 DEF C!CancelEnds, C!Crash, C!Unacknowledged, C!KeysLocked, C!InTransaction
<1> QED
  BY <1>1, <1>2, <1>3, <1>4, <1>5, <1>6 DEF OwnStep, QuietStep, C!stop, C!LeaveFlush

\* The sums behind SubmittedViewsAreCounted are sums of numbers.
LEMMA SumTypes ==
    ASSUME ConsolidatorTypes, ConsolidatorTypes'
    PROVE  /\ IsFiniteSet(Processes)
           /\ Submitted \in [Processes -> Nat] /\ Submitted' \in [Processes -> Nat]
           /\ StoredTwice \in [Processes -> Nat] /\ StoredTwice' \in [Processes -> Nat]
           /\ SumFunction(Submitted) \in Nat /\ SumFunction(Submitted') \in Nat
           /\ SumFunction(StoredTwice) \in Nat /\ SumFunction(StoredTwice') \in Nat
<1>1. IsFiniteSet(Processes)
  BY ConsolidatorsAssumption, SameOperators DEF C!EventViewsAssumption
<1>2. /\ Submitted \in [Processes -> Nat] /\ Submitted' \in [Processes -> Nat]
      /\ StoredTwice \in [Processes -> Nat] /\ StoredTwice' \in [Processes -> Nat]
  BY DEF ConsolidatorTypes, Numbers, Submitted, StoredTwice
<1> QED
  BY <1>1, <1>2, SumType

\* So are those of the requests.
LEMMA CountedType ==
    ASSUME TypeOK
    PROVE  IsFiniteSet(Clients) /\ SumFunction(counted) \in Nat
<1>1. IsFiniteSet(Clients)
  BY ViewPathAssumption
<1>2. counted \in [Clients -> Nat]
  BY DEF TypeOK
<1> QED
  BY <1>1, <1>2, SumType

\* A step of a consolidator by itself.
LEMMA OwnStepKeeps ==
    ASSUME ConsolidatorTypes, ConsolidatorTypes', PathInv, TypeOK, NEW p \in Processes, OwnStep(p),
           UNCHANGED vars,
           C!BeginStop(p) => \A r \in Requests : ProcessOf[r] = p => pc[r] \in {"start", "answered"}
    PROVE  PathInv'
<1>1. /\ accepted' = accepted
      /\ \A q \in Processes \ {p} :
           repeated'[q] = repeated[q] /\ worker'[q] = worker[q] /\ app'[q] = app[q]
      /\ repeated'[p] = repeated[p] \/ failures' > 0 \/ worker'[p] = "cancelled"
      /\ failures' = 0 => failures = 0
      /\ worker[p] = "cancelled" => worker'[p] = "cancelled"
      /\ app'[p] \in {app[p], "crashed"} \/ app[p] # "serving" \/ C!BeginStop(p)
      /\ app[p] # "crashed" \/ app'[p] = "crashed"
  BY OwnMoves
<1>2. pc' = pc /\ counted' = counted
  BY DEF vars
<1>3. SubmittedViewsAreCounted'
  <2>1. \A q \in Processes \ {p} : Submitted'[q] = Submitted[q] /\ StoredTwice'[q] = StoredTwice[q]
    BY <1>1 DEF Submitted, StoredTwice
  <2>2. /\ SumFunction(Submitted') + Submitted[p] = SumFunction(Submitted) + Submitted'[p]
        /\ SumFunction(StoredTwice') + StoredTwice[p] = SumFunction(StoredTwice) + StoredTwice'[p]
    BY <2>1, SumTypes, SumOfChange
  <2>3. Submitted'[p] + StoredTwice[p] = Submitted[p] + StoredTwice'[p]
    BY <1>1 DEF ConsolidatorTypes, Numbers, Submitted, StoredTwice
  <2>4. /\ Submitted[p] \in Nat /\ Submitted'[p] \in Nat
        /\ StoredTwice[p] \in Nat /\ StoredTwice'[p] \in Nat
    BY SumTypes
  <2>5. SumFunction(Submitted) = SumFunction(counted) + SumFunction(StoredTwice)
    BY DEF PathInv, SubmittedViewsAreCounted
  <2>6. SumFunction(Submitted') = SumFunction(counted) + SumFunction(StoredTwice')
    BY <2>2, <2>3, <2>4, <2>5, SumTypes, CountedType
  <2> QED
    BY <1>2, <2>6 DEF SubmittedViewsAreCounted
<1>4. RepeatsTakeFailures'
  BY <1>1 DEF PathInv, RepeatsTakeFailures
<1>5. RequestsAreServed'
  <2> SUFFICES ASSUME NEW r \in Requests, pc[r] \in {"recording", "marked"}
               PROVE  app'[ProcessOf[r]] \in {"serving", "crashed"}
    BY <1>2 DEF RequestsAreServed
  <2>1. ProcessOf[r] \in Processes /\ app[ProcessOf[r]] \in {"serving", "crashed"}
    BY ViewPathAssumption DEF PathInv, RequestsAreServed
  <2>2. CASE ProcessOf[r] # p
    BY <1>1, <2>1, <2>2
  <2>3. CASE ProcessOf[r] = p
    BY <1>1, <2>1, <2>3
  <2> QED
    BY <2>2, <2>3
<1> QED
  BY <1>3, <1>4, <1>5 DEF PathInv

\* A view that is counted is accepted by one process.
LEMMA SubmitKeeps ==
    ASSUME ConsolidatorTypes, ConsolidatorTypes', PathInv, TypeOK, AddressIsKnown,
           NEW r \in Requests, SubmitView(r)
    PROVE  PathInv'
<1> DEFINE p == ProcessOf[r]
           c == ClientOf[r]
<1>1. p \in Processes /\ c \in Clients /\ pc[r] = "marked"
  BY ViewPathAssumption DEF SubmitView, Submit, At, AddressIsKnown
<1>2. pc' = [pc EXCEPT ![r] = "answered"] /\ pc \in [Requests -> PCs]
  BY DEF SubmitView, Submit, Goto, TypeOK
<1>3. CASE counted' = counted
  <2>1. UNCHANGED <<accepted, repeated, failures, worker, app>>
    BY <1>3 DEF SubmitView, consolidators
  <2> QED
    BY <1>2, <1>3, <2>1 DEF PathInv, SubmittedViewsAreCounted, RepeatsTakeFailures,
                            RequestsAreServed, Submitted, StoredTwice
<1>4. CASE counted' # counted
  <2>1. /\ counted' = [counted EXCEPT ![c] = @ + 1]
        /\ C!submit(p, Event)
    BY <1>4 DEF SubmitView, Submit
  <2>2. /\ accepted' = [accepted EXCEPT ![p][Event] = @ + 1]
        /\ UNCHANGED <<repeated, failures, worker, app>>
    BY <2>1 DEF C!submit, C!run, C!lifespan
  <2>3. /\ Submitted'[p] = Submitted[p] + 1
        /\ \A q \in Processes \ {p} : Submitted'[q] = Submitted[q]
        /\ StoredTwice' = StoredTwice
    BY <1>1, <2>2 DEF ConsolidatorTypes, Numbers, Submitted, StoredTwice
  <2>4. SumFunction(Submitted') + Submitted[p] = SumFunction(Submitted) + Submitted'[p]
    BY <1>1, <2>3, SumTypes, SumOfChange
  <2>5. SumFunction(counted') = SumFunction(counted) + 1
    <3>1. /\ counted \in [Clients -> Nat] /\ counted' \in [Clients -> Nat]
          /\ counted'[c] = counted[c] + 1 /\ \A d \in Clients \ {c} : counted'[d] = counted[d]
      BY <1>1, <2>1 DEF TypeOK
    <3>2. SumFunction(counted') + counted[c] = SumFunction(counted) + counted'[c]
      BY <1>1, <3>1, SumOfChange, CountedType
    <3>3. SumFunction(counted') \in Nat /\ SumFunction(counted) \in Nat /\ counted[c] \in Nat
      BY <1>1, <3>1, SumType, CountedType
    <3> QED
      BY <3>1, <3>2, <3>3
  <2>6. SumFunction(counted) \in Nat
    BY CountedType
  <2>7. SumFunction(Submitted) = SumFunction(counted) + SumFunction(StoredTwice)
    BY DEF PathInv, SubmittedViewsAreCounted
  <2>8. SumFunction(Submitted') = SumFunction(counted') + SumFunction(StoredTwice')
    <3>1. Submitted[p] \in Nat
      BY <1>1, SumTypes
    <3> QED
      BY <2>3, <2>4, <2>5, <2>6, <2>7, <3>1, SumTypes
  <2> QED
    BY <1>2, <2>2, <2>8 DEF PathInv, SubmittedViewsAreCounted, RepeatsTakeFailures,
                            RequestsAreServed
<1> QED
  BY <1>3, <1>4

\* Where neither counts nor places move, nothing does.
LEMMA StillKeeps ==
    ASSUME PathInv, UNCHANGED <<counted, accepted, repeated, failures, worker, app, pc>>
    PROVE  PathInv'
BY DEF PathInv, SubmittedViewsAreCounted, RepeatsTakeFailures, RequestsAreServed, Submitted,
       StoredTwice

\* Requests, consolidators and table stay in step.
LEMMA PathStep ==
    ASSUME ConsolidatorTypes, ConsolidatorTypes', TypeOK, AddressIsKnown, PathInv,
           [ViewPathNext]_pathVars
    PROVE  PathInv'
<1>1. ASSUME NEW r \in Requests, Fetch(r) \/ Mark(r) \/ Lose(r) PROVE PathInv'
  <2>1. UNCHANGED <<counted, accepted, repeated, failures, worker, app>>
    BY <1>1 DEF Fetch, Mark, Lose, consolidators, GetEventFails, GetEvent, MarkViewed,
                MarkViewedFails, Crash
  <2>2. /\ \A s \in Requests \ {r} : pc'[s] = pc[s]
        /\ pc'[r] \in {"recording", "marked"} => app[ProcessOf[r]] = "serving"
    BY <1>1 DEF Fetch, Mark, Lose, GetEventFails, GetEvent, MarkViewed, MarkViewedFails, Crash,
                Goto, Serving, TypeOK
  <2>3. RequestsAreServed'
    BY <2>1, <2>2 DEF PathInv, RequestsAreServed
  <2> QED
    BY <2>1, <2>3 DEF PathInv, SubmittedViewsAreCounted, RepeatsTakeFailures, Submitted, StoredTwice
<1>2. ASSUME NEW r \in Requests, SubmitView(r) PROVE PathInv'
  BY <1>2, SubmitKeeps
<1>3. ASSUME NEW p \in Processes, Seed(p) PROVE PathInv'
  BY <1>3, StillKeeps DEF Seed, vars, consolidators
<1>4. ASSUME NEW p \in Processes, Start(p) \/ StartFails(p) \/ Consolidate(p) PROVE PathInv'
  <2>1. OwnStep(p) /\ UNCHANGED vars
    BY <1>4 DEF Start, StartFails, Consolidate, OwnStep, QuietStep, CommitFlush, BeginStop, C!Collect,
                C!Take
  <2>2. C!BeginStop(p) => \A r \in Requests : ProcessOf[r] = p => pc[r] \in {"start", "answered"}
    <3>1. ASSUME C!BeginStop(p) PROVE BeginStop(p)
      <4>1. app[p] = "serving" /\ app'[p] = "signalling" /\ worker' = worker /\ app' # app
        BY <3>1 DEF C!BeginStop, C!run, ConsolidatorTypes
      <4> QED
        BY <1>4, <4>1
           DEF Start, StartFails, Consolidate, C!start, C!Crash, C!Collect, C!Take, C!GetView, C!GetNone,
               C!DeadlinePasses, C!LockKey, CommitFlush, C!CommitFlush, C!FlushFails, C!stop,
               C!PutNone, C!Join, C!StopTimesOut, C!LeaveFlush, C!CancelEnds, C!CancelFails,
               C!lifespan, ConsolidatorTypes
    <3> QED
      BY <3>1 DEF BeginStop
  <2> QED
    BY <2>1, <2>2, OwnStepKeeps
<1>5. CASE PathTick
  BY <1>5, StillKeeps
     DEF PathTick, Tick, C!Tick, C!counts, vars, consolidators
<1>6. CASE UNCHANGED pathVars \/ (C!Rest /\ UNCHANGED <<vars, seeding>>)
  BY <1>6, StillKeeps
     DEF pathVars, vars, consolidators, C!Rest, C!vars, C!run, C!lifespan, C!counts
<1> QED
  BY <1>1, <1>2, <1>3, <1>4, <1>5, <1>6 DEF ViewPathNext

\* While nothing goes wrong and every server is shut down, the table has a view
\* for each window; at any time it has no more, but for those stored twice.
LEMMA WindowsReachTheTable ==
    ASSUME TypeOK, OneViewPerWindow, CP!IInv, CP!ViewsAreConserved,
           CP!ReturnedWorkerLeavesNothing, PathInv
    PROVE  ViewsAreWindows
<1> DEFINE Waiting == [p \in Processes |-> CP!InQueue(p, Event) + batch[p][Event]]
<1>1. ConsolidatorTypes /\ IsFiniteSet(Processes) /\ IsFiniteSet(Clients)
  BY ConsolidatorTypesHold, CountedType, ConsolidatorsAssumption, SameOperators
     DEF C!EventViewsAssumption
<1>2. Waiting \in [Processes -> Nat]
  <2>1. \A p \in Processes : CP!InQueue(p, Event) \in Nat
    <3> SUFFICES ASSUME NEW p \in Processes PROVE CP!InQueue(p, Event) \in Nat
      OBVIOUS
    <3>1. queue[p] \in Seq({Event} \cup {None})
      BY DEF CP!IInv, CP!TypeOK
    <3>2. DOMAIN queue[p] = 1 .. Len(queue[p]) /\ Len(queue[p]) \in Nat
      BY <3>1
    <3>3. {i \in DOMAIN queue[p] : queue[p][i] = Event} \in SUBSET (1 .. Len(queue[p]))
      BY <3>2
    <3>4. IsFiniteSet(1 .. Len(queue[p]))
      BY <3>2, FS_Interval
    <3>5. IsFiniteSet({i \in DOMAIN queue[p] : queue[p][i] = Event})
      BY <3>3, <3>4, FS_Subset
    <3> QED
      BY <3>5, FS_CardinalityType, SameOperators DEF CP!InQueue
  <2> QED
    BY <1>1, <2>1 DEF ConsolidatorTypes, Numbers
<1>3. SumFunction(Submitted) = event_views[Event] + SumFunction(Waiting)
  BY SameOperators DEF CP!ViewsAreConserved, CP!Received, CP!Waiting, Submitted
<1>4. SumFunction(Submitted) = SumFunction(counted) + RepeatedViews
  BY DEF PathInv, SubmittedViewsAreCounted, RepeatedViews, StoredTwice
<1>5. StoredTwice \in [Processes -> Nat] /\ RepeatedViews = SumFunction(StoredTwice)
  BY <1>1 DEF ConsolidatorTypes, Numbers, StoredTwice, RepeatedViews
<1>6. /\ event_views[Event] \in Nat
      /\ counted \in [Clients -> Nat] /\ opened \in [Clients -> Nat]
  BY <1>1 DEF ConsolidatorTypes, Numbers, TypeOK
<1>7. /\ SumFunction(Waiting) \in Nat /\ RepeatedViews \in Nat
      /\ SumFunction(counted) \in Nat /\ SumFunction(opened) \in Nat
  BY <1>1, <1>2, <1>5, <1>6, SumType
<1>8. \A c \in Clients : Cardinality(OnTheWay(c)) \in Nat
  BY OnTheWayIsFinite
<1>9. \A c \in Clients : counted[c] <= opened[c]
  BY <1>6, <1>8 DEF OneViewPerWindow
<1>10. SumFunction(counted) <= WindowsOpened
  BY <1>1, <1>6, <1>9, SumMonotonic DEF WindowsOpened
<1>11. event_views[Event] <= WindowsOpened + RepeatedViews
  BY <1>3, <1>4, <1>6, <1>7, <1>10 DEF WindowsOpened
<1>12. ASSUME lapses = 0, failures = 0,
              \A p \in Processes : app[p] = "stopped" /\ worker[p] = "returned"
       PROVE  event_views[Event] = WindowsOpened
  <2>1. \A p \in Processes : queue[p] = <<>> /\ batch[p][Event] = 0
    BY <1>12 DEF CP!ReturnedWorkerLeavesNothing, CP!NothingLeft, CP!NoViews
  <2>2. SumFunction(Waiting) = 0
    <3>1. {i \in DOMAIN <<>> : <<>>[i] = Event} = {}
      OBVIOUS
    <3>2. \A p \in Processes : CP!InQueue(p, Event) = 0
      BY <2>1, <3>1, FS_EmptySet, SameOperators DEF CP!InQueue
    <3> QED
      BY <1>1, <1>2, <2>1, <3>2, SumOfZeros
  <2>3. RepeatedViews = 0
    <3>1. \A p \in Processes : StoredTwice[p] = 0
      BY <1>12 DEF PathInv, RepeatsTakeFailures, StoredTwice
    <3> QED
      BY <1>1, <1>5, <3>1, SumOfZeros
  <2>4. \A c \in Clients : OnTheWay(c) = {}
    BY <1>12, ViewPathAssumption DEF PathInv, RequestsAreServed, OnTheWay, At
  <2>5. \A c \in Clients : counted[c] = opened[c]
    <3>1. \A c \in Clients : Cardinality(OnTheWay(c)) = 0
      BY <2>4, FS_EmptySet
    <3> QED
      BY <1>6, <1>12, <3>1 DEF OneViewPerWindow
  <2>6. counted = opened
    BY <1>6, <2>5
  <2> QED
    BY <1>3, <1>4, <1>6, <1>7, <2>2, <2>3, <2>6 DEF WindowsOpened
<1> QED
  BY <1>11, <1>12 DEF ViewsAreWindows

\* The invariant that ties the requests to the consolidators.
LEMMA PathInvariant == ViewPathSpec => []PathInv
<1>1. ViewPathInit => PathInv
  <2> SUFFICES ASSUME ViewPathInit PROVE PathInv
    OBVIOUS
  <2>1. /\ accepted = [p \in Processes |-> [e \in {Event} |-> 0]]
        /\ repeated = [p \in Processes |-> [e \in {Event} |-> 0]]
        /\ counted = [c \in Clients |-> 0]
        /\ \A r \in Requests : pc[r] = "start"
    BY DEF ViewPathInit, Init, C!Init, C!NoViews
  <2>2. IsFiniteSet(Processes) /\ IsFiniteSet(Clients)
    BY ConsolidatorsAssumption, SameOperators, ViewPathAssumption DEF C!EventViewsAssumption
  <2>3. Submitted = [p \in Processes |-> 0] /\ StoredTwice = [p \in Processes |-> 0]
    BY <2>1 DEF Submitted, StoredTwice
  <2>4. SumFunction(Submitted) = 0 /\ SumFunction(StoredTwice) = 0 /\ SumFunction(counted) = 0
    BY <2>1, <2>2, <2>3, SumOfZeros
  <2> QED
    BY <2>1, <2>4 DEF PathInv, SubmittedViewsAreCounted, RepeatsTakeFailures, RequestsAreServed
<1>2. CP!IInv /\ CP!IInv' /\ IInv /\ PathInv /\ [ViewPathNext]_pathVars => PathInv'
  <2>1. CP!IInv' => ConsolidatorTypes'
    BY DEF CP!IInv, CP!TypeOK, CP!Views, CP!NoneComesLast, ConsolidatorTypes, Numbers
  <2> QED
    BY <2>1, ConsolidatorTypesHold, PathStep DEF IInv
<1> QED
  BY <1>1, <1>2, PartsBehaveAsSpecified, RecordInvariant, ConsolidatorsKeepTheirPromises, PTL
     DEF ViewPathSpec

\* What an organizer reads is backed by clients: from the SET in Redis to the
\* table, no view is made up, and none is lost unless something fails.
THEOREM ViewsAreOfWindows == ViewPathSpec => []ViewsAreWindows
<1> QED
  BY WindowsReachTheTable, PathInvariant, PartsBehaveAsSpecified, RecordInvariant,
     PathCountsWindowsOnce, ConsolidatorsKeepTheirPromises, PTL DEF IInv

-----------------------------------------------------------------------------
\* By the end of n windows of time the clients have brought the event n views each,
\* plus what a repeated commit wrote twice.
ViewsTakeClientsAndTime ==
    \A n \in Nat :
        now < n * DEDUPE_TTL =>
            event_views[Event] <= SumFunction([c \in Clients |-> n]) + RepeatedViews

\* The number an organizer reads cannot be driven up: whatever the requests, the
\* servers and the order of things, it takes clients or time (SET NX EX in
\* mark_viewed, submit, add_views).
THEOREM ViewsCannotBeDrivenUp == ViewPathSpec => []ViewsTakeClientsAndTime
<1>1. ASSUME IInv, ConsolidatorTypes, ViewsAreWindows PROVE ViewsTakeClientsAndTime
  <2> SUFFICES ASSUME NEW n \in Nat, now < n * DEDUPE_TTL
               PROVE  event_views[Event] <= SumFunction([c \in Clients |-> n]) + RepeatedViews
    BY DEF ViewsTakeClientsAndTime
  <2> DEFINE Windows == [c \in Clients |-> n]
  <2>1. opened \in [Clients -> Nat] /\ now \in Nat /\ DEDUPE_TTL \in Nat /\ Windows \in [Clients -> Nat]
    BY <1>1, RecordViewAssumption DEF IInv, TypeOK
  <2>2. ASSUME NEW c \in Clients PROVE opened[c] <= n
    <3> SUFFICES ASSUME opened[c] > n PROVE FALSE
      BY <2>1
    <3>1. opened[c] > 0 /\ opened_at[c] \in Nat /\ opened[c] \in Nat
      BY <1>1, <2>1 DEF IInv, TypeOK
    <3>2. opened_at[c] <= now /\ (opened[c] - 1) * DEDUPE_TTL <= opened_at[c]
      BY <1>1, <3>1 DEF IInv, WindowsAreApart
    <3>3. n * DEDUPE_TTL <= (opened[c] - 1) * DEDUPE_TTL
      BY <2>1, <3>1
    <3>4. n * DEDUPE_TTL \in Int /\ (opened[c] - 1) * DEDUPE_TTL \in Int
      BY <2>1, <3>1
    <3> QED
      BY <2>1, <3>1, <3>2, <3>3, <3>4
  <2>3. IsFiniteSet(Clients) /\ IsFiniteSet(Processes)
    BY ViewPathAssumption, ConsolidatorsAssumption, SameOperators DEF C!EventViewsAssumption
  <2>4. SumFunction(opened) <= SumFunction(Windows)
    <3>1. \A c \in Clients : opened[c] <= Windows[c]
      BY <2>2
    <3> HIDE DEF Windows
    <3> QED
      BY <2>1, <2>3, <3>1, SumMonotonic
  <2>5. event_views[Event] <= SumFunction(opened) + RepeatedViews
    BY <1>1 DEF ViewsAreWindows, WindowsOpened
  <2>6. event_views[Event] \in Nat /\ RepeatedViews \in Nat
    <3>1. StoredTwice \in [Processes -> Nat]
      BY <1>1 DEF ConsolidatorTypes, Numbers, StoredTwice
    <3> QED
      BY <1>1, <2>3, <3>1, SumType DEF ConsolidatorTypes, Numbers, RepeatedViews, StoredTwice
  <2>7. SumFunction(opened) \in Nat /\ SumFunction(Windows) \in Nat
    <3> HIDE DEF Windows
    <3> QED
      BY <2>1, <2>3, SumType
  <2> HIDE DEF Windows
  <2>8. event_views[Event] <= SumFunction(Windows) + RepeatedViews
    BY <2>4, <2>5, <2>6, <2>7
  <2> QED
    BY <2>8 DEF Windows
<1> QED
  BY <1>1, ConsolidatorTypesHold, RecordInvariant, PartsBehaveAsSpecified, ViewsAreOfWindows,
     ConsolidatorsKeepTheirPromises, PTL
=============================================================================
