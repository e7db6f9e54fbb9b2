---------------------------- MODULE GrantsProofs ----------------------------
(***************************************************************************)
(* Proofs about the walks of a tick, for any set of tickets, pull requests *)
(* and parties, either tracker and any bounds.                             *)
(***************************************************************************)
EXTENDS Grants, FiniteSetTheorems, SequenceTheorems, TLAPS

-----------------------------------------------------------------------------
(* Facts about sequences.                                                  *)

\* A sequence without its i-th element keeps the others in their order.
LEMMA RemoveAtProperties ==
  ASSUME NEW S, NEW s \in Seq(S), NEW i \in 1 .. Len(s)
  PROVE  /\ RemoveAt(s, i) \in Seq(S)
         /\ Len(RemoveAt(s, i)) = Len(s) - 1
         /\ \A j \in 1 .. Len(s) - 1 :
              RemoveAt(s, i)[j] = s[IF j < i THEN j ELSE j + 1]
<1>. DEFINE left == SubSeq(s, 1, i - 1)
            right == SubSeq(s, i + 1, Len(s))
<1>1. Len(s) \in Nat /\ \A j \in 1 .. Len(s) : s[j] \in S
  BY LenProperties, ElementOfSeq
<1>2. /\ left \in Seq(S) /\ Len(left) = i - 1
      /\ \A j \in 1 .. i - 1 : left[j] = s[j]
  <2>1. \A j \in 1 .. i - 1 : s[j] \in S
    BY <1>1
  <2>2. 1 \in Int /\ i - 1 \in Int
    BY <1>1
  <2>3. /\ left \in Seq(S)
        /\ Len(left) = IF 1 <= i - 1 THEN (i - 1) - 1 + 1 ELSE 0
        /\ \A j \in 1 .. (i - 1) - 1 + 1 : left[j] = s[1 + j - 1]
    BY <2>1, <2>2, SubSeqProperties
  <2>. QED
    BY <2>3, <1>1
<1>3. /\ right \in Seq(S) /\ Len(right) = Len(s) - i
      /\ \A j \in 1 .. Len(s) - i : right[j] = s[i + j]
  <2>1. \A j \in i + 1 .. Len(s) : s[j] \in S
    BY <1>1
  <2>2. i + 1 \in Int /\ Len(s) \in Int
    BY <1>1
  <2>3. /\ right \in Seq(S)
        /\ Len(right) = IF i + 1 <= Len(s) THEN Len(s) - (i + 1) + 1 ELSE 0
        /\ \A j \in 1 .. Len(s) - (i + 1) + 1 : right[j] = s[(i + 1) + j - 1]
    BY <2>1, <2>2, SubSeqProperties
  <2>. QED
    BY <2>3, <1>1
<1>4. RemoveAt(s, i) = left \o right
  BY DEF RemoveAt
<1>5. /\ left \o right \in Seq(S)
      /\ Len(left \o right) = Len(left) + Len(right)
      /\ \A j \in 1 .. Len(left) + Len(right) : (left \o right)[j] =
           IF j <= Len(left) THEN left[j] ELSE right[j - Len(left)]
  BY <1>2, <1>3, ConcatProperties
<1>. HIDE DEF left, right
<1>6. Len(left) + Len(right) = Len(s) - 1
  BY <1>1, <1>2, <1>3
<1>7. ASSUME NEW j \in 1 .. Len(s) - 1
      PROVE  (left \o right)[j] = s[IF j < i THEN j ELSE j + 1]
  <2>1. CASE j < i
    <3>1. j \in 1 .. i - 1 /\ j <= Len(left)
      BY <2>1, <1>1, <1>2
    <3>2. (left \o right)[j] = left[j]
      BY <3>1, <1>5, <1>6
    <3>. QED
      BY <3>1, <3>2, <1>2, <2>1
  <2>2. CASE ~(j < i)
    <3>1. j - (i - 1) \in 1 .. Len(s) - i /\ ~(j <= Len(left))
      BY <2>2, <1>1, <1>2
    <3>2. (left \o right)[j] = right[j - (i - 1)]
      BY <3>1, <1>2, <1>5, <1>6
    <3>3. right[j - (i - 1)] = s[i + (j - (i - 1))]
      BY <3>1, <1>3
    <3>4. i + (j - (i - 1)) = j + 1
      BY <1>1
    <3>. QED
      BY <3>2, <3>3, <3>4, <2>2
  <2>. QED
    BY <2>1, <2>2
<1>. QED
  BY <1>4, <1>5, <1>6, <1>7

\* Where the elements of a prolonged sequence are.
LEMMA AppendFacts ==
  ASSUME NEW S, NEW s \in Seq(S), NEW e \in S
  PROVE  /\ Append(s, e) \in Seq(S)
         /\ Len(s) \in Nat /\ DOMAIN s = 1 .. Len(s)
         /\ Len(Append(s, e)) = Len(s) + 1
         /\ DOMAIN Append(s, e) = 1 .. Len(s) + 1
         /\ \A i \in 1 .. Len(s) : Append(s, e)[i] = s[i] /\ s[i] \in S
         /\ Append(s, e)[Len(s) + 1] = e
  BY AppendProperties, LenProperties, ElementOfSeq

-----------------------------------------------------------------------------
(* Type correctness.                                                       *)

Application == [by : Parties, at : 0 .. MaxTime]

\* A ticket's history, and what its length and its elements are.
LEMMA HistoryType ==
  ASSUME TypeOK, NEW t \in Tickets
  PROVE  /\ history[t] \in Seq(Application)
         /\ Len(history[t]) \in Nat
         /\ DOMAIN history[t] = 1 .. Len(history[t])
         /\ \A i \in 1 .. Len(history[t]) :
              /\ history[t][i] \in Application
              /\ history[t][i].by \in Parties /\ history[t][i].at \in Nat
         /\ history[t] # <<>> <=> Len(history[t]) > 0
<1>1. history[t] \in Seq(Application)
  BY DEF TypeOK, Application
<1>2. \A i \in 1 .. Len(history[t]) : history[t][i] \in Application
  BY <1>1, ElementOfSeq
<1>3. \A e \in Application : e.by \in Parties /\ e.at \in Nat
  BY GrantsAssumption DEF Application
<1>. QED
  BY <1>1, <1>2, <1>3, LenProperties, EmptySeq

\* What the listing has collected.
LEMMA ListType ==
  ASSUME TypeOK
  PROVE  /\ list \in Seq(Entry)
         /\ Len(list) \in Nat
         /\ DOMAIN list = 1 .. Len(list)
         /\ \A i \in 1 .. Len(list) :
              /\ list[i] \in Entry
              /\ list[i].id \in Tickets
              /\ list[i].ready \in BOOLEAN /\ list[i].busy \in BOOLEAN
<1>1. list \in Seq(Entry)
  BY DEF TypeOK
<1>2. \A i \in 1 .. Len(list) : list[i] \in Entry
  BY <1>1, ElementOfSeq
<1>3. \A e \in Entry : e.id \in Tickets /\ e.ready \in BOOLEAN /\ e.busy \in BOOLEAN
  BY DEF Entry
<1>. QED
  BY <1>1, <1>2, <1>3, LenProperties

\* What a page adds to the list.
LEMMA SnapshotType ==
  ASSUME NEW t \in Tickets
  PROVE  Snapshot(t) \in Entry
  BY DEF Snapshot, Entry

\* The end of a tick is in the types.
LEMMA NoTickType ==
  ASSUME NoTick
  PROVE  /\ pc' = "idle" /\ list' \in Seq(Entry) /\ list' = <<>>
         /\ unread' = {} /\ subject' = 0 /\ read' = 0 /\ upto' = 0
         /\ collected' = {} /\ grounded' = {}
         /\ granted' = {} /\ stayed' = {} /\ shifted' = FALSE
  BY EmptySeq DEF NoTick

\* Every initial state has the types.
LEMMA InitType ==
  ASSUME Init
  PROVE  TypeOK
<1>1. history \in [Tickets -> Seq(Application)]
  BY EmptySeq DEF Init
<1>2. list \in Seq(Entry)
  BY EmptySeq DEF Init
<1>3. open \subseteq Items
  BY DEF Init, Items
<1>4. now \in 0 .. MaxTime /\ moves \in 0 .. MaxMoves
  BY GrantsAssumption DEF Init
<1>. QED
  BY <1>1, <1>2, <1>3, <1>4 DEF Init, TypeOK, Application

\* The types of what the servers keep, and of what a tick keeps.
ServerType ==
  /\ tracker \in Trackers
  /\ open \subseteq Items /\ ready \subseteq Tickets
  /\ busy \subseteq Tickets /\ running \subseteq Tickets
  /\ history \in [Tickets -> Seq(Application)]
  /\ now \in 0 .. MaxTime
  /\ moves \in 0 .. MaxMoves

TickType ==
  /\ pc \in {"idle", "listing", "settling", "choosing", "labels", "history", "deciding"}
  /\ list \in Seq(Entry) /\ (pc = "idle" => list = <<>>)
  /\ subject \in Tickets \cup {0} /\ (pc \in {"labels", "history", "deciding"} => subject # 0)
  /\ read \in Nat /\ upto \in Nat
  /\ subject # 0 => upto <= Len(history[subject])
  /\ collected \subseteq Tickets /\ grounded \subseteq Tickets

\* Of what is relative to the tickets that are open.
WalkType ==
  /\ unread \subseteq open \cap Tickets
  /\ granted \subseteq Tickets /\ stayed \subseteq open \cap Tickets /\ shifted \in BOOLEAN

\* Together they are the types.
LEMMA TypeSplit ==
  /\ TypeOK <=> ServerType /\ TickType /\ WalkType
  /\ TypeOK' <=> ServerType' /\ TickType' /\ WalkType'
  BY DEF TypeOK, ServerType, TickType, WalkType, Application

\* A step that leaves the servers alone keeps their types.
LEMMA ServerFrame ==
  ASSUME TypeOK, UNCHANGED <<tracker, server>>,
         moves' = moves
  PROVE  ServerType'
  BY DEF TypeOK, ServerType, server, Items, Application

\* A step of the servers keeps the types of a tick: histories only grow.
LEMMA TickFrame ==
  ASSUME TypeOK, UNCHANGED <<pc, list, subject, read, upto, moved>>,
         \A t \in Tickets : Len(history'[t]) >= Len(history[t])
  PROVE  TickType'
<1>1. subject \in Tickets => Len(history[subject]) \in Nat /\ upto <= Len(history[subject])
  BY HistoryType, GrantsAssumption DEF TypeOK
<1>2. subject # 0 => upto <= Len(history'[subject])
  BY <1>1, HistoryType DEF TypeOK
<1>. QED
  BY <1>2 DEF TypeOK, TickType, moved

\* The end of a tick keeps the types.
LEMMA NoTickStep ==
  ASSUME TypeOK, NoTick
  PROVE  TickType' /\ WalkType'
  BY NoTickType DEF TickType, WalkType

\* The steps of the servers keep the types.
LEMMA OthersType ==
  ASSUME TypeOK, Others
  PROVE  TypeOK'
<1>0. /\ moves \in 0 .. MaxMoves
      /\ MaxMoves \in Nat /\ MaxTime \in Nat
  BY GrantsAssumption DEF TypeOK
<1>1. CASE Clock
  <2>1. now' \in 0 .. MaxTime
    BY <1>1, <1>0 DEF Clock, TypeOK
  <2>2. UNCHANGED <<tracker, open, ready, busy, running, history, moves>>
    BY <1>1 DEF Clock
  <2>3. UNCHANGED <<pc, list, unread, subject, read, upto, moved, granted, stayed, shifted>>
    BY <1>1 DEF Clock, tick, ghosts
  <2>4. ServerType'
    BY <2>1, <2>2 DEF TypeOK, ServerType, Items, Application
  <2>5. TickType'
    BY <2>2, <2>3, HistoryType, TickFrame
  <2>6. WalkType'
    BY <2>2, <2>3 DEF TypeOK, WalkType
  <2>. QED
    BY <2>4, <2>5, <2>6, TypeSplit
<1>2. ASSUME NEW t \in Tickets, NEW p \in Parties, Apply(t, p)
      PROVE  TypeOK'
  <2>. DEFINE e == [by |-> p, at |-> now]
  <2>1. e \in Application
    BY DEF TypeOK, Application
  <2>2. /\ Append(history[t], e) \in Seq(Application)
        /\ Len(Append(history[t], e)) = Len(history[t]) + 1
    BY <2>1, HistoryType, AppendFacts
  <2>3. history' = [history EXCEPT ![t] = Append(history[t], e)]
    BY <1>2 DEF Apply
  <2>. HIDE DEF e
  <2>4. history' \in [Tickets -> Seq(Application)]
    BY <2>2, <2>3 DEF TypeOK, Application
  <2>5. \A u \in Tickets : Len(history'[u]) >= Len(history[u])
    BY <2>2, <2>3, HistoryType DEF TypeOK
  <2>6. UNCHANGED <<tracker, open, busy, running, now, pc, list, subject, read, upto, moved,
                  shifted, moves>>
    BY <1>2 DEF Apply
  <2>7. ready' \subseteq Tickets
    BY <1>2 DEF Apply, TypeOK
  <2>8. ServerType'
    BY <2>4, <2>6, <2>7 DEF TypeOK, ServerType, Items
  <2>9. TickType'
    BY <2>5, <2>6, TickFrame
  <2>10. WalkType'
    BY <1>2, <2>6 DEF Apply, Touch, TypeOK, WalkType
  <2>. QED
    BY <2>8, <2>9, <2>10, TypeSplit
<1>3. ASSUME NEW t \in Tickets, Revoke(t) \/ HandBack(t)
      PROVE  TypeOK'
  <2>1. UNCHANGED <<tracker, open, running, history, now, pc, list, subject, read, upto, moved,
                  granted, shifted>>
    BY <1>3 DEF Revoke, HandBack
  <2>2. ready' \subseteq Tickets /\ busy' \subseteq Tickets
    BY <1>3 DEF Revoke, HandBack, TypeOK
  <2>3. moves' \in 0 .. MaxMoves
    BY <1>3, <1>0 DEF Revoke, HandBack, Move
  <2>4. ServerType'
    BY <2>1, <2>2, <2>3 DEF TypeOK, ServerType, Items, Application
  <2>5. TickType'
    BY <2>1, HistoryType, TickFrame
  <2>6. WalkType'
    BY <1>3, <2>1 DEF Revoke, HandBack, Touch, TypeOK, WalkType
  <2>. QED
    BY <2>4, <2>5, <2>6, TypeSplit
<1>4. ASSUME NEW t \in Items, Close(t) \/ Reopen(t)
      PROVE  TypeOK'
  <2>1. UNCHANGED <<tracker, ready, busy, running, history, now, pc, list, subject, read, upto,
                  moved, granted>>
    BY <1>4 DEF Close, Reopen, tick
  <2>2. open' \subseteq Items'
    BY <1>4 DEF Close, Reopen, TypeOK, Items
  <2>3. moves' \in 0 .. MaxMoves
    BY <1>4, <1>0 DEF Close, Reopen, Move
  <2>4. ServerType'
    BY <2>1, <2>2, <2>3 DEF TypeOK, ServerType, Application
  <2>5. TickType'
    BY <2>1, HistoryType, TickFrame
  <2>6. CASE Close(t)
    <3>1. unread' \subseteq open' \cap Tickets /\ stayed' \subseteq open' \cap Tickets
      <4>1. CASE tracker = "github"
        <5>1. t \in Nat /\ \A u \in {v \in stayed : v < t} : u # t
          BY GrantsAssumption DEF Items, TypeOK
        <5>. QED
          BY <4>1, <2>6, <5>1 DEF Close, TypeOK
      <4>2. CASE tracker # "github"
        BY <4>2, <2>6 DEF Close, TypeOK
      <4>. QED
        BY <4>1, <4>2
    <3>. QED
      BY <2>1, <2>6, <3>1, TypeSplit, <2>4, <2>5 DEF Close, WalkType
  <2>7. CASE Reopen(t)
    <3>1. WalkType'
      BY <2>1, <2>7 DEF Reopen, tick, TypeOK, WalkType
    <3>. QED
      BY <3>1, <2>4, <2>5, TypeSplit
  <2>. QED
    BY <1>4, <2>6, <2>7
<1>. QED
  BY <1>1, <1>2, <1>3, <1>4 DEF Others

\* The steps of the tick keep the types.
LEMMA RunnerType ==
  ASSUME TypeOK, ControlInv, Runner \/ RefuseWalk
  PROVE  TypeOK'
<1>0. /\ moves \in 0 .. MaxMoves
      /\ tracker \in Trackers
  BY GrantsAssumption DEF TypeOK
<1>1. CASE StartTick
  <2>1. ServerType'
    BY <1>1, <1>0, ServerFrame DEF StartTick
  <2>2. UNCHANGED <<open, history, list, subject, read, upto, moved, shifted>> /\ pc' = "listing"
    BY <1>1 DEF StartTick, server
  <2>3. TickType'
    BY <2>2 DEF TypeOK, TickType, moved
  <2>4. WalkType'
    BY <1>1, <2>2 DEF StartTick, TypeOK, WalkType
  <2>. QED
    BY <2>1, <2>3, <2>4, TypeSplit
<1>2. CASE ListGitHub \/ ListLinear
  <2>1. ServerType'
    BY <1>2, <1>0, ServerFrame DEF ListGitHub, ListLinear
  <2>2. /\ UNCHANGED <<open, history, subject, upto, moved, granted, shifted>>
        /\ pc' \in {"listing", "settling"}
    BY <1>2 DEF ListGitHub, ListLinear, server
  <2>3. list' \in Seq(Entry)
    <3>1. list' = list \/ \E t \in Tickets : list' = Append(list, Snapshot(t))
      BY <1>2 DEF ListGitHub, ListLinear, TypeOK
    <3>. QED
      BY <3>1, ListType, SnapshotType, AppendFacts
  <2>4. read' \in Nat
    BY <1>2 DEF ListGitHub, ListLinear, TypeOK
  <2>5. TickType'
    BY <2>2, <2>3, <2>4 DEF TypeOK, TickType, moved
  <2>6. unread' \subseteq unread /\ stayed' \subseteq stayed
    BY <1>2 DEF ListGitHub, ListLinear, Listed
  <2>7. WalkType'
    BY <2>2, <2>6 DEF TypeOK, WalkType
  <2>. QED
    BY <2>1, <2>5, <2>7, TypeSplit
<1>3. CASE Choose
  <2>1. ServerType'
    BY <1>3, <1>0, ServerFrame DEF Choose
  <2>2. PICK i \in 1 .. Len(list) : subject' = list[i].id /\ list' = RemoveAt(list, i)
    BY <1>3, ListType DEF Choose, Candidates
  <2>3. list' \in Seq(Entry) /\ subject' \in Tickets
    BY <2>2, ListType, RemoveAtProperties
  <2>4. /\ upto' = 0 /\ UNCHANGED <<open, history, unread, read, moved, granted, stayed, shifted>>
        /\ pc' \in {"labels", "history"}
    BY <1>3 DEF Choose, ControlInv, server, ghosts
  <2>5. Len(history[subject']) \in Nat /\ subject' # 0
    BY <2>3, HistoryType, GrantsAssumption
  <2>6. TickType'
    BY <2>3, <2>4, <2>5 DEF TypeOK, TickType, moved
  <2>7. WalkType'
    BY <2>4 DEF TypeOK, WalkType
  <2>. QED
    BY <2>1, <2>6, <2>7, TypeSplit
<1>4. CASE EndTick \/ RefuseTie \/ RefuseWalk
  <2>2. ServerType'
    BY <1>4, ServerFrame DEF EndTick, RefuseTie, RefuseWalk
  <2>3. TickType' /\ WalkType'
    BY <1>4, NoTickStep DEF EndTick, RefuseTie, RefuseWalk
  <2>. QED
    BY <2>2, <2>3, TypeSplit
<1>5. CASE AskLabel \/ Decline \/ HoldBack \/ Dispatch
  <2>1. UNCHANGED <<tracker, open, ready, history, now, list, unread, moved,
                    granted, stayed, shifted, moves>>
    BY <1>5 DEF AskLabel, Decline, HoldBack, Dispatch, Checked, server, ghosts
  <2>2. busy' \subseteq Tickets /\ running' \subseteq Tickets
    <3>1. CASE Dispatch
      <4>1. subject \in Tickets
        BY <3>1 DEF Dispatch, TypeOK
      <4>. QED
        BY <3>1, <4>1 DEF Dispatch, Moved, TypeOK
    <3>2. CASE AskLabel \/ Decline \/ HoldBack
      BY <3>2 DEF AskLabel, Decline, HoldBack, server, TypeOK
    <3>. QED
      BY <1>5, <3>1, <3>2
  <2>3. ServerType'
    BY <2>1, <2>2 DEF TypeOK, ServerType, Items, Application
  <2>4. \/ pc' = "history" /\ UNCHANGED <<subject, read, upto>> /\ pc = "labels"
        \/ pc' = "choosing" /\ subject' = 0 /\ read' = 0 /\ upto' = 0
    BY <1>5 DEF AskLabel, Decline, HoldBack, Dispatch, Checked
  <2>5. TickType'
    BY <2>1, <2>4 DEF TypeOK, TickType, moved
  <2>6. WalkType'
    BY <2>1 DEF TypeOK, WalkType
  <2>. QED
    BY <2>3, <2>5, <2>6, TypeSplit
<1>6. CASE ReadHistory
  <2>1. ServerType'
    BY <1>6, <1>0, ServerFrame DEF ReadHistory
  <2>2. /\ UNCHANGED <<open, history, list, unread, subject, moved, granted, stayed, shifted>>
        /\ pc' \in {"history", "deciding"}
    BY <1>6 DEF ReadHistory, server, ghosts
  <2>3. subject \in Tickets /\ subject # 0 /\ upto \in Nat /\ upto <= Len(history[subject])
    BY <1>6 DEF ReadHistory, TypeOK
  <2>4. upto' \in Nat /\ upto' <= Len(history[subject])
    BY <1>6, <2>3, HistoryType DEF ReadHistory
  <2>5. read' \in Nat
    BY <1>6 DEF ReadHistory, TypeOK
  <2>6. TickType'
    BY <2>2, <2>3, <2>4, <2>5 DEF TypeOK, TickType, moved
  <2>7. WalkType'
    BY <2>2 DEF TypeOK, WalkType
  <2>. QED
    BY <2>1, <2>6, <2>7, TypeSplit
<1>7. CASE Settle
  <2>1. /\ UNCHANGED <<tracker, open, ready, history, now, list, unread, subject, read, upto,
                       granted, stayed, shifted, moves>>
        /\ pc = "settling" /\ pc' = "choosing"
    BY <1>7 DEF Settle, ghosts
  <2>2. PICK done \in SUBSET running, lost \in SUBSET running, rest \in SUBSET running :
        \E review \in SUBSET (done \ lost) :
          /\ running' = rest /\ collected' = done /\ grounded' = lost
          /\ busy' = Moved(review, (done \cup lost) \ review)
    BY <1>7 DEF Settle
  <2>3. /\ busy' \subseteq Tickets /\ running' \subseteq Tickets
        /\ collected' \subseteq Tickets /\ grounded' \subseteq Tickets
    BY <2>2 DEF Moved, TypeOK
  <2>4. ServerType'
    BY <2>1, <2>3 DEF TypeOK, ServerType, Items, Application
  <2>5. TickType'
    BY <2>1, <2>3 DEF TypeOK, TickType
  <2>6. WalkType'
    BY <2>1 DEF TypeOK, WalkType
  <2>. QED
    BY <2>4, <2>5, <2>6, TypeSplit
<1>. QED
  BY <1>1, <1>2, <1>3, <1>4, <1>5, <1>6, <1>7 DEF Runner

\* A step that changes nothing keeps the types.
LEMMA StutterType ==
  ASSUME TypeOK, UNCHANGED vars
  PROVE  TypeOK'
  BY DEF TypeOK, Items, vars, server, tick, moved, ghosts

-----------------------------------------------------------------------------
(* The invariant holds initially, and its parts that concern one actor.    *)

\* Every initial state satisfies the invariant.
LEMMA InitInv ==
  ASSUME Init
  PROVE  IInv
<1>1. TypeOK
  BY InitType
<1>2. ControlInv
  BY DEF Init, ControlInv
<1>3. DOMAIN list = {} /\ Ids = {} /\ \A t \in Tickets : history[t] = <<>> /\ DOMAIN history[t] = {}
  BY DEF Init, Ids
<1>4. ServerInv
  BY <1>3 DEF Init, ServerInv
<1>5. GrantInv
  BY <1>3 DEF Init, GrantInv
<1>6. AheadInv
  BY <1>3 DEF Init, AheadInv
<1>7. OnceInv
  BY <1>3 DEF Init, OnceInv, Known
<1>8. AskedIdle
  BY DEF Init, AskedIdle
<1>. QED
  BY <1>1, <1>2, <1>4, <1>5, <1>6, <1>7, <1>8 DEF IInv

\* A step of the servers leaves the tick where it is.
LEMMA OthersTick ==
  ASSUME Others
  PROVE  UNCHANGED <<tracker, pc, list, subject, read, upto, moved>>
<1>1. CASE Clock
  BY <1>1 DEF Clock, tick
<1>2. ASSUME NEW t \in Tickets, NEW p \in Parties, Apply(t, p)
      PROVE  UNCHANGED <<tracker, pc, list, subject, read, upto, moved>>
  BY <1>2 DEF Apply
<1>3. ASSUME NEW t \in Tickets, Revoke(t) \/ HandBack(t)
      PROVE  UNCHANGED <<tracker, pc, list, subject, read, upto, moved>>
  BY <1>3 DEF Revoke, HandBack
<1>4. ASSUME NEW t \in Items, Close(t) \/ Reopen(t)
      PROVE  UNCHANGED <<tracker, pc, list, subject, read, upto, moved>>
  BY <1>4 DEF Close, Reopen, tick
<1>. QED
  BY <1>1, <1>2, <1>3, <1>4 DEF Others

\* What a walk reads is forgotten where the walk ends.
LEMMA ControlStep ==
  ASSUME TypeOK, ControlInv, [Next]_vars
  PROVE  ControlInv'
<1>1. CASE Others \/ UNCHANGED vars
  BY <1>1, OthersTick DEF ControlInv, vars, tick, moved
<1>2. CASE StartTick
  BY <1>2 DEF StartTick, ControlInv, moved
<1>3. CASE ListGitHub \/ ListLinear
  BY <1>3 DEF ListGitHub, ListLinear, ControlInv, moved
<1>4. CASE Choose \/ Settle
  BY <1>4 DEF Choose, Settle, ControlInv, moved
<1>5. CASE EndTick \/ RefuseTie \/ RefuseWalk
  BY <1>5 DEF EndTick, RefuseTie, RefuseWalk, NoTick, ControlInv
<1>6. CASE AskLabel \/ Decline \/ HoldBack \/ Dispatch
  BY <1>6 DEF AskLabel, Decline, HoldBack, Dispatch, Checked, ControlInv, moved
<1>7. CASE ReadHistory
  BY <1>7 DEF ReadHistory, ControlInv, moved
<1>. QED
  BY <1>1, <1>2, <1>3, <1>4, <1>5, <1>6, <1>7 DEF Next, Runner

\* The tick only reads the servers, except for the states and jobs it moves.
LEMMA RunnerServer ==
  ASSUME Runner \/ RefuseWalk
  PROVE  UNCHANGED <<tracker, open, ready, history, now>>
  BY DEF Runner, RefuseWalk, StartTick, ListGitHub, ListLinear, Settle, Choose, EndTick,
         AskLabel, ReadHistory, Dispatch, HoldBack, Decline, RefuseTie, server

\* The servers append in the order of their clock and label what they record.
LEMMA ServerStep ==
  ASSUME TypeOK, ServerInv, [Next]_vars
  PROVE  ServerInv'
<1>1. CASE UNCHANGED <<history, now>> /\ ready' \subseteq ready
  BY <1>1 DEF ServerInv
<1>2. CASE Clock
  <2>1. /\ UNCHANGED <<history, ready>> /\ now' = now + 1
        /\ now \in Int
    BY <1>2, GrantsAssumption DEF Clock, TypeOK
  <2>2. \A t \in Tickets : \A i \in DOMAIN history[t] : history[t][i].at \in Int
    BY HistoryType
  <2>3. \A t \in Tickets : \A i \in DOMAIN history[t] : history[t][i].at <= now + 1
    BY <2>1, <2>2 DEF ServerInv
  <2>. QED
    BY <2>1, <2>3 DEF ServerInv
<1>3. ASSUME NEW t \in Tickets, NEW p \in Parties, Apply(t, p)
      PROVE  ServerInv'
  <2>. DEFINE e == [by |-> p, at |-> now]
  <2>1. e \in Application /\ e.at = now /\ now \in Nat
    BY GrantsAssumption DEF TypeOK, Application
  <2>2. history' = [history EXCEPT ![t] = Append(history[t], e)]
        /\ ready' = ready \cup {t} /\ now' = now
    BY <1>3 DEF Apply
  <2>3. history[t] \in Seq(Application) /\ Len(history[t]) \in Nat
        /\ \A i \in 1 .. Len(history[t]) : history[t][i].at \in Nat /\ history[t][i].at <= now
    BY HistoryType DEF ServerInv
  <2>. DEFINE n == Len(history[t])
              new == Append(history[t], e)
  <2>4. /\ DOMAIN new = 1 .. n + 1 /\ Len(new) = n + 1
        /\ \A i \in 1 .. n : new[i] = history[t][i]
        /\ new[n + 1] = e
    BY <2>1, <2>3, AppendFacts
  <2>. HIDE DEF e, new
  <2>5. \A i \in DOMAIN new : i \in 1 .. n \/ i = n + 1
    BY <2>3, <2>4
  <2>6. \A i \in DOMAIN new : new[i].at <= now
    BY <2>1, <2>3, <2>4, <2>5
  <2>7. \A i, j \in DOMAIN new : i <= j => new[i].at <= new[j].at
    <3>1. SUFFICES ASSUME NEW i \in DOMAIN new, NEW j \in DOMAIN new, i <= j
                   PROVE  new[i].at <= new[j].at
      OBVIOUS
    <3>2. CASE j = n + 1
      BY <3>2, <2>1, <2>4, <2>6
    <3>3. CASE j \in 1 .. n
      <4>1. i \in 1 .. n
        BY <3>1, <3>3, <2>3, <2>5
      <4>. QED
        BY <4>1, <3>1, <3>3, <2>4, HistoryType DEF ServerInv
    <3>. QED
      BY <3>2, <3>3, <2>5
  <2>8. new # <<>>
    BY <2>4, <2>3, EmptySeq
  <2>9. history'[t] = new /\ \A u \in Tickets \ {t} : history'[u] = history[u]
    BY <2>2 DEF new, TypeOK
  <2>10. ASSUME NEW u \in Tickets
         PROVE  /\ \A i, j \in DOMAIN history'[u] : i <= j => history'[u][i].at <= history'[u][j].at
                /\ \A i \in DOMAIN history'[u] : history'[u][i].at <= now'
                /\ u \in ready' => history'[u] # <<>>
    <3>1. CASE u = t
      BY <3>1, <2>2, <2>6, <2>7, <2>8, <2>9
    <3>2. CASE u # t
      BY <3>2, <2>2, <2>9 DEF ServerInv
    <3>. QED
      BY <3>1, <3>2
  <2>. QED
    BY <2>10 DEF ServerInv
<1>4. ASSUME NEW t \in Tickets, Revoke(t) \/ HandBack(t)
      PROVE  ServerInv'
  BY <1>1, <1>4 DEF Revoke, HandBack
<1>5. ASSUME NEW t \in Items, Close(t) \/ Reopen(t)
      PROVE  ServerInv'
  BY <1>1, <1>5 DEF Close, Reopen
<1>6. CASE Runner \/ RefuseWalk \/ UNCHANGED vars
  BY <1>1, <1>6, RunnerServer DEF vars, server
<1>. QED
  BY <1>2, <1>3, <1>4, <1>5, <1>6 DEF Next, Others

-----------------------------------------------------------------------------
(* What the walks have seen of a grant is not older than the tick.         *)

\* Histories only grow at their end, and a human who applies the label, or a
\* label that is on again, is a grant of this tick.
LEMMA OthersGrant ==
  ASSUME TypeOK, Others
  PROVE  /\ granted \subseteq granted'
         /\ \A t \in Tickets :
              /\ Len(history[t]) \in Nat /\ Len(history'[t]) \in Nat
              /\ Len(history[t]) <= Len(history'[t])
              /\ \A i \in 1 .. Len(history[t]) : history'[t][i] = history[t][i]
              /\ \A i \in 1 .. Len(history'[t]) :
                   i > Len(history[t]) /\ history'[t][i].by \in Humans => t \in granted'
              /\ t \in ready' => t \in ready \/ Len(history'[t]) = Len(history[t]) + 1
<1>. DEFINE Grown(t) ==
              /\ Len(history[t]) \in Nat /\ Len(history'[t]) \in Nat
              /\ Len(history[t]) <= Len(history'[t])
              /\ \A i \in 1 .. Len(history[t]) : history'[t][i] = history[t][i]
              /\ \A i \in 1 .. Len(history'[t]) :
                   i > Len(history[t]) /\ history'[t][i].by \in Humans => t \in granted'
              /\ t \in ready' => t \in ready \/ Len(history'[t]) = Len(history[t]) + 1
<1>1. ASSUME NEW t \in Tickets, history'[t] = history[t], t \in ready' => t \in ready
      PROVE  Grown(t)
  BY <1>1, HistoryType
<1>2. CASE UNCHANGED <<history, granted>> /\ ready' \subseteq ready
  BY <1>1, <1>2
<1>3. ASSUME NEW t \in Tickets, NEW p \in Parties, Apply(t, p)
      PROVE  granted \subseteq granted' /\ \A u \in Tickets : Grown(u)
  <2>. DEFINE e == [by |-> p, at |-> now]
              n == Len(history[t])
              new == Append(history[t], e)
  <2>1. e \in Application /\ e.by = p
    BY DEF TypeOK, Application
  <2>2. history[t] \in Seq(Application) /\ n \in Nat
    BY HistoryType
  <2>3. /\ Len(new) = n + 1 /\ new[n + 1] = e
        /\ \A i \in 1 .. n : new[i] = history[t][i]
    BY <2>1, <2>2, AppendFacts
  <2>4. /\ history' = [history EXCEPT ![t] = new]
        /\ ready' = ready \cup {t}
        /\ granted' = IF p \in Humans THEN granted \cup {t} ELSE granted
    BY <1>3 DEF Apply
  <2>5. history'[t] = new /\ \A u \in Tickets \ {t} : history'[u] = history[u]
    BY <2>4 DEF TypeOK
  <2>. HIDE DEF e, new
  <2>6. Grown(t)
    <3>1. \A i \in 1 .. n + 1 : i > n => i = n + 1
      BY <2>2
    <3>2. \A i \in 1 .. Len(history'[t]) :
            i > n /\ history'[t][i].by \in Humans => t \in granted'
      BY <3>1, <2>1, <2>3, <2>4, <2>5
    <3>. QED
      BY <3>2, <2>2, <2>3, <2>5
  <2>7. ASSUME NEW u \in Tickets, u # t
        PROVE  Grown(u)
    BY <1>1, <2>4, <2>5, <2>7
  <2>. QED
    BY <2>4, <2>6, <2>7
<1>4. ASSUME NEW t \in Tickets, Revoke(t) \/ HandBack(t)
      PROVE  UNCHANGED <<history, granted>> /\ ready' \subseteq ready
  BY <1>4 DEF Revoke, HandBack
<1>5. ASSUME NEW t \in Items, Close(t) \/ Reopen(t)
      PROVE  UNCHANGED <<history, granted>> /\ ready' \subseteq ready
  BY <1>5 DEF Close, Reopen
<1>6. CASE Clock
  BY <1>2, <1>6 DEF Clock, ghosts
<1>. QED
  BY <1>2, <1>3, <1>4, <1>5, <1>6 DEF Others

\* What has stood, or was carried, in this tick still is.
LEMMA OthersStood ==
  ASSUME TypeOK, Others, NEW t \in Tickets
  PROVE  /\ \A n \in Nat \ {0} : Stood(t, n) => Stood(t, n)'
         /\ Carried(t) => Carried(t)'
         /\ (Granted(t) => t \in granted) => (Granted(t)' => t \in granted')
<1>. DEFINE old == Len(history[t])
            len == Len(history'[t])
<1>1. /\ granted \subseteq granted' /\ old \in Nat /\ len \in Nat /\ old <= len
      /\ \A i \in 1 .. old : history'[t][i] = history[t][i]
      /\ \A i \in 1 .. len : i > old /\ history'[t][i].by \in Humans => t \in granted'
      /\ t \in ready' => t \in ready \/ len = old + 1
  BY OthersGrant
<1>2. history[t] # <<>> <=> old > 0
  BY HistoryType
<1>3. history'[t] # <<>> <=> len > 0
  <2>1. history'[t] \in Seq(Application)
    <3>1. TypeOK'
      BY OthersType
    <3>. QED
      BY <3>1 DEF TypeOK, Application
  <2>. QED
    BY <2>1, EmptySeq, LenProperties
<1>. HIDE DEF old, len
<1>4. ASSUME NEW n \in Nat \ {0}, \A i \in n .. old : history[t][i].by \in Humans => t \in granted,
             NEW i \in n .. len, history'[t][i].by \in Humans
      PROVE  t \in granted'
  <2>1. CASE i <= old
    <3>1. i \in 1 .. old /\ i \in n .. old
      BY <2>1, <1>1
    <3>. QED
      BY <3>1, <1>1, <1>4
  <2>2. CASE i > old
    <3>1. i \in 1 .. len
      BY <1>1
    <3>. QED
      BY <2>2, <3>1, <1>1, <1>4
  <2>. QED
    BY <2>1, <2>2, <1>1
<1>5. \A n \in Nat \ {0} : Stood(t, n) => Stood(t, n)'
  BY <1>4 DEF Stood, old, len
<1>6. Carried(t) => Carried(t)'
  <2>1. SUFFICES ASSUME Carried(t)
                 PROVE  Carried(t)'
    OBVIOUS
  <2>2. old > 0 /\ Stood(t, old)
    BY <2>1, <1>2 DEF Carried, old
  <2>3. len > 0 /\ \A i \in len .. len : i \in old .. len
    BY <2>2, <1>1
  <2>4. Stood(t, old)'
    BY <2>2, <1>1, <1>5, <1>4 DEF Stood, old, len
  <2>. QED
    BY <2>2, <2>3, <1>1, <1>3, <1>4 DEF Carried, Stood, old, len
<1>7. ASSUME Granted(t) => t \in granted, Granted(t)'
      PROVE  t \in granted'
  <2>1. t \in ready' /\ len > 0 /\ history'[t][len].by \in Humans
    BY <1>3, <1>7 DEF Granted, Last, len
  <2>2. CASE len > old
    <3>1. len \in 1 .. len
      BY <1>1, <2>1
    <3>. QED
      BY <2>1, <2>2, <3>1, <1>1
  <2>3. CASE len = old
    <3>1. t \in ready /\ old \in 1 .. old
      BY <2>1, <2>3, <1>1
    <3>2. history[t][old].by \in Humans
      BY <2>1, <2>3, <3>1, <1>1
    <3>3. Granted(t)
      BY <3>1, <3>2, <2>1, <2>3, <1>2 DEF Granted, Last, old
    <3>. QED
      BY <3>3, <1>7, <1>1
  <2>. QED
    BY <2>2, <2>3, <1>1
<1>. QED
  BY <1>5, <1>6, <1>7

\* A label found on a ticket while the tick is under way was carried in it.
LEMMA ReadyCarried ==
  ASSUME TypeOK, ServerInv, GrantInv, pc # "idle", NEW t \in Tickets, t \in ready
  PROVE  Carried(t)
<1>. DEFINE n == Len(history[t])
<1>1. history[t] # <<>> /\ n \in Nat /\ n > 0
  BY HistoryType DEF ServerInv
<1>2. history[t][n].by \in Humans => t \in granted
  BY <1>1 DEF GrantInv, Granted, Last
<1>3. \A i \in n .. n : i = n
  BY <1>1
<1>. QED
  BY <1>1, <1>2, <1>3 DEF Carried, Stood

\* A step of the tick that keeps its history keeps what was carried.
LEMMA GrantFrame ==
  ASSUME UNCHANGED <<history, ready, granted>>
  PROVE  \A t : /\ Carried(t)' <=> Carried(t)
                /\ Granted(t)' <=> Granted(t)
                /\ \A n : Stood(t, n)' <=> Stood(t, n)
  BY DEF Carried, Granted, Stood

\* Every step keeps what is known of the grants.
LEMMA GrantStep ==
  ASSUME TypeOK, ControlInv, ServerInv, GrantInv, [Next]_vars
  PROVE  GrantInv'
<1>0. /\ Len(list) \in Nat /\ DOMAIN list = 1 .. Len(list)
      /\ \A i \in DOMAIN list : list[i].id \in Tickets
  BY ListType
<1>1. CASE Others
  <2>1. UNCHANGED <<pc, list, subject, read, upto>>
    BY <1>1, OthersTick
  <2>2. pc' # "idle" => \A t \in Tickets : Granted(t)' => t \in granted'
    BY <1>1, <2>1, OthersStood DEF GrantInv
  <2>3. \A t \in Tickets :
          /\ Carried(t) => Carried(t)'
          /\ \A n \in Nat \ {0} : Stood(t, n) => Stood(t, n)'
    BY <1>1, OthersStood
  <2>4. \A i \in DOMAIN list' : list'[i].ready =>
          list'[i].id \in Tickets /\ Carried(list[i].id)
    BY <1>0, <2>1 DEF GrantInv
  <2>5. \A i \in DOMAIN list' : list'[i].ready => Carried(list[i].id)'
    BY <2>3, <2>4, <2>1
  <2>6. subject # 0 => subject \in Tickets /\ Carried(subject)
    BY DEF TypeOK, GrantInv
  <2>7. subject' # 0 => Carried(subject)'
    BY <2>1, <2>3, <2>6
  <2>8. subject # 0 /\ upto > 0 => upto \in Nat \ {0} /\ Stood(subject, upto)
    BY DEF TypeOK, GrantInv
  <2>9. subject' # 0 /\ upto' > 0 => Stood(subject, upto)'
    BY <2>1, <2>3, <2>6, <2>8
  <2>10. pc' = "deciding" \/ (pc' = "history" /\ read' > 0) => upto' > 0
    BY <2>1 DEF GrantInv
  <2>. QED
    BY <2>2, <2>5, <2>7, <2>9, <2>10 DEF GrantInv
<1>2. CASE StartTick
  <2>1. /\ UNCHANGED <<ready, history, list, subject, read, upto>>
        /\ pc' = "listing" /\ granted' = {t \in Tickets : Granted(t)}
    BY <1>2 DEF StartTick, server
  <2>2. DOMAIN list' = {} /\ subject' = 0
    BY <1>2, <2>1 DEF StartTick, TypeOK, ControlInv
  <2>3. \A t : Granted(t)' <=> Granted(t)
    BY <2>1 DEF Granted
  <2>. QED
    BY <2>1, <2>2, <2>3 DEF GrantInv
<1>3. CASE ListGitHub \/ ListLinear
  <2>1. /\ UNCHANGED <<ready, history, subject, upto, granted>>
        /\ pc' \in {"listing", "settling"} /\ pc = "listing"
    BY <1>3 DEF ListGitHub, ListLinear, server
  <2>2. list' = list \/ \E t \in Tickets : list' = Append(list, Snapshot(t))
    BY <1>3 DEF ListGitHub, ListLinear, TypeOK
  <2>3. \A i \in DOMAIN list' : list'[i].ready => Carried(list'[i].id)
    <3>1. CASE list' = list
      BY <3>1 DEF GrantInv
    <3>2. ASSUME NEW t \in Tickets, list' = Append(list, Snapshot(t))
          PROVE  \A i \in DOMAIN list' : list'[i].ready => Carried(list'[i].id)
      <4>1. /\ DOMAIN list' = 1 .. Len(list) + 1
            /\ \A i \in DOMAIN list : list'[i] = list[i]
            /\ list'[Len(list) + 1] = Snapshot(t)
        BY <3>2, ListType, SnapshotType, AppendFacts
      <4>2. Snapshot(t).ready => Carried(Snapshot(t).id)
        BY <2>1, ReadyCarried DEF Snapshot
      <4>3. \A i \in DOMAIN list' : i \in DOMAIN list \/ i = Len(list) + 1
        BY <1>0, <4>1
      <4>. QED
        BY <4>1, <4>2, <4>3 DEF GrantInv
    <3>. QED
      BY <2>2, <3>1, <3>2
  <2>. QED
    BY <2>1, <2>3, GrantFrame DEF GrantInv
<1>4. CASE Choose
  <2>1. /\ UNCHANGED <<ready, history, upto, read, granted>>
        /\ pc' \in {"labels", "history"} /\ upto = 0 /\ read = 0 /\ pc # "idle"
    BY <1>4 DEF Choose, server, ghosts, ControlInv
  <2>2. PICK i \in 1 .. Len(list) :
          /\ list[i].ready /\ subject' = list[i].id /\ list' = RemoveAt(list, i)
    BY <1>4, <1>0 DEF Choose, Candidates, Dispatchable
  <2>3. \A j \in DOMAIN list' : \E k \in DOMAIN list : list'[j] = list[k]
    <3>1. /\ list' \in Seq(Entry) /\ Len(list') = Len(list) - 1
          /\ \A j \in 1 .. Len(list) - 1 : list'[j] = list[IF j < i THEN j ELSE j + 1]
      BY <2>2, ListType, RemoveAtProperties
    <3>2. DOMAIN list' = 1 .. Len(list) - 1
      BY <3>1, LenProperties
    <3>. QED
      BY <3>1, <3>2, <1>0
  <2>4. Carried(subject') /\ \A j \in DOMAIN list' : list'[j].ready => Carried(list'[j].id)
    BY <2>2, <2>3, <1>0 DEF GrantInv
  <2>. QED
    BY <2>1, <2>4, GrantFrame DEF GrantInv
<1>5. CASE EndTick \/ RefuseTie \/ RefuseWalk
  <2>1. pc' = "idle" /\ DOMAIN list' = {} /\ subject' = 0 /\ upto' = 0
    BY <1>5 DEF EndTick, RefuseTie, RefuseWalk, NoTick
  <2>. QED
    BY <2>1 DEF GrantInv
<1>6. CASE AskLabel \/ Decline \/ HoldBack \/ Dispatch
  <2>1. UNCHANGED <<ready, history, list, granted>> /\ pc # "idle"
    BY <1>6 DEF AskLabel, Decline, HoldBack, Dispatch, Checked, server, ghosts
  <2>2. \/ pc' = "history" /\ UNCHANGED <<subject, read, upto>> /\ pc = "labels"
        \/ pc' = "choosing" /\ subject' = 0 /\ read' = 0 /\ upto' = 0
    BY <1>6 DEF AskLabel, Decline, HoldBack, Dispatch, Checked
  <2>. QED
    BY <2>1, <2>2, GrantFrame DEF GrantInv, ControlInv
<1>7. CASE ReadHistory
  <2>1. /\ UNCHANGED <<ready, history, list, subject, granted>>
        /\ pc' \in {"history", "deciding"} /\ pc = "history"
        /\ read' = read + 1
    BY <1>7 DEF ReadHistory, server, ghosts
  <2>2. subject \in Tickets /\ subject # 0 /\ Carried(subject)
    BY <2>1 DEF TypeOK, GrantInv
  <2>3. (upto' = upto /\ read > 0) \/ upto' = Len(history[subject])
    BY <1>7 DEF ReadHistory
  <2>4. Len(history[subject]) > 0 /\ Stood(subject, Len(history[subject]))
    BY <2>2, HistoryType DEF Carried
  <2>5. upto' > 0 /\ Stood(subject, upto')
    BY <2>1, <2>2, <2>3, <2>4 DEF GrantInv
  <2>. QED
    BY <2>1, <2>2, <2>5, GrantFrame DEF GrantInv
<1>8. CASE UNCHANGED vars
  <2>1. UNCHANGED <<ready, history, granted, pc, list, subject, read, upto>>
    BY <1>8 DEF vars, server, tick, ghosts
  <2>. QED
    BY <2>1, GrantFrame DEF GrantInv
<1>9. CASE Settle
  <2>1. /\ UNCHANGED <<ready, history, granted, list, subject, read, upto>>
        /\ pc = "settling" /\ pc' = "choosing"
    BY <1>9 DEF Settle, ghosts
  <2>. QED
    BY <2>1, GrantFrame DEF GrantInv
<1>. QED
  BY <1>1, <1>2, <1>3, <1>4, <1>5, <1>6, <1>7, <1>8, <1>9 DEF Next, Runner

\* What a dispatch sets in progress had a human's grant standing in this tick:
\* the last application the walk covers is among the newest, so it names the
\* human, and it or a later one stood when the walk fixed what it covers.
LEMMA DispatchGranted ==
  ASSUME TypeOK, ServerInv, GrantInv, Dispatch
  PROVE  subject \in granted
<1>1. subject \in Tickets /\ subject # 0 /\ upto \in Nat /\ upto > 0
      /\ upto <= Len(history[subject]) /\ Stood(subject, upto)
  BY DEF Dispatch, TypeOK, GrantInv
<1>2. PICK h \in Humans : Contenders(Seen) = {h}
  BY DEF Dispatch, ByHuman
<1>3. /\ Len(history[subject]) \in Nat /\ DOMAIN history[subject] = 1 .. Len(history[subject])
      /\ \A i \in 1 .. Len(history[subject]) : history[subject][i] \in Application
  BY <1>1, HistoryType
<1>4. /\ Seen \in Seq(Application) /\ Len(Seen) = upto
      /\ \A i \in 1 .. upto : Seen[i] = history[subject][i]
  <2>1. \A i \in 1 .. upto : history[subject][i] \in Application
    BY <1>1, <1>3
  <2>2. 1 \in Int /\ upto \in Int
    BY <1>1
  <2>3. /\ Seen \in Seq(Application)
        /\ Len(Seen) = IF 1 <= upto THEN upto - 1 + 1 ELSE 0
        /\ \A i \in 1 .. upto - 1 + 1 : Seen[i] = history[subject][1 + i - 1]
    BY <2>1, <2>2, SubSeqProperties DEF Seen
  <2>. QED
    BY <2>3, <1>1
<1>5. DOMAIN Seen = 1 .. upto
  BY <1>4, LenProperties
<1>6. upto \in Newest(Seen)
  <2>1. \A j \in 1 .. upto : history[subject][j].at <= history[subject][upto].at
    BY <1>1, <1>3 DEF ServerInv
  <2>2. upto \in 1 .. upto
    BY <1>1
  <2>. QED
    BY <2>1, <2>2, <1>4, <1>5 DEF Newest
<1>7. Seen[upto].by = h
  BY <1>2, <1>6 DEF Contenders
<1>8. upto \in 1 .. upto /\ upto \in upto .. Len(history[subject])
  BY <1>1, <1>3
<1>. QED
  BY <1>1, <1>4, <1>7, <1>8 DEF Stood

-----------------------------------------------------------------------------
(* Pages: the rank of an issue among those that are open.                  *)

\* Whatever is open can be counted, and is a number.
LEMMA OpenFinite ==
  ASSUME TypeOK
  PROVE  /\ \A S \in SUBSET open : IsFiniteSet(S) /\ Cardinality(S) \in Nat
         /\ open \subseteq Nat \ {0}
<1>1. open \subseteq Tickets \cup PullRequests
  BY DEF TypeOK, Items
<1>2. IsFiniteSet(Tickets \cup PullRequests)
  BY GrantsAssumption, FS_Union
<1>3. \A S \in SUBSET open : IsFiniteSet(S)
  <2>1. SUFFICES ASSUME NEW S \in SUBSET open
                 PROVE  IsFiniteSet(S)
    OBVIOUS
  <2>2. S \in SUBSET (Tickets \cup PullRequests)
    BY <1>1
  <2>. QED
    BY <2>2, <1>2, FS_Subset
<1>. QED
  BY <1>1, <1>3, FS_CardinalityType, GrantsAssumption

UpTo(t) == {u \in open : u <= t}

\* An issue that is open counts itself on top of those before it.
LEMMA UpToCount ==
  ASSUME TypeOK, NEW t \in open
  PROVE  Cardinality(UpTo(t)) = Cardinality(Before(t)) + 1
<1>1. UpTo(t) = Before(t) \cup {t} /\ t \notin Before(t)
  <2>1. \A u \in open : u \in Nat
    BY OpenFinite
  <2>2. \A u \in open : u <= t <=> u < t \/ u = t
    BY <2>1
  <2>3. ~(t < t)
    BY <2>1
  <2>. QED
    BY <2>2, <2>3 DEF UpTo, Before
<1>2. IsFiniteSet(Before(t))
  BY OpenFinite DEF Before
<1>. QED
  BY <1>1, <1>2, FS_AddElement

\* Of two open issues the later one has more before it.
LEMMA RankIncreases ==
  ASSUME TypeOK, NEW t \in open, NEW u \in open, t < u
  PROVE  Cardinality(Before(t)) < Cardinality(Before(u))
<1>1. UpTo(t) \in SUBSET Before(u) /\ Before(u) \in SUBSET open /\ Before(t) \in SUBSET open
  <2>1. \A v \in open : v \in Nat
    BY OpenFinite
  <2>2. \A v \in open : v <= t => v < u
    BY <2>1
  <2>. QED
    BY <2>2 DEF UpTo, Before
<1>2. Cardinality(UpTo(t)) <= Cardinality(Before(u))
  BY <1>1, OpenFinite, FS_Subset
<1>3. Cardinality(Before(t)) \in Nat /\ Cardinality(Before(u)) \in Nat
  BY <1>1, OpenFinite
<1>. QED
  BY <1>2, <1>3, UpToCount

\* A page holds one issue.
LEMMA OnePerPage ==
  ASSUME TypeOK, NEW t \in open, NEW u \in open, Cardinality(Before(t)) = Cardinality(Before(u))
  PROVE  t = u
<1>1. t \in Nat /\ u \in Nat
  BY OpenFinite
<1>2. Before(t) \in SUBSET open
  BY DEF Before
<1>3. Cardinality(Before(t)) \in Nat
  BY <1>2, OpenFinite
<1>4. ~(t < u) /\ ~(u < t)
  BY <1>3, RankIncreases
<1>. QED
  BY <1>1, <1>4

\* The list with one more entry.
LEMMA IdsAppend ==
  ASSUME TypeOK, NEW t \in Tickets, list' = Append(list, Snapshot(t))
  PROVE  /\ Ids' = Ids \cup {t}
         /\ DOMAIN list' = DOMAIN list \cup {Len(list) + 1}
         /\ \A i \in DOMAIN list : list'[i] = list[i]
         /\ list'[Len(list) + 1] = Snapshot(t)
<1>1. /\ DOMAIN list = 1 .. Len(list) /\ Len(list) \in Nat
      /\ DOMAIN list' = 1 .. Len(list) + 1
      /\ \A i \in 1 .. Len(list) : list'[i] = list[i]
      /\ list'[Len(list) + 1] = Snapshot(t)
  BY ListType, SnapshotType, AppendFacts
<1>2. DOMAIN list' = DOMAIN list \cup {Len(list) + 1}
  BY <1>1
<1>3. Snapshot(t).id = t
  BY DEF Snapshot
<1>. QED
  BY <1>1, <1>2, <1>3 DEF Ids

\* The list without the entry that is chosen.
LEMMA IdsRemove ==
  ASSUME TypeOK, NEW i \in DOMAIN list, list' = RemoveAt(list, i)
  PROVE  \A j, k \in DOMAIN list' :
           \E m, n \in DOMAIN list : /\ list'[j] = list[m] /\ list'[k] = list[n]
                                     /\ m # i /\ n # i
                                     /\ m = n => j = k
<1>1. Len(list) \in Nat /\ DOMAIN list = 1 .. Len(list)
  BY ListType
<1>2. /\ list' \in Seq(Entry) /\ Len(list') = Len(list) - 1
      /\ \A j \in 1 .. Len(list) - 1 : list'[j] = list[IF j < i THEN j ELSE j + 1]
  BY <1>1, ListType, RemoveAtProperties
<1>3. DOMAIN list' = 1 .. Len(list) - 1
  BY <1>2, LenProperties
<1>4. SUFFICES ASSUME NEW j \in DOMAIN list', NEW k \in DOMAIN list'
               PROVE  \E m, n \in DOMAIN list : /\ list'[j] = list[m] /\ list'[k] = list[n]
                                                /\ m # i /\ n # i
                                                /\ m = n => j = k
  OBVIOUS
<1>. DEFINE from(x) == IF x < i THEN x ELSE x + 1
<1>5. from(j) \in DOMAIN list /\ from(k) \in DOMAIN list /\ from(j) # i /\ from(k) # i
      /\ (from(j) = from(k) => j = k)
  BY <1>1, <1>3
<1>6. list'[j] = list[from(j)] /\ list'[k] = list[from(k)]
  BY <1>2, <1>3
<1>. HIDE DEF from
<1>. QED
  BY <1>5, <1>6

-----------------------------------------------------------------------------
(* What a listing may not miss.                                            *)

\* A page of GitHub's that has been read leaves what stayed put on a later one,
\* if it is not listed yet.
LEMMA PageRead ==
  ASSUME TypeOK, AheadInv, ListGitHub, NEW t \in stayed, t \notin Ids'
  PROVE  Cardinality(Before(t)) >= read + 1
<1>1. t \in open \cap Tickets /\ tracker = "github" /\ read \in Nat
  BY DEF TypeOK, ListGitHub
<1>2. Before(t) \in SUBSET open
  BY DEF Before
<1>3. Cardinality(Before(t)) \in Nat
  BY <1>2, OpenFinite
<1>4. Ids \subseteq Ids'
  <2>1. ASSUME NEW u \in Tickets, list' = Append(list, Snapshot(u))
        PROVE  Ids \subseteq Ids'
    BY <2>1, IdsAppend
  <2>2. CASE list' = list
    BY <2>2 DEF Ids
  <2>. QED
    BY <2>1, <2>2 DEF ListGitHub
<1>5. Cardinality(Before(t)) >= read
  BY <1>1, <1>4 DEF AheadInv
<1>6. ASSUME Cardinality(Before(t)) = read
      PROVE  FALSE
  <2>1. t \in OnPage(read + 1) \cap Tickets
    BY <1>1, <1>6 DEF OnPage
  <2>2. PICK u \in OnPage(read + 1) \cap Tickets : list' = Append(list, Snapshot(u))
    BY <2>1 DEF ListGitHub
  <2>3. u \in open /\ Cardinality(Before(u)) = read
    BY <2>2, <1>1 DEF OnPage
  <2>4. u = t
    BY <1>1, <1>6, <2>3, OnePerPage
  <2>. QED
    BY <2>2, <2>4, IdsAppend
<1>. QED
  BY <1>1, <1>3, <1>5, <1>6

\* The steps of the servers keep what stayed put ahead of the listing.
LEMMA OthersAhead ==
  ASSUME TypeOK, AheadInv, Others
  PROVE  AheadInv'
<1>1. UNCHANGED <<tracker, pc, list, read>> /\ Ids' = Ids
  BY OthersTick DEF Ids
<1>2. CASE UNCHANGED <<open, unread, stayed>>
  <2>1. \A t : Before(t)' = Before(t)
    BY <1>2 DEF Before
  <2>. QED
    BY <1>1, <1>2, <2>1 DEF AheadInv
<1>3. ASSUME NEW t \in Tickets, Touch(t), open' = open
      PROVE  AheadInv'
  <2>1. CASE tracker = "linear"
    BY <1>1, <1>3, <2>1 DEF Touch, AheadInv
  <2>. QED
    BY <1>2, <1>3, <2>1 DEF Touch
<1>4. ASSUME NEW t \in Items, Close(t)
      PROVE  AheadInv'
  <2>1. CASE tracker = "github"
    <3>1. /\ open' = open \ {t} /\ stayed' = {u \in stayed : u < t} /\ unread' = unread \ {t}
      BY <1>4, <2>1 DEF Close
    <3>2. \A u \in open : u \in Nat
      BY OpenFinite
    <3>3. \A u \in stayed' : Before(u)' = Before(u)
      <4>1. SUFFICES ASSUME NEW u \in stayed'
                     PROVE  {v \in open \ {t} : v < u} = {v \in open : v < u}
        BY <3>1 DEF Before
      <4>2. u < t /\ u \in Nat /\ t \in Nat
        BY <3>1, <3>2, <1>4 DEF TypeOK, Close
      <4>3. ~(t < u)
        BY <4>2
      <4>. QED
        BY <4>3
    <3>4. \A u \in stayed' \ Ids : Cardinality(Before(u)) >= read
      BY <2>1, <3>1 DEF AheadInv
    <3>5. \A u \in stayed' \ Ids' : Cardinality(Before(u)') >= read'
      BY <1>1, <3>3, <3>4
    <3>. QED
      BY <1>1, <2>1, <3>1, <3>5 DEF AheadInv
  <2>2. CASE tracker = "linear"
    BY <1>1, <1>4, <2>2 DEF Close, AheadInv
  <2>. QED
    BY <2>1, <2>2, GrantsAssumption DEF TypeOK
<1>5. ASSUME NEW t \in Items, Reopen(t)
      PROVE  AheadInv'
  <2>1. open' = open \cup {t} /\ UNCHANGED <<unread, stayed>>
    BY <1>5 DEF Reopen, tick
  <2>2. TypeOK'
    BY OthersType
  <2>3. ASSUME NEW u \in stayed
        PROVE  Cardinality(Before(u)) <= Cardinality(Before(u)') /\ Cardinality(Before(u)) \in Nat
               /\ Cardinality(Before(u)') \in Nat
    <3>1. Before(u) \in SUBSET Before(u)' /\ Before(u)' \in SUBSET open' /\ Before(u) \in SUBSET open
      BY <2>1 DEF Before
    <3>2. IsFiniteSet(Before(u)') /\ Cardinality(Before(u)') \in Nat
      <4>1. open' \subseteq Tickets \cup PullRequests
        BY <2>2 DEF TypeOK, Items
      <4>2. Before(u)' \in SUBSET (Tickets \cup PullRequests)
        BY <4>1, <3>1
      <4>3. IsFiniteSet(Tickets \cup PullRequests)
        BY GrantsAssumption, FS_Union
      <4>. QED
        BY <4>2, <4>3, FS_Subset, FS_CardinalityType
    <3>. QED
      BY <3>1, <3>2, OpenFinite, FS_Subset
  <2>4. \A u \in stayed \ Ids : tracker = "github" => Cardinality(Before(u)') >= read
    <3>1. read \in Nat
      BY DEF TypeOK
    <3>. QED
      BY <3>1, <2>3 DEF AheadInv
  <2>5. \A u \in stayed' \ Ids' : tracker' = "github" => Cardinality(Before(u)') >= read'
    BY <1>1, <2>1, <2>4
  <2>. QED
    BY <1>1, <2>1, <2>5 DEF AheadInv
<1>. QED
  BY <1>2, <1>3, <1>4, <1>5 DEF Others, Clock, Apply, Revoke, HandBack, tick, ghosts

\* Every step keeps what stayed put ahead of the listing.
LEMMA AheadStep ==
  ASSUME TypeOK, ControlInv, AheadInv, [Next]_vars
  PROVE  AheadInv'
<1>1. CASE Others
  BY <1>1, OthersAhead
<1>2. CASE StartTick
  <2>1. /\ UNCHANGED <<tracker, open, list, read>> /\ pc' = "listing"
        /\ unread' = (IF tracker = "linear" THEN open \cap Tickets ELSE {})
        /\ stayed' = open \cap Tickets
    BY <1>2 DEF StartTick, server
  <2>2. read = 0
    BY <1>2 DEF StartTick, ControlInv
  <2>3. \A t : Before(t)' = Before(t) /\ Before(t) \in SUBSET open
    BY <2>1 DEF Before
  <2>4. \A t : Cardinality(Before(t)') \in Nat
    BY <2>3, OpenFinite
  <2>5. \A t \in stayed' \ Ids' : Cardinality(Before(t)') >= read'
    BY <2>1, <2>2, <2>4
  <2>. QED
    BY <2>1, <2>5 DEF AheadInv
<1>3. CASE ListGitHub
  <2>1. UNCHANGED <<tracker, open, unread>> /\ tracker = "github" /\ pc' \in {"listing", "settling"}
    BY <1>3 DEF ListGitHub, server
  <2>2. CASE pc' = "listing"
    <3>1. stayed' = stayed /\ read' = read + 1
      BY <1>3, <2>2 DEF ListGitHub, Listed
    <3>2. \A t : Before(t)' = Before(t)
      BY <2>1 DEF Before
    <3>3. \A t \in stayed' \ Ids' : Cardinality(Before(t)') >= read'
      BY <1>3, <3>1, <3>2, PageRead
    <3>. QED
      BY <2>1, <2>2, <3>3 DEF AheadInv
  <2>3. CASE pc' # "listing"
    <3>1. stayed' = {}
      BY <1>3, <2>3 DEF ListGitHub, Listed
    <3>. QED
      BY <2>1, <3>1 DEF AheadInv
  <2>. QED
    BY <2>2, <2>3
<1>4. CASE ListLinear
  <2>1. tracker' = tracker /\ tracker = "linear"
    BY <1>4 DEF ListLinear
  <2>2. Ids \cup unread = Ids' \cup unread'
    <3>1. ASSUME NEW t \in unread, list' = Append(list, Snapshot(t)), unread' = unread \ {t}
          PROVE  Ids \cup unread = Ids' \cup unread'
      <4>1. t \in Tickets
        BY DEF TypeOK
      <4>. QED
        BY <3>1, <4>1, IdsAppend
    <3>2. CASE UNCHANGED <<list, unread>>
      BY <3>2 DEF Ids
    <3>. QED
      BY <1>4, <3>1, <3>2 DEF ListLinear
  <2>3. stayed' \subseteq stayed /\ (pc' # "listing" => stayed' = {})
    BY <1>4 DEF ListLinear, Listed
  <2>. QED
    BY <2>1, <2>2, <2>3 DEF AheadInv
<1>5. CASE Settle \/ Choose \/ AskLabel \/ ReadHistory \/ Dispatch \/ HoldBack \/ Decline
  <2>1. stayed = {} /\ stayed' = {} /\ pc' # "listing" /\ UNCHANGED <<tracker, unread>>
    BY <1>5 DEF AheadInv, Settle, Choose, AskLabel, ReadHistory, Dispatch, HoldBack, Decline,
                Checked, ghosts
  <2>. QED
    BY <2>1 DEF AheadInv
<1>6. CASE EndTick \/ RefuseTie \/ RefuseWalk
  <2>1. stayed' = {} /\ unread' = {}
    BY <1>6 DEF EndTick, RefuseTie, RefuseWalk, NoTick
  <2>. QED
    BY <2>1 DEF AheadInv
<1>7. CASE UNCHANGED vars
  <2>1. UNCHANGED <<tracker, open, pc, list, unread, read, stayed>>
    BY <1>7 DEF vars, server, tick, ghosts
  <2>2. Ids' = Ids /\ \A t : Before(t)' = Before(t)
    BY <2>1 DEF Ids, Before
  <2>. QED
    BY <2>1, <2>2 DEF AheadInv
<1>. QED
  BY <1>1, <1>2, <1>3, <1>4, <1>5, <1>6, <1>7 DEF Next, Runner

\* A listing that ends has what stayed put: on GitHub an issue that is not on the
\* list would stand behind the last page, on Linear the cursor has met it.
LEMMA ListedWhole ==
  ASSUME TypeOK, AheadInv, ListGitHub \/ ListLinear, pc' = "settling"
  PROVE  stayed \subseteq Ids'
<1>1. SUFFICES ASSUME NEW t \in stayed, t \notin Ids'
               PROVE  FALSE
  OBVIOUS
<1>2. CASE ListGitHub
  <2>1. Cardinality(Before(t)) >= read + 1
    BY <1>1, <1>2, PageRead
  <2>2. ~(read + 1 < Cardinality(open))
    BY <1>2 DEF ListGitHub
  <2>3. t \in open /\ UpTo(t) \in SUBSET open /\ Before(t) \in SUBSET open
    BY DEF TypeOK, UpTo, Before
  <2>4. Cardinality(UpTo(t)) <= Cardinality(open)
    BY <2>3, OpenFinite, FS_Subset
  <2>5. Cardinality(Before(t)) \in Nat /\ Cardinality(open) \in Nat /\ read \in Nat
    BY <2>3, OpenFinite DEF TypeOK
  <2>. QED
    BY <2>1, <2>2, <2>3, <2>4, <2>5, UpToCount
<1>3. CASE ListLinear
  <2>1. unread' = {} /\ tracker = "linear"
    BY <1>3 DEF ListLinear
  <2>2. CASE UNCHANGED <<list, unread>>
    BY <1>1, <2>1, <2>2 DEF AheadInv, Ids
  <2>3. ASSUME NEW u \in unread, list' = Append(list, Snapshot(u)), unread' = unread \ {u}
        PROVE  FALSE
    <3>1. Ids' = Ids \cup {u}
      BY <2>3, IdsAppend DEF TypeOK
    <3>. QED
      BY <1>1, <2>1, <2>3, <3>1 DEF AheadInv
  <2>. QED
    BY <1>3, <2>2, <2>3 DEF ListLinear
<1>. QED
  BY <1>2, <1>3

-----------------------------------------------------------------------------
(* Nothing is asked about twice.                                           *)

\* As long as no page moved back, a page holds nothing that is listed already.
LEMMA PageIsNew ==
  ASSUME TypeOK, OnceInv, ~shifted, ListGitHub, NEW t \in OnPage(read + 1) \cap Tickets
  PROVE  t \notin Ids /\ Cardinality(UpTo(t)) = read + 1
<1>1. t \in open /\ read \in Nat /\ Cardinality(Before(t)) = read
  BY DEF OnPage, TypeOK
<1>2. Cardinality(UpTo(t)) = read + 1
  BY <1>1, UpToCount
<1>3. t \in Ids => Cardinality(UpTo(t)) <= read
  BY DEF OnceInv, ListGitHub, UpTo
<1>. QED
  BY <1>1, <1>2, <1>3

\* An entry that is new to the list keeps it free of repetitions.
LEMMA OnceAppend ==
  ASSUME TypeOK, ControlInv, OnceInv, ~shifted, pc = "listing",
         NEW t \in Tickets, t \notin Ids, list' = Append(list, Snapshot(t)),
         UNCHANGED <<busy, subject, moved>>
  PROVE  /\ \A i, j \in DOMAIN list' : list'[i].id = list'[j].id => i = j
         /\ subject' \notin Ids'
         /\ Known'
<1>. DEFINE n == Len(list) + 1
<1>1. /\ Ids' = Ids \cup {t}
      /\ DOMAIN list' = DOMAIN list \cup {n}
      /\ \A i \in DOMAIN list : list'[i] = list[i]
      /\ list'[n] = Snapshot(t)
  BY IdsAppend
<1>2. Snapshot(t).id = t /\ (Snapshot(t).busy <=> t \in busy)
  BY DEF Snapshot
<1>3. \A i \in DOMAIN list : list[i].id # t
  BY DEF Ids
<1>. HIDE DEF n
<1>4. \A i, j \in DOMAIN list' : list'[i].id = list'[j].id => i = j
  BY <1>1, <1>2, <1>3 DEF OnceInv
<1>5. subject' \notin Ids'
  <2>1. subject = 0 /\ t # 0
    BY GrantsAssumption DEF ControlInv
  <2>. QED
    BY <1>1, <2>1 DEF OnceInv
<1>6. Known'
  BY <1>1, <1>2 DEF OnceInv, Known, moved
<1>. QED
  BY <1>4, <1>5, <1>6

\* The steps of the servers move no page back unseen.
LEMMA OthersOnce ==
  ASSUME TypeOK, OnceInv, Others, ~shifted'
  PROVE  /\ ~shifted /\ OnceInv'
<1>1. UNCHANGED <<tracker, pc, list, subject, read, collected, grounded>> /\ Ids' = Ids
  BY OthersTick DEF Ids, moved
<1>2. CASE ~shifted /\ busy' \subseteq busy /\ unread' \subseteq unread /\ open' \subseteq open
  <2>1. pc = "listing" /\ tracker = "github" =>
          \A t \in Ids : Cardinality({u \in open' : u <= t}) <= read
    <3>1. SUFFICES ASSUME pc = "listing", tracker = "github", NEW t \in Ids
                   PROVE  Cardinality({u \in open' : u <= t}) <= read
      OBVIOUS
    <3>. DEFINE old == {u \in open : u <= t}
                new == {u \in open' : u <= t}
    <3>2. old \in SUBSET open /\ new \in SUBSET old
      BY <1>2
    <3>3. /\ Cardinality(new) <= Cardinality(old)
          /\ Cardinality(new) \in Nat /\ Cardinality(old) \in Nat
      BY <3>2, OpenFinite, FS_Subset, FS_CardinalityType
    <3>4. Cardinality(old) <= read /\ read \in Nat
      BY <1>2, <3>1 DEF OnceInv, TypeOK
    <3>. HIDE DEF old, new
    <3>5. Cardinality(new) <= read
      BY <3>3, <3>4
    <3>. QED
      BY <3>5 DEF new
  <2>2. /\ \A i, j \in DOMAIN list' : list'[i].id = list'[j].id => i = j
        /\ subject' \notin Ids'
        /\ Known'
        /\ Ids' \cap unread' = {}
    BY <1>1, <1>2 DEF OnceInv, Known
  <2>. QED
    BY <1>1, <1>2, <2>1, <2>2 DEF OnceInv
<1>3. CASE Clock
  BY <1>2, <1>3 DEF Clock, tick, ghosts
<1>4. ASSUME NEW t \in Tickets, NEW p \in Parties, Apply(t, p)
      PROVE  ~shifted /\ OnceInv'
  BY <1>2, <1>4 DEF Apply, Touch
<1>5. ASSUME NEW t \in Tickets, Revoke(t) \/ HandBack(t)
      PROVE  ~shifted /\ OnceInv'
  BY <1>2, <1>5 DEF Revoke, HandBack, Touch
<1>6. ASSUME NEW t \in Items, Close(t)
      PROVE  ~shifted /\ OnceInv'
  BY <1>2, <1>6 DEF Close
<1>7. ASSUME NEW t \in Items, Reopen(t)
      PROVE  ~shifted /\ OnceInv'
  <2>1. ~shifted /\ ~(tracker = "github" /\ pc = "listing") /\ UNCHANGED <<busy, unread>>
    BY <1>7 DEF Reopen, tick, TypeOK
  <2>. QED
    BY <1>1, <2>1 DEF OnceInv, Known
<1>. QED
  BY <1>3, <1>4, <1>5, <1>6, <1>7 DEF Others

\* Every step keeps the list free of repetitions and of what has been dispatched.
LEMMA OnceStep ==
  ASSUME TypeOK, ControlInv, AheadInv, OnceInv, [Next]_vars
  PROVE  OnceInv'
<1>. SUFFICES ASSUME ~shifted'
              PROVE  OnceInv'
  BY DEF OnceInv
<1>0. Ids \subseteq Tickets /\ 0 \notin Tickets
  BY ListType, GrantsAssumption DEF Ids
<1>1. CASE Others
  BY <1>1, OthersOnce
<1>2. CASE StartTick \/ EndTick \/ RefuseTie \/ RefuseWalk
  <2>1. list' = <<>>
    BY <1>2 DEF StartTick, EndTick, RefuseTie, RefuseWalk, NoTick, TypeOK
  <2>2. DOMAIN list' = {} /\ Ids' = {}
    BY <2>1 DEF Ids
  <2>. QED
    BY <2>2 DEF OnceInv, Known
<1>3. CASE ListGitHub
  <2>1. /\ ~shifted /\ pc = "listing" /\ tracker = "github"
        /\ UNCHANGED <<tracker, open, busy, unread, subject, moved>>
        /\ unread = {}
        /\ pc' = "listing" => read' = read + 1
    BY <1>3 DEF ListGitHub, server, AheadInv
  <2>2. read \in Nat /\ \A t : UpTo(t)' = UpTo(t) /\ UpTo(t) \in SUBSET open
    BY <2>1 DEF UpTo, TypeOK
  <2>3. \A t : Cardinality(UpTo(t)) \in Nat
    BY <2>2, OpenFinite
  <2>4. \A t \in Ids : Cardinality(UpTo(t)) <= read
    BY <2>1 DEF OnceInv, UpTo
  <2>5. ASSUME NEW t \in OnPage(read + 1) \cap Tickets, list' = Append(list, Snapshot(t))
        PROVE  OnceInv'
    <3>1. t \notin Ids /\ Cardinality(UpTo(t)) = read + 1 /\ Ids' = Ids \cup {t}
      BY <1>3, <2>1, <2>5, PageIsNew, IdsAppend
    <3>2. /\ \A i, j \in DOMAIN list' : list'[i].id = list'[j].id => i = j
          /\ subject' \notin Ids'
          /\ Known'
      BY <2>1, <2>5, <3>1, OnceAppend
    <3>3. \A u \in Ids' : Cardinality(UpTo(u)) <= read + 1
      BY <2>2, <2>3, <2>4, <3>1
    <3>4. pc' = "listing" => \A u \in Ids' : Cardinality(UpTo(u)') <= read'
      BY <2>1, <2>2, <3>3
    <3>. QED
      BY <2>1, <3>2, <3>4 DEF OnceInv, UpTo
  <2>6. CASE list' = list
    <3>1. Ids' = Ids
      BY <2>6 DEF Ids
    <3>2. \A u \in Ids : Cardinality(UpTo(u)) <= read + 1
      BY <2>2, <2>3, <2>4
    <3>3. pc' = "listing" => \A u \in Ids' : Cardinality(UpTo(u)') <= read'
      BY <2>1, <2>2, <3>1, <3>2
    <3>4. /\ \A i, j \in DOMAIN list' : list'[i].id = list'[j].id => i = j
          /\ subject' \notin Ids'
          /\ Known'
      BY <2>1, <2>6, <3>1 DEF OnceInv, Known, moved
    <3>. QED
      BY <2>1, <3>1, <3>3, <3>4 DEF OnceInv, UpTo
  <2>. QED
    BY <1>3, <2>5, <2>6 DEF ListGitHub
<1>4. CASE ListLinear
  <2>1. /\ ~shifted /\ pc = "listing" /\ tracker' = "linear"
        /\ UNCHANGED <<busy, subject, moved>>
    BY <1>4 DEF ListLinear, server
  <2>2. ASSUME NEW t \in unread, list' = Append(list, Snapshot(t)), unread' = unread \ {t}
        PROVE  OnceInv'
    <3>1. t \in Tickets /\ t \notin Ids
      BY <2>1 DEF TypeOK, OnceInv
    <3>2. Ids' = Ids \cup {t}
      BY <2>2, <3>1, IdsAppend
    <3>3. Ids' \cap unread' = {}
      BY <2>1, <2>2, <3>2 DEF OnceInv
    <3>4. /\ \A i, j \in DOMAIN list' : list'[i].id = list'[j].id => i = j
          /\ subject' \notin Ids'
          /\ Known'
      BY <2>1, <2>2, <3>1, OnceAppend
    <3>. QED
      BY <2>1, <3>3, <3>4 DEF OnceInv
  <2>3. CASE UNCHANGED <<list, unread>>
    <3>1. Ids' = Ids
      BY <2>3 DEF Ids
    <3>. QED
      BY <2>1, <2>3, <3>1 DEF OnceInv, Known, moved
  <2>. QED
    BY <1>4, <2>2, <2>3 DEF ListLinear
<1>5. CASE Choose
  <2>1. /\ ~shifted /\ UNCHANGED <<busy, unread, moved>> /\ pc' # "listing"
    BY <1>5 DEF Choose, server, ghosts
  <2>2. PICK i \in DOMAIN list : subject' = list[i].id /\ list' = RemoveAt(list, i)
    BY <1>5 DEF Choose, Candidates
  <2>3. \A j, k \in DOMAIN list' :
          \E m, n \in DOMAIN list : /\ list'[j] = list[m] /\ list'[k] = list[n]
                                    /\ m # i /\ n # i
                                    /\ m = n => j = k
    BY <2>2, IdsRemove
  <2>4. \A j \in DOMAIN list' : \E m \in DOMAIN list : list'[j] = list[m] /\ m # i
    BY <2>3
  <2>5. Ids' \subseteq Ids
    BY <2>4 DEF Ids
  <2>6. \A j, k \in DOMAIN list' : list'[j].id = list'[k].id => j = k
    BY <2>1, <2>3 DEF OnceInv
  <2>7. subject' \notin Ids'
    <3>1. \A j \in DOMAIN list' : list'[j].id # list[i].id
      BY <2>1, <2>4 DEF OnceInv
    <3>. QED
      BY <2>2, <3>1 DEF Ids
  <2>8. Known'
    BY <2>1, <2>4 DEF OnceInv, Known, moved
  <2>9. Ids' \cap unread' = {}
    BY <2>1, <2>5 DEF OnceInv
  <2>. QED
    BY <2>1, <2>6, <2>7, <2>8, <2>9 DEF OnceInv
<1>6. CASE AskLabel \/ Decline \/ HoldBack \/ Dispatch \/ ReadHistory
  <2>1. ~shifted /\ UNCHANGED <<list, unread, moved>> /\ pc' # "listing" /\ Ids' = Ids
    BY <1>6 DEF AskLabel, Decline, HoldBack, Dispatch, ReadHistory, Checked, ghosts, Ids
  <2>2. subject' \in {subject, 0} /\ busy' \subseteq busy \cup {subject}
    BY <1>6 DEF AskLabel, Decline, HoldBack, Dispatch, ReadHistory, Checked, Moved, server
  <2>3. subject \notin Ids /\ \A i \in DOMAIN list : list[i].id # subject
    BY <2>1 DEF OnceInv, Ids
  <2>4. subject' \notin Ids'
    BY <1>0, <2>1, <2>2, <2>3
  <2>5. Known'
    BY <2>1, <2>2, <2>3 DEF OnceInv, Known, moved
  <2>. QED
    BY <2>1, <2>4, <2>5 DEF OnceInv
<1>7. CASE UNCHANGED vars
  <2>1. UNCHANGED <<tracker, open, busy, pc, list, unread, subject, read, moved, shifted>>
    BY <1>7 DEF vars, server, tick, ghosts
  <2>2. Ids' = Ids
    BY <2>1 DEF Ids
  <2>. QED
    BY <2>1, <2>2 DEF OnceInv, Known, moved
<1>8. CASE Settle
  <2>1. /\ ~shifted /\ UNCHANGED <<list, unread, subject>> /\ pc' # "listing" /\ Ids' = Ids
        /\ collected = {} /\ grounded = {}
    BY <1>8 DEF Settle, ghosts, ControlInv, Ids
  <2>2. busy' \subseteq busy \cup collected' \cup grounded'
    BY <1>8 DEF Settle, Moved
  <2>3. Known'
    BY <2>1, <2>2 DEF OnceInv, Known
  <2>. QED
    BY <2>1, <2>3 DEF OnceInv
<1>. QED
  BY <1>1, <1>2, <1>3, <1>4, <1>5, <1>6, <1>7, <1>8 DEF Next, Runner

\* Nobody asks about a ticket that the listing saw in progress, and no dispatch
\* of this tick is listed behind it: what is no longer idle, the tick has settled.
LEMMA AskedIdleStep ==
  ASSUME TypeOK, ControlInv, OnceInv, AskedIdle, [Next]_vars
  PROVE  AskedIdle'
<1>1. CASE Others
  <2>1. UNCHANGED <<pc, subject, collected, grounded>>
    BY <1>1, OthersTick DEF moved
  <2>2. busy' \subseteq busy
    BY <1>1 DEF Others, Clock, Apply, Revoke, HandBack, Close, Reopen
  <2>3. shifted => shifted'
    <3>1. CASE Clock
      BY <3>1 DEF Clock, ghosts
    <3>2. ASSUME NEW t \in Items, Reopen(t)
          PROVE  shifted => shifted'
      BY <3>2 DEF Reopen
    <3>3. ASSUME NEW t \in Items, Close(t)
          PROVE  shifted => shifted'
      BY <3>3 DEF Close
    <3>4. ASSUME NEW t \in Tickets, Revoke(t) \/ HandBack(t) \/ \E p \in Parties : Apply(t, p)
          PROVE  shifted => shifted'
      BY <3>4 DEF Revoke, HandBack, Apply
    <3>. QED
      BY <1>1, <3>1, <3>2, <3>3, <3>4 DEF Others
  <2>. QED
    BY <2>1, <2>2, <2>3 DEF AskedIdle
<1>2. CASE Choose
  <2>1. UNCHANGED <<busy, shifted, collected, grounded>>
    BY <1>2 DEF Choose, server, ghosts, moved
  <2>2. PICK i \in DOMAIN list : ~list[i].busy /\ subject' = list[i].id
    BY <1>2 DEF Choose, Candidates, Dispatchable
  <2>3. ~shifted /\ subject' \in busy => subject' \in collected \cup grounded
    BY <2>2 DEF OnceInv, Known
  <2>. QED
    BY <2>1, <2>3 DEF AskedIdle, TypeOK
<1>3. CASE AskLabel \/ ReadHistory
  <2>1. UNCHANGED <<busy, shifted, collected, grounded>> /\ pc \in {"labels", "history"}
    BY <1>3 DEF AskLabel, ReadHistory, Checked, server, ghosts, moved
  <2>2. pc' = "choosing" \/ subject' = subject
    BY <1>3 DEF AskLabel, ReadHistory, Checked
  <2>. QED
    BY <2>1, <2>2 DEF AskedIdle
<1>4. CASE StartTick \/ ListGitHub \/ ListLinear \/ Settle \/ EndTick \/ Dispatch
           \/ HoldBack \/ Decline \/ RefuseTie \/ RefuseWalk
  <2>1. pc' \in {"idle", "listing", "settling", "choosing"}
    BY <1>4 DEF StartTick, ListGitHub, ListLinear, Settle, EndTick, Dispatch, HoldBack,
                Decline, RefuseTie, RefuseWalk, NoTick, Checked
  <2>. QED
    BY <2>1 DEF AskedIdle
<1>5. CASE UNCHANGED vars
  BY <1>5 DEF vars, server, tick, ghosts, moved, AskedIdle
<1>. QED
  BY <1>1, <1>2, <1>3, <1>4, <1>5 DEF Next, Runner

-----------------------------------------------------------------------------
(* The theorems.                                                           *)

\* The invariant is inductive: no step of the servers, of the tick or of a walk
\* that is refused leaves it.
THEOREM InvariantStep ==
  ASSUME IInv, [Next]_vars
  PROVE  IInv'
<1>1. TypeOK'
  BY OthersType, RunnerType, StutterType DEF IInv, Next
<1>. QED
  BY <1>1, ControlStep, ServerStep, GrantStep, AheadStep, OnceStep, AskedIdleStep DEF IInv

\* The inductive invariant holds in every reachable state of the walks.
THEOREM Invariant == Spec => []IInv
<1>1. Init => IInv
  BY InitInv
<1>2. IInv /\ [Next]_vars => IInv'
  BY InvariantStep
<1>. QED
  BY <1>1, <1>2, PTL DEF Spec

\* Every variable of the walks has its type, and a tick that is over has left
\* nothing of what it had collected.
THEOREM TypeCorrect == Spec => []TypeOK
<1>1. IInv => TypeOK
  BY DEF IInv
<1>. QED
  BY <1>1, Invariant, PTL

\* A ticket that was put in progress, before a human or on a job since it was listed
\* is dispatched again only if GitHub's pages moved back under the listing, or if
\* it is this tick that collected the ticket's job.
THEOREM AskedOnce == Spec => DispatchedOnce
<1>. DEFINE Once == Dispatch /\ subject \in busy => shifted \/ subject \in collected
<1>1. ASSUME IInv
      PROVE  [Once]_vars
  BY <1>1 DEF IInv, AskedIdle, Dispatch
<1>2. IInv /\ [Next]_vars => [Once]_vars
  BY <1>1
<1>. QED
  BY <1>2, Invariant, PTL DEF Spec, DispatchedOnce

\* Whatever is dispatched had, at some instant of the same tick, the label on it
\* and a human as the last to have applied it.
THEOREM GrantStood == Spec => GrantStoodDuringTick
<1>. DEFINE Stands == Dispatch => subject \in granted
<1>1. ASSUME IInv
      PROVE  [Stands]_vars
  BY <1>1, DispatchGranted DEF IInv
<1>2. IInv /\ [Next]_vars => [Stands]_vars
  BY <1>1
<1>. QED
  BY <1>2, Invariant, PTL DEF Spec, GrantStoodDuringTick

\* A listing that returns has every ticket that stayed open and where it was.
THEOREM ListingWhole == Spec => ListingIsWhole
<1>. DEFINE Whole == pc = "listing" /\ pc' = "settling" =>
                       stayed \subseteq {list'[i].id : i \in DOMAIN list'}
<1>1. ASSUME IInv, [Next]_vars
      PROVE  [Whole]_vars
  <2>1. SUFFICES ASSUME Next, pc = "listing", pc' = "settling"
                 PROVE  stayed \subseteq {list'[i].id : i \in DOMAIN list'}
    BY <1>1
  <2>2. ~Others
    BY <2>1, OthersTick
  <2>3. ListGitHub \/ ListLinear
    BY <2>1, <2>2 DEF Next, Runner, StartTick, Settle, Choose, EndTick, AskLabel,
                      ReadHistory, Dispatch, HoldBack, Decline, RefuseTie, RefuseWalk, NoTick
  <2>. QED
    BY <1>1, <2>1, <2>3, ListedWhole DEF IInv, Ids
<1>2. IInv /\ [Next]_vars => [Whole]_vars
  BY <1>1
<1>. QED
  BY <1>2, Invariant, PTL DEF Spec, ListingIsWhole

=============================================================================
