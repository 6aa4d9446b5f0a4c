---------------------------- MODULE UsbHidProofs ----------------------------
(***************************************************************************)
(* Proofs about UsbHid, for every machine, key report and bound: the keys  *)
(* of a report reach the loop, addresses and contexts, and the data        *)
(* toggles.                                                                *)
(***************************************************************************)
EXTENDS UsbHid, FiniteSetTheorems, TLAPS

----------------------------------------------------------------------------
(* Keys.                                                                   *)

\* A finite sequence, whatever it holds.
IsSeq(s) == Len(s) \in Nat /\ s = [i \in 1 .. Len(s) |-> s[i]]

LEMMA SeqIs == ASSUME NEW S, NEW s \in Seq(S) PROVE IsSeq(s)
<1>1. Len(s) \in Nat /\ s \in [1 .. Len(s) -> S]
  OBVIOUS
<1> QED
  BY <1>1 DEF IsSeq

LEMMA SeqOf == ASSUME NEW n \in Nat, NEW f, f = [i \in 1 .. n |-> f[i]] PROVE IsSeq(f) /\ Len(f) = n /\ f \in Seq(Range(f))
<1>1. f \in [1 .. n -> Range(f)]
  BY DEF Range
<1>2. f \in Seq(Range(f))
  BY <1>1
<1>3. Len(f) = n
  BY <1>1, <1>2
<1> QED
  BY <1>2, <1>3 DEF IsSeq

LEMMA ConcatSeqs ==
    ASSUME NEW s, NEW t, IsSeq(s), IsSeq(t)
    PROVE  /\ IsSeq(s \o t) /\ Len(s \o t) = Len(s) + Len(t)
           /\ \A i \in 1 .. Len(t) : (s \o t)[Len(s) + i] = t[i]
<1> DEFINE S == Range(s) \cup Range(t)
<1>1. s \in [1 .. Len(s) -> S] /\ t \in [1 .. Len(t) -> S]
  BY DEF IsSeq, Range
<1>2. s \in Seq(S) /\ t \in Seq(S)
  BY <1>1 DEF IsSeq
<1> HIDE DEF S
<1>3. s \o t \in Seq(S) /\ Len(s \o t) = Len(s) + Len(t)
  BY <1>2
<1>4. \A i \in 1 .. Len(t) : (s \o t)[Len(s) + i] = t[i]
  BY <1>2
<1> QED
  BY <1>3, <1>4, SeqIs

\* A report names no more keys than the ring has room for.
LEMMA NewKeysFit ==
    ASSUME NEW rep \in Range(Reports) \cup {Zeros}
    PROVE  IsSeq(NewKeys(rep)) /\ Len(NewKeys(rep)) <= QCap - 1
<1>0. KeySlots \in Nat /\ QCap \in Nat /\ KeySlots < QCap
  BY QueueAssumption
<1>1. PICK n \in 0 .. KeySlots : DOMAIN rep.keys = 1 .. n
  <2>1. CASE rep \in Range(Reports)
    BY <2>1, QueueAssumption DEF Range
  <2>2. CASE rep = Zeros
    <3>1. DOMAIN rep.keys = 1 .. 0
      BY <2>2 DEF Zeros
    <3> QED
      BY <1>0, <3>1
  <2> QED
    BY <2>1, <2>2
<1> DEFINE c == Cardinality(FreshAt(rep))
<1>2. c \in Nat /\ c <= n
  <2>1. IsFiniteSet(1 .. n) /\ Cardinality(1 .. n) = n
    <3>1. 1 \in Int /\ n \in Int
      BY <1>0
    <3> QED
      BY <1>0, <3>1, FS_Interval
  <2>2. FreshAt(rep) \subseteq 1 .. n
    BY <1>1 DEF FreshAt
  <2>3. IsFiniteSet(FreshAt(rep)) /\ c <= n
    BY <2>1, <2>2, FS_Subset
  <2> QED
    BY <2>3, FS_CardinalityType
<1> DEFINE At(m) == CHOOSE i \in FreshAt(rep) : Cardinality({j \in FreshAt(rep) : j < i}) = m - 1
<1>a. NewKeys(rep) = [m \in 1 .. c |-> <<rep.keys[At(m)], rep.shift>>]
  BY DEF NewKeys
<1> HIDE DEF At
<1>3. NewKeys(rep) = [i \in 1 .. c |-> NewKeys(rep)[i]]
  BY <1>a
<1>4. IsSeq(NewKeys(rep)) /\ Len(NewKeys(rep)) = c
  BY <1>2, <1>3, SeqOf
<1> QED
  BY <1>0, <1>2, <1>4

KeyInv == IsSeq(news) /\ given \in Nat /\ given <= Len(news) /\ KeysReachLoop

LEMMA RestTail ==
    ASSUME NEW s, IsSeq(s), NEW g \in Nat, g < Len(s)
    PROVE  /\ SubSeq(s, g + 1, Len(s)) # <<>>
           /\ Tail(SubSeq(s, g + 1, Len(s))) = SubSeq(s, g + 2, Len(s))
<1> DEFINE n == Len(s)
           S == Range(s)
           r == SubSeq(s, g + 1, n)
           q == SubSeq(s, g + 2, n)
<1>1. s \in Seq(S) /\ n \in Nat
  BY SeqOf DEF IsSeq
<1> HIDE DEF S
<1>2. r \in Seq(S) /\ Len(r) = n - g /\ \A i \in 1 .. n - g : r[i] = s[g + i]
  BY <1>1
<1>3. q \in Seq(S) /\ Len(q) = n - g - 1 /\ \A i \in 1 .. n - g - 1 : q[i] = s[g + 1 + i]
  BY <1>1
<1> HIDE DEF n, r, q
<1>4. r # <<>>
  BY <1>1, <1>2 DEF n
<1>5. Tail(r) \in Seq(S) /\ Len(Tail(r)) = n - g - 1 /\ \A i \in 1 .. n - g - 1 : Tail(r)[i] = s[g + 1 + i]
  <2>1. Tail(r) \in Seq(S) /\ Len(Tail(r)) = n - g - 1
    BY <1>1, <1>2, <1>4
  <2>2. ASSUME NEW i \in 1 .. n - g - 1 PROVE Tail(r)[i] = s[g + 1 + i]
    <3>1. Tail(r)[i] = r[i + 1] /\ i + 1 \in 1 .. n - g /\ g + (i + 1) = g + 1 + i
      BY <1>1, <1>2, <1>4
    <3> QED
      BY <1>2, <3>1
  <2> QED
    BY <2>1, <2>2
<1>6. Tail(r) = q
  BY <1>3, <1>5
<1> QED
  BY <1>4, <1>6 DEF r, q, n

LEMMA RestAll ==
    ASSUME NEW s, IsSeq(s)
    PROVE  SubSeq(s, Len(s) + 1, Len(s)) = <<>>
<1>1. s \in Seq(Range(s)) /\ Len(s) \in Nat
  BY SeqOf DEF IsSeq
<1> QED
  BY <1>1

LEMMA RestConcat ==
    ASSUME NEW s, NEW t, IsSeq(s), IsSeq(t)
    PROVE  SubSeq(s \o t, Len(s) + 1, Len(s \o t)) = t
<1> DEFINE u == s \o t
           r == SubSeq(u, Len(s) + 1, Len(u))
           S == Range(u) \cup Range(t)
<1>1. IsSeq(u) /\ Len(u) = Len(s) + Len(t) /\ Len(s) \in Nat /\ Len(t) \in Nat
  BY ConcatSeqs DEF IsSeq
<1>2. u \in Seq(S) /\ t \in Seq(S)
  <2>1. u \in [1 .. Len(u) -> S] /\ t \in [1 .. Len(t) -> S]
    BY <1>1 DEF IsSeq, Range
  <2>2. Len(u) \in Nat
    BY <1>1
  <2> HIDE DEF u, S
  <2> QED
    BY <1>1, <2>1, <2>2
<1>3. \A i \in 1 .. Len(t) : u[Len(s) + i] = t[i]
  BY ConcatSeqs
<1> HIDE DEF u, S
<1>4. r \in Seq(S) /\ Len(r) = Len(t) /\ \A i \in 1 .. Len(t) : r[i] = u[Len(s) + i]
  BY <1>1, <1>2
<1> HIDE DEF r
<1>5. r = t
  BY <1>2, <1>3, <1>4
<1> QED
  BY <1>5 DEF r, u

\* All keys of a report fit the empty ring.
LEMMA PushedEmpty ==
    ASSUME NEW k, IsSeq(k), Len(k) <= QCap - 1
    PROVE  Pushed(<<>>, k) = k
<1>1. k \in Seq(Range(k)) /\ Len(k) \in Nat /\ QCap \in Nat
  BY SeqOf, QueueAssumption DEF IsSeq
<1>2. Pushed(<<>>, k) = <<>> \o SubSeq(k, 1, Len(k))
  BY <1>1 DEF Pushed
<1>3. SubSeq(k, 1, Len(k)) = k
  BY <1>1
<1> QED
  BY <1>1, <1>2, <1>3

LEMMA KeyStep == KeyInv /\ [Next]_vars => KeyInv'
<1> SUFFICES ASSUME KeyInv, [Next]_vars PROVE KeyInv'
  OBVIOUS
<1>0. IsSeq(news) /\ Len(news) \in Nat /\ given \in Nat /\ given <= Len(news) /\ SubSeq(news, given + 1, Len(news)) = queue
  BY DEF KeyInv, KeysReachLoop, IsSeq
<1>1. CASE UNCHANGED keyVars
  BY <1>1 DEF keyVars, KeyInv, KeysReachLoop
<1>2. CASE PollUsbKeyPress
  <2>1. CASE queue # <<>>
    <3>1. queue' = Tail(queue) /\ given' = given + 1 /\ news' = news
      BY <1>2, <2>1 DEF PollUsbKeyPress, Popped
    <3>2. given < Len(news)
      BY <1>0, <2>1, RestAll
    <3>3. Tail(queue) = SubSeq(news, given + 2, Len(news))
      BY <1>0, <3>2, RestTail
    <3>4. given' + 1 = given + 2 /\ given' \in Nat /\ given' <= Len(news)
      BY <1>0, <3>1, <3>2
    <3> QED
      BY <1>0, <3>1, <3>3, <3>4 DEF KeyInv, KeysReachLoop
  <2>2. CASE queue = <<>>
    <3>0. given = Len(news)
      <4>1. given < Len(news) => FALSE
        BY <1>0, <2>2, RestTail
      <4> QED
        BY <1>0, <4>1
    <3>1. PICK rep \in Range(Reports) \cup {Zeros, None} :
             IF rep = None
             THEN UNCHANGED <<prev, news, queue, given>>
             ELSE /\ news' = news \o NewKeys(rep) /\ prev' = rep
                  /\ Popped(Pushed(queue, NewKeys(rep)))
      BY <1>2, <2>2 DEF PollUsbKeyPress
    <3>2. CASE rep = None
      BY <3>1, <3>2 DEF KeyInv, KeysReachLoop
    <3>3. CASE rep # None
      <4> DEFINE k == NewKeys(rep)
      <4>1. IsSeq(k) /\ Len(k) <= QCap - 1
        BY <3>3, NewKeysFit
      <4>2. news' = news \o k /\ Popped(Pushed(queue, k))
        BY <3>1, <3>3
      <4> HIDE DEF k
      <4>3. Popped(k)
        BY <2>2, <4>1, <4>2, PushedEmpty
      <4>4. IsSeq(news') /\ Len(news') = Len(news) + Len(k) /\ SubSeq(news', Len(news) + 1, Len(news')) = k
        BY <1>0, <4>1, <4>2, ConcatSeqs, RestConcat
      <4>5. CASE k = <<>>
        <5>1. queue' = k /\ given' = given
          BY <4>3, <4>5 DEF Popped
        <5>2. given' <= Len(news')
          BY <1>0, <4>1, <4>4, <5>1 DEF IsSeq
        <5> QED
          BY <1>0, <3>0, <4>4, <5>1, <5>2 DEF KeyInv, KeysReachLoop
      <4>6. CASE k # <<>>
        <5>1. queue' = Tail(k) /\ given' = given + 1
          BY <4>3, <4>6 DEF Popped
        <5>2. Len(news) < Len(news')
          <6>1. ~(Len(news) = Len(news'))
            BY <4>4, <4>6, RestAll
          <6>2. Len(k) \in Nat /\ Len(news') = Len(news) + Len(k)
            BY <4>1, <4>4 DEF IsSeq
          <6> QED
            BY <1>0, <6>1, <6>2
        <5>3. Tail(k) = SubSeq(news', Len(news) + 2, Len(news'))
          BY <1>0, <4>4, <5>2, RestTail
        <5>4. given' + 1 = Len(news) + 2 /\ given' \in Nat /\ given' <= Len(news')
          BY <1>0, <3>0, <4>4, <5>1, <5>2 DEF IsSeq
        <5> QED
          BY <4>4, <5>1, <5>3, <5>4 DEF KeyInv, KeysReachLoop
      <4> QED
        BY <4>5, <4>6
    <3> QED
      BY <3>2, <3>3
  <2> QED
    BY <2>1, <2>2
<1> QED
  BY <1>1, <1>2 DEF Next, vars, TryHost, Enumerate, HostSettles, PollHidSlot, Press, MoveMouse, PullOut, Controller

\* The keys that are new in a report reach the loop in order and once each, for reports of any number of
\* keys the ring has room for: poll_usb_key_press, kbd_q_push.
THEOREM KeysReach == Spec => []KeysReachLoop
<1>1. Init => KeyInv
  BY DEF Init, KeyInv, KeysReachLoop, IsSeq
<1>2. KeyInv => KeysReachLoop
  BY DEF KeyInv
<1> QED
  BY <1>1, <1>2, KeyStep, PTL DEF Spec

----------------------------------------------------------------------------
(* Device contexts of the native driver.  From its address request on a    *)
(* device has the context that goes with its slot, and the keyboard keeps  *)
(* the first; when the mouse is found after it the search is over.         *)

\* What can happen to the native driver and its controller.
NatAction ==
    \/ UNCHANGED natVars
    \/ \E p : NatBegin(p)
    \/ NatStep
    \/ \E e \in Eps : NatPoll(e) \/ NatProduce(e) \/ HcReports(e)

LEMMA NatActions == [Next]_vars => NatAction
<1> SUFFICES ASSUME [Next]_vars PROVE NatAction
  OBVIOUS
<1>0. "kbd" \in Eps /\ "mouse" \in Eps
  BY DEF Eps
<1>1. CASE UNCHANGED natVars
  BY <1>1 DEF NatAction
<1>2. CASE TryHost
  BY <1>2 DEF TryHost, NatAction
<1>3. CASE Enumerate
  BY <1>3 DEF Enumerate, NatAction
<1>4. CASE PollHidSlot
  BY <1>0, <1>4 DEF PollHidSlot, NatPollMouse, NatAction
<1>5. CASE PollUsbKeyPress
  BY <1>0, <1>5 DEF PollUsbKeyPress, PollKeyboardReportAny, NatPollKeyboard, NatAction
<1>6. CASE Press \/ MoveMouse
  BY <1>0, <1>6 DEF Press, MoveMouse, NatAction
<1>7. CASE Controller
  BY <1>7 DEF Controller, NatAction
<1> QED
  BY <1>1, <1>2, <1>3, <1>4, <1>5, <1>6, <1>7 DEF Next, vars, HostSettles, PullOut

Early == {"port", "enable", "address"}
Late == {"set_address", "fetch_config9", "fetch_config", "set_configuration", "kbd", "mouse"}

CtxInv ==
    /\ stage \in Early \cup Late
    /\ DOMAIN place = 1 .. NatSlots /\ \A s \in 1 .. NatSlots : place[s] \in [ctx : 0 .. 2, addr : 0 .. 1]
    /\ nat \in [Eps -> 0 .. NatSlots] /\ kbd_first \in BOOLEAN
    /\ stage \notin {"port", "enable"} => slot \in 1 .. NatSlots
    /\ stage \in Late => place[slot].ctx = CtxForSlot(slot)
    /\ nat["kbd"] # 0 => place[nat["kbd"]].ctx = 1
    /\ kbd_first => /\ stage = "port" /\ nat["kbd"] # 0 /\ nat["mouse"] # 0
                    /\ place[nat["mouse"]].ctx = CtxForSlot(nat["mouse"])

LEMMA StagesAre ==
    /\ DOMAIN Stages = 1 .. 8
    /\ Stages[1] = "enable" /\ Stages[2] = "address" /\ Stages[3] = "set_address"
    /\ Stages[4] = "fetch_config9" /\ Stages[5] = "fetch_config" /\ Stages[6] = "set_configuration"
    /\ Stages[7] = "kbd" /\ Stages[8] = "mouse"
  BY DEF Stages

LEMMA NextStageIs ==
    ASSUME stage \in (Early \cup Late) \ {"port"}, NextStage
    PROVE  /\ stage = "enable" => stage' = "address"
           /\ stage = "address" => stage' = "set_address"
           /\ stage = "mouse" => stage' = "port"
           /\ stage \in Late => stage' \in Late \cup {"port"}
<1>1. CASE stage = "mouse"
  BY <1>1 DEF NextStage, PortOver, Late
<1>2. CASE stage # "mouse"
  <2> DEFINE I(i) == i \in DOMAIN Stages /\ Stages[i] = stage
             c == CHOOSE i \in DOMAIN Stages : Stages[i] = stage
  <2>1. stage' = Stages[1 + c]
    BY <1>2 DEF NextStage
  <2>2. \E i \in DOMAIN Stages : Stages[i] = stage
    <3>1. 1 \in DOMAIN Stages /\ 2 \in DOMAIN Stages /\ 3 \in DOMAIN Stages /\ 4 \in DOMAIN Stages
          /\ 5 \in DOMAIN Stages /\ 6 \in DOMAIN Stages /\ 7 \in DOMAIN Stages /\ 8 \in DOMAIN Stages
      BY StagesAre
    <3> QED
      BY <3>1, StagesAre DEF Early, Late
  <2>3. c \in 1 .. 8 /\ Stages[c] = stage
    BY <2>2, StagesAre
  <2> HIDE DEF c
  <2>4. c = 1 \/ c = 2 \/ c = 3 \/ c = 4 \/ c = 5 \/ c = 6 \/ c = 7 \/ c = 8
    BY <2>3
  <2> QED
    BY <1>2, <2>1, <2>3, <2>4, StagesAre DEF Early, Late
<1> QED
  BY <1>1, <1>2

\* A request changes the context of its own slot alone, and only when it is the address request.
LEMMA EffectsAre ==
    ASSUME CtxInv, stage # "port", place' \in Effects
    PROVE  /\ DOMAIN place' = 1 .. NatSlots /\ \A s \in 1 .. NatSlots : place'[s] \in [ctx : 0 .. 2, addr : 0 .. 1]
           /\ \A s \in 1 .. NatSlots :
                place'[s].ctx = IF stage = "address" /\ s = slot THEN CtxForSlot(slot) ELSE place[s].ctx
<1>0. DOMAIN place = 1 .. NatSlots /\ (\A s \in 1 .. NatSlots : place[s] \in [ctx : 0 .. 2, addr : 0 .. 1])
      /\ CtxForSlot(slot) \in 0 .. 2
  BY DEF CtxInv, CtxForSlot
<1>1. CASE stage = "address"
  <2>1. place' = [place EXCEPT ![slot].ctx = CtxForSlot(slot)] /\ slot \in 1 .. NatSlots
    BY <1>1 DEF Effects, CtxInv
  <2>2. DOMAIN place' = 1 .. NatSlots /\ (\A s \in 1 .. NatSlots : s # slot => place'[s] = place[s])
        /\ place'[slot] = [place[slot] EXCEPT !.ctx = CtxForSlot(slot)]
    BY <1>0, <2>1
  <2>3. place'[slot] \in [ctx : 0 .. 2, addr : 0 .. 1] /\ place'[slot].ctx = CtxForSlot(slot)
    BY <1>0, <2>1, <2>2
  <2> QED
    BY <1>0, <1>1, <2>2, <2>3
<1>2. CASE stage = "set_address" /\ place' = [place EXCEPT ![slot].addr = 1]
  <2>1. slot \in 1 .. NatSlots
    BY <1>2 DEF CtxInv
  <2>2. DOMAIN place' = 1 .. NatSlots /\ (\A s \in 1 .. NatSlots : s # slot => place'[s] = place[s])
        /\ place'[slot] = [place[slot] EXCEPT !.addr = 1]
    BY <1>0, <1>2, <2>1
  <2>3. place'[slot] \in [ctx : 0 .. 2, addr : 0 .. 1] /\ place'[slot].ctx = place[slot].ctx
    BY <1>0, <2>1, <2>2
  <2> QED
    BY <1>0, <1>2, <2>2, <2>3
<1>3. CASE stage # "address" /\ place' = place
  BY <1>0, <1>3
<1> QED
  BY <1>1, <1>2, <1>3 DEF Effects

\* A request that was answered, and one that was not.
LEMMA AnsweredStep ==
    ASSUME CtxInv, RequestAnswered
    PROVE  CtxInv'
<1>0. stage \in (Early \cup Late) \ {"port"} /\ NextStage /\ place' \in Effects /\ ~NotWanted /\ stage # "port"
      /\ nat \in [Eps -> 0 .. NatSlots] /\ kbd_first = FALSE
  BY DEF CtxInv, RequestAnswered
<1>n. /\ stage = "enable" => stage' = "address"
      /\ stage = "address" => stage' = "set_address"
      /\ stage = "mouse" => stage' = "port"
      /\ stage \in Late => stage' \in Late \cup {"port"}
  BY <1>0, NextStageIs
<1>p. /\ DOMAIN place' = 1 .. NatSlots /\ \A s \in 1 .. NatSlots : place'[s] \in [ctx : 0 .. 2, addr : 0 .. 1]
      /\ \A s \in 1 .. NatSlots :
           place'[s].ctx = IF stage = "address" /\ s = slot THEN CtxForSlot(slot) ELSE place[s].ctx
  BY <1>0, EffectsAre
<1>k. nat["kbd"] \in 0 .. NatSlots /\ (nat["kbd"] # 0 => nat["kbd"] \in 1 .. NatSlots /\ place[nat["kbd"]].ctx = 1)
  BY NatAssumption DEF CtxInv, Eps
<1>1. CASE stage = "enable"
  <2>1. slot' \in 1 .. NatSlots /\ UNCHANGED <<nat, kbd_first>> /\ stage' = "address"
    BY <1>1, <1>n DEF RequestAnswered, Eps
  <2>2. nat["kbd"] # 0 => place'[nat["kbd"]].ctx = 1
    BY <1>1, <1>p, <1>k
  <2> QED
    BY <1>0, <1>p, <2>1, <2>2 DEF CtxInv, Early, Late
<1>2. CASE stage = "address"
  <2>1. slot \in 1 .. NatSlots /\ UNCHANGED <<slot, nat, kbd_first>> /\ stage' = "set_address"
    BY <1>2, <1>n DEF RequestAnswered, Eps, CtxInv
  <2>2. place'[slot].ctx = CtxForSlot(slot)
    BY <1>2, <1>p, <2>1
  <2>3. nat["kbd"] # 0 => place'[nat["kbd"]].ctx = 1
    BY <1>2, <1>p, <1>k DEF CtxForSlot
  <2>4. CtxForSlot(slot)' = CtxForSlot(slot)
    BY <2>1 DEF CtxForSlot
  <2> QED
    BY <1>0, <1>p, <2>1, <2>2, <2>3, <2>4 DEF CtxInv, Early, Late
<1>3. CASE stage \in Late
  <2>1. slot \in 1 .. NatSlots /\ slot' = slot /\ place[slot].ctx = CtxForSlot(slot) /\ stage' \in Late \cup {"port"}
        /\ slot # 0
    BY <1>3, <1>n, NatAssumption DEF RequestAnswered, CtxInv, Late
  <2>2. \A s \in 1 .. NatSlots : place'[s].ctx = place[s].ctx
    BY <1>3, <1>p DEF Late
  <2>3. CASE stage \notin Eps
    <3>1. UNCHANGED <<nat, kbd_first>> /\ CtxForSlot(slot)' = CtxForSlot(slot)
      BY <2>1, <2>3 DEF RequestAnswered, Eps, CtxForSlot
    <3> QED
      BY <1>0, <1>p, <1>k, <2>1, <2>2, <3>1 DEF CtxInv, Early, Late
  <2>4. CASE stage = "kbd"
    <3>1. nat["kbd"] = 0 /\ nat' = [nat EXCEPT !["kbd"] = slot] /\ UNCHANGED kbd_first
      BY <1>0, <2>4 DEF RequestAnswered, NotWanted, Eps
    <3>2. nat' \in [Eps -> 0 .. NatSlots] /\ nat'["kbd"] = slot
      BY <1>0, <2>1, <3>1, NatAssumption DEF Eps
    <3>3. place'[slot].ctx = 1 /\ CtxForSlot(slot)' = 1
      BY <2>1, <2>2, <3>1, <3>2 DEF CtxForSlot
    <3> QED
      BY <1>0, <1>p, <2>1, <3>1, <3>2, <3>3 DEF CtxInv, Early, Late
  <2>5. CASE stage = "mouse"
    <3>1. nat' = [nat EXCEPT !["mouse"] = slot] /\ kbd_first' = (nat["kbd"] # 0) /\ stage' = "port"
      BY <1>n, <2>5 DEF RequestAnswered, Eps
    <3>2. nat' \in [Eps -> 0 .. NatSlots] /\ nat'["kbd"] = nat["kbd"] /\ nat'["mouse"] = slot
      BY <1>0, <2>1, <3>1, NatAssumption DEF Eps
    <3>3. place'[slot].ctx = CtxForSlot(slot) /\ CtxForSlot(slot)' = CtxForSlot(slot)
      BY <2>1, <2>2, <3>2 DEF CtxForSlot
    <3>4. nat["kbd"] # 0 => place'[nat["kbd"]].ctx = 1
      BY <1>k, <2>2
    <3>5. kbd_first' \in BOOLEAN /\ CtxForSlot(nat["mouse"])' = CtxForSlot(slot)'
      BY <2>1, <3>1, <3>2 DEF CtxForSlot
    <3> QED
      BY <1>p, <2>1, <3>1, <3>2, <3>3, <3>4, <3>5 DEF CtxInv, Early, Late
  <2> QED
    BY <2>3, <2>4, <2>5 DEF Eps
<1> QED
  BY <1>0, <1>1, <1>2, <1>3 DEF Early

LEMMA RefusedStep ==
    ASSUME CtxInv, RequestRefused
    PROVE  CtxInv'
<1>0. stage \in (Early \cup Late) \ {"port"} /\ place' \in Effects /\ stage # "port" /\ UNCHANGED <<slot, nat, kbd_first>>
      /\ kbd_first = FALSE
  BY DEF CtxInv, RequestRefused
<1>1. stage' = "port" \/ (stage = "kbd" /\ stage' \in Late \cup {"port"})
  <2>1. CASE stage = "kbd"
    BY <1>0, <2>1, NextStageIs DEF RequestRefused, Late
  <2>2. CASE stage # "kbd"
    BY <2>2 DEF RequestRefused, PortOver
  <2> QED
    BY <2>1, <2>2
<1>p. /\ DOMAIN place' = 1 .. NatSlots /\ \A s \in 1 .. NatSlots : place'[s] \in [ctx : 0 .. 2, addr : 0 .. 1]
      /\ \A s \in 1 .. NatSlots :
           place'[s].ctx = IF stage = "address" /\ s = slot THEN CtxForSlot(slot) ELSE place[s].ctx
  BY <1>0, EffectsAre
<1>k. nat["kbd"] # 0 => place'[nat["kbd"]].ctx = 1
  BY <1>p, NatAssumption DEF CtxInv, Eps, CtxForSlot
<1>2. \A s : CtxForSlot(s)' = CtxForSlot(s)
  BY <1>0 DEF CtxForSlot
<1>3. stage = "kbd" => slot \in 1 .. NatSlots /\ place'[slot].ctx = CtxForSlot(slot)
  BY <1>p DEF CtxInv, Late
<1>4. CASE stage' = "port"
  BY <1>0, <1>p, <1>k, <1>4 DEF CtxInv, Early, Late
<1>5. CASE stage = "kbd" /\ stage' \in Late
  <2>1. slot' \in 1 .. NatSlots /\ place'[slot'].ctx = CtxForSlot(slot)'
    BY <1>0, <1>2, <1>3, <1>5 DEF CtxForSlot
  <2> QED
    BY <1>0, <1>p, <1>k, <1>5, <2>1 DEF CtxInv, Early, Late
<1> QED
  BY <1>1, <1>4, <1>5

LEMMA CtxStep == CtxInv /\ [Next]_vars => CtxInv'
<1> SUFFICES ASSUME CtxInv, [Next]_vars PROVE CtxInv'
  OBVIOUS
<1>0. NatAction
  BY NatActions
<1>1. CASE UNCHANGED <<stage, slot, place, nat, kbd_first>>
  BY <1>1 DEF CtxInv, CtxForSlot
<1>2. CASE PortReset
  <2>1. UNCHANGED <<slot, place, nat, kbd_first>> /\ stage' \in {"port", "enable"}
    BY <1>2, StagesAre DEF PortReset
  <2>2. kbd_first = FALSE
    BY <1>2 DEF PortReset, NatDone, BothReady, CtxInv, Eps
  <2> QED
    BY <2>1, <2>2 DEF CtxInv, Early, Late
<1>3. CASE Skip
  <2>1. UNCHANGED <<slot, place, nat, kbd_first>> /\ stage \in Eps /\ NextStage
    BY <1>3 DEF Skip, NotWanted
  <2>2. stage \in Late /\ stage # "port" /\ kbd_first = FALSE
    BY <2>1 DEF Eps, Late, CtxInv
  <2>3. stage' \in Late \cup {"port"}
    BY <2>1, <2>2, NextStageIs
  <2> QED
    BY <2>1, <2>2, <2>3 DEF CtxInv, Early, Late, CtxForSlot
<1> QED
  BY <1>0, <1>1, <1>2, <1>3, AnsweredStep, RefusedStep
     DEF NatAction, natVars, NatBegin, NatStep, NatPoll, NatProduce, HcReports

LEMMA CtxInit == Init => CtxInv
<1> SUFFICES ASSUME Init PROVE CtxInv
  OBVIOUS
<1>1. /\ stage = "port" /\ place = [s \in 1 .. NatSlots |-> [ctx |-> 0, addr |-> 0]]
      /\ nat = [e \in Eps |-> 0] /\ kbd_first = FALSE
  BY DEF Init, NatIdle
<1>2. [ctx |-> 0, addr |-> 0] \in [ctx : 0 .. 2, addr : 0 .. 1]
  OBVIOUS
<1>3. DOMAIN place = 1 .. NatSlots /\ \A s \in 1 .. NatSlots : place[s] \in [ctx : 0 .. 2, addr : 0 .. 1]
  BY <1>1, <1>2
<1>4. nat \in [Eps -> 0 .. NatSlots] /\ nat["kbd"] = 0
  BY <1>1, NatAssumption DEF Eps
<1> QED
  BY <1>1, <1>3, <1>4 DEF CtxInv, Early, Late

LEMMA CtxGives == CtxInv => KbdContextKept
  BY DEF CtxInv, KbdContextKept, CtxForSlot

----------------------------------------------------------------------------
(* The walk over the ports.  No device is met twice: what can be reached   *)
(* from the ports still to visit is disjoint, and disjoint from the        *)
(* devices that have a slot.                                               *)

Below(b) == CHOOSE f \in [Devices -> SUBSET Devices] : WiredBy(b, f)

PendOk(w, D, f) ==
    /\ w \in Seq(Seq(Devices))
    /\ \A a, b \in DOMAIN w : \A i \in DOMAIN w[a], j \in DOMAIN w[b] :
          a # b \/ i # j => Within(f, w[a][i]) \cap Within(f, w[b][j]) = {}
    /\ \A a \in DOMAIN w : \A i \in DOMAIN w[a] : Within(f, w[a][i]) \cap D = {}

\* Fewer ports: of each list some at the end may go, and of list l the first k.
Fewer(v, w, l, k) ==
    \A a \in DOMAIN v : \A i \in DOMAIN v[a] :
       /\ a \in DOMAIN w /\ i + (IF a = l THEN k ELSE 0) \in DOMAIN w[a]
       /\ v[a][i] = w[a][i + (IF a = l THEN k ELSE 0)]

LEMMA PendSub ==
    ASSUME NEW w, NEW D, NEW f, PendOk(w, D, f), NEW v \in Seq(Seq(Devices)), NEW l, NEW k \in Nat,
           Fewer(v, w, l, k)
    PROVE  PendOk(v, D, f)
<1> DEFINE off(a) == IF a = l THEN k ELSE 0
<1>1. \A a \in DOMAIN v : \A i \in DOMAIN v[a] :
        a \in DOMAIN w /\ i + off(a) \in DOMAIN w[a] /\ v[a][i] = w[a][i + off(a)] /\ i \in Nat
  <2>1. \A a \in DOMAIN v : DOMAIN v[a] \subseteq Nat
    <3> SUFFICES ASSUME NEW a \in DOMAIN v PROVE DOMAIN v[a] \subseteq Nat
      OBVIOUS
    <3>1. v[a] \in Seq(Devices)
      OBVIOUS
    <3> QED
      BY <3>1
  <2> QED
    BY <2>1 DEF Fewer
<1>2. ASSUME NEW a \in DOMAIN v, NEW b \in DOMAIN v, NEW i \in DOMAIN v[a], NEW j \in DOMAIN v[b], a # b \/ i # j
      PROVE  Within(f, v[a][i]) \cap Within(f, v[b][j]) = {}
  <2>1. a # b \/ i + off(a) # j + off(b)
    BY <1>1, <1>2
  <2>2. PICK x, y : x = i + off(a) /\ y = j + off(b)
    OBVIOUS
  <2>3. /\ a \in DOMAIN w /\ x \in DOMAIN w[a] /\ v[a][i] = w[a][x]
        /\ b \in DOMAIN w /\ y \in DOMAIN w[b] /\ v[b][j] = w[b][y]
    BY <1>1, <2>2
  <2>4. \A c, d \in DOMAIN w : \A m \in DOMAIN w[c], n \in DOMAIN w[d] :
          c # d \/ m # n => Within(f, w[c][m]) \cap Within(f, w[d][n]) = {}
    BY DEF PendOk
  <2>5. a # b \/ x # y
    BY <2>1, <2>2
  <2>6. Within(f, w[a][x]) \cap Within(f, w[b][y]) = {}
    BY ONLY <2>3, <2>4, <2>5
  <2> QED
    BY ONLY <2>3, <2>6
<1>3. ASSUME NEW a \in DOMAIN v, NEW i \in DOMAIN v[a] PROVE Within(f, v[a][i]) \cap D = {}
  <2>1. PICK x : x = i + off(a)
    OBVIOUS
  <2>2. a \in DOMAIN w /\ x \in DOMAIN w[a] /\ v[a][i] = w[a][x]
    BY <1>1, <2>1
  <2>3. \A c \in DOMAIN w : \A m \in DOMAIN w[c] : Within(f, w[c][m]) \cap D = {}
    BY DEF PendOk
  <2> QED
    BY ONLY <2>2, <2>3
<1> QED
  BY <1>2, <1>3 DEF PendOk

\* One port is visited.
LEMMA PendVisit ==
    ASSUME NEW w, NEW D, NEW f, PendOk(w, D, f), w # <<>>, w[Len(w)] # <<>>,
           NEW p, p = Head(w[Len(w)]), NEW v, v = [w EXCEPT ![Len(w)] = Tail(@)]
    PROVE  /\ p \in Devices /\ p \notin D /\ Within(f, p) \cap D = {}
           /\ PendOk(v, D, f)
           /\ \A a \in DOMAIN v : \A i \in DOMAIN v[a] : Within(f, v[a][i]) \cap Within(f, p) = {}
<1> DEFINE l == Len(w)
<1>0. w \in Seq(Seq(Devices)) /\ l \in Nat /\ l \in DOMAIN w /\ DOMAIN w = 1 .. l
  BY DEF PendOk
<1> HIDE DEF l
<1>1. w[l] \in Seq(Devices) /\ w[l] # <<>>
  BY <1>0 DEF l
<1> DEFINE s == w[l]
           m == Len(s)
<1>2. m \in Nat /\ m > 0 /\ DOMAIN s = 1 .. m /\ p = s[1] /\ p \in Devices
  BY <1>1 DEF l
<1>3. Tail(s) \in Seq(Devices) /\ DOMAIN Tail(s) = 1 .. m - 1 /\ \A i \in 1 .. m - 1 : Tail(s)[i] = s[i + 1]
  BY <1>1, <1>2
<1>4. v = [w EXCEPT ![l] = Tail(s)]
  BY DEF l
<1> HIDE DEF s, m
<1>5. v \in Seq(Seq(Devices)) /\ DOMAIN v = 1 .. l /\ v[l] = Tail(s) /\ \A a \in 1 .. l : a # l => v[a] = w[a]
  BY <1>0, <1>3, <1>4
<1>6. ASSUME NEW a \in DOMAIN v, NEW i \in DOMAIN v[a]
      PROVE  /\ a \in DOMAIN w /\ i + (IF a = l THEN 1 ELSE 0) \in DOMAIN w[a] /\ i \in Nat
             /\ v[a][i] = w[a][i + (IF a = l THEN 1 ELSE 0)]
  <2>1. CASE a = l
    <3>1. i \in 1 .. m - 1 /\ v[a][i] = s[i + 1]
      BY <1>3, <1>5, <2>1
    <3>2. i + 1 \in 1 .. m
      BY <1>2, <3>1
    <3> QED
      BY <1>0, <1>2, <2>1, <3>1, <3>2 DEF s
  <2>2. CASE a # l
    <3>1. v[a] = w[a] /\ a \in DOMAIN w
      BY <1>0, <1>5, <2>2
    <3>2. w[a] \in Seq(Devices)
      BY <1>0, <3>1
    <3>3. i \in Nat /\ i + 0 = i
      BY <3>1, <3>2
    <3> QED
      BY <2>2, <3>1, <3>3
  <2> QED
    BY <2>1, <2>2
<1>7. PendOk(v, D, f)
  <2>1. Fewer(v, w, l, 1)
    BY <1>6 DEF Fewer
  <2>2. v \in Seq(Seq(Devices)) /\ 1 \in Nat
    BY <1>5
  <2> QED
    BY <2>1, <2>2, PendSub
<1>8. 1 \in DOMAIN w[l] /\ w[l][1] = p
  BY <1>2 DEF s
<1>9. ASSUME NEW a \in DOMAIN v, NEW i \in DOMAIN v[a] PROVE Within(f, v[a][i]) \cap Within(f, p) = {}
  <2> DEFINE j == i + (IF a = l THEN 1 ELSE 0)
  <2>1. a \in DOMAIN w /\ j \in DOMAIN w[a] /\ v[a][i] = w[a][j] /\ i \in Nat
    BY <1>6
  <2>2. a = l => i \in 1 .. m - 1
    BY <1>3, <1>5, <1>9
  <2>3. a # l \/ j # 1
    BY <1>2, <2>1, <2>2
  <2> HIDE DEF j
  <2>4. Within(f, w[a][j]) \cap Within(f, w[l][1]) = {}
    BY <1>0, <1>8, <2>1, <2>3 DEF PendOk
  <2> QED
    BY <1>8, <2>1, <2>4
<1>10. Within(f, p) \cap D = {}
  BY <1>0, <1>8 DEF PendOk
<1>11. p \notin D
  BY <1>10 DEF Within
<1> QED
  BY <1>2, <1>7, <1>9, <1>10, <1>11

\* A device that was visited is out of the way.
LEMMA PendMore ==
    ASSUME NEW v, NEW D, NEW E, NEW f, PendOk(v, D, f), NEW p, E \subseteq D \cup {p},
           \A a \in DOMAIN v : \A i \in DOMAIN v[a] : Within(f, v[a][i]) \cap Within(f, p) = {}
    PROVE  PendOk(v, E, f)
<1>1. p \in Within(f, p)
  BY DEF Within
<1>2. ASSUME NEW a \in DOMAIN v, NEW i \in DOMAIN v[a] PROVE Within(f, v[a][i]) \cap E = {}
  BY <1>1 DEF PendOk
<1> QED
  BY <1>2 DEF PendOk

\* The ports of a hub come next.
LEMMA PendHub ==
    ASSUME NEW v, NEW D, NEW f, PendOk(v, D, f), NEW p, Within(f, p) \cap D = {},
           \A a \in DOMAIN v : \A i \in DOMAIN v[a] : Within(f, v[a][i]) \cap Within(f, p) = {},
           NEW k \in Seq(Devices), Apart(k, f), \A i \in DOMAIN k : Within(f, k[i]) \subseteq f[p]
    PROVE  PendOk(Append(v, k), D, f)
<1> DEFINE u == Append(v, k)
           n == Len(v) + 1
<1>1. v \in Seq(Seq(Devices)) /\ Len(v) \in Nat /\ DOMAIN v = 1 .. Len(v)
  BY DEF PendOk
<1>2. u \in Seq(Seq(Devices)) /\ DOMAIN u = 1 .. n /\ u[n] = k /\ \A a \in 1 .. Len(v) : u[a] = v[a]
  BY <1>1
<1>3. \A a \in DOMAIN u : a = n \/ (a # n /\ a \in DOMAIN v /\ u[a] = v[a])
  BY <1>1, <1>2
<1> HIDE DEF u, n
<1>4. \A i \in DOMAIN k : Within(f, k[i]) \subseteq Within(f, p)
  BY DEF Within
<1>5. ASSUME NEW a \in DOMAIN u, NEW b \in DOMAIN u, NEW i \in DOMAIN u[a], NEW j \in DOMAIN u[b], a # b \/ i # j
      PROVE  Within(f, u[a][i]) \cap Within(f, u[b][j]) = {}
  <2>1. CASE a = n /\ b = n
    BY <1>2, <1>5, <2>1 DEF Apart
  <2>2. CASE a = n /\ b # n
    <3>1. b \in DOMAIN v /\ u[b] = v[b]
      BY <1>3, <2>2
    <3>2. Within(f, v[b][j]) \cap Within(f, p) = {} /\ Within(f, k[i]) \subseteq Within(f, p)
      BY <1>2, <1>4, <2>2, <3>1
    <3> QED
      BY <1>2, <2>2, <3>1, <3>2
  <2>3. CASE a # n /\ b = n
    <3>1. a \in DOMAIN v /\ u[a] = v[a]
      BY <1>3, <2>3
    <3>2. Within(f, v[a][i]) \cap Within(f, p) = {} /\ Within(f, k[j]) \subseteq Within(f, p)
      BY <1>2, <1>4, <2>3, <3>1
    <3> QED
      BY <1>2, <2>3, <3>1, <3>2
  <2>4. CASE a # n /\ b # n
    BY <1>3, <1>5, <2>4 DEF PendOk
  <2> QED
    BY <2>1, <2>2, <2>3, <2>4
<1>6. ASSUME NEW a \in DOMAIN u, NEW i \in DOMAIN u[a] PROVE Within(f, u[a][i]) \cap D = {}
  <2>1. CASE a = n
    <3>1. Within(f, k[i]) \subseteq Within(f, p)
      BY <1>2, <1>4, <2>1
    <3> QED
      BY <1>2, <2>1, <3>1
  <2>2. CASE a # n
    BY <1>3, <2>2 DEF PendOk
  <2> QED
    BY <2>1, <2>2
<1>7. PendOk(u, D, f)
  BY <1>2, <1>5, <1>6 DEF PendOk
<1> QED
  BY <1>7 DEF u

\* A hub whose ports were all visited, or a list of ports given up.
LEMMA PendPop ==
    ASSUME NEW w, NEW D, NEW f, PendOk(w, D, f), w # <<>>
    PROVE  PendOk(SubSeq(w, 1, Len(w) - 1), D, f) /\ PendOk([w EXCEPT ![Len(w)] = <<>>], D, f)
<1> DEFINE v == SubSeq(w, 1, Len(w) - 1)
           u == [w EXCEPT ![Len(w)] = <<>>]
<1>0. w \in Seq(Seq(Devices)) /\ Len(w) \in Nat /\ Len(w) > 0 /\ DOMAIN w = 1 .. Len(w)
  BY DEF PendOk
<1>1. v \in Seq(Seq(Devices)) /\ DOMAIN v = 1 .. Len(w) - 1 /\ \A a \in 1 .. Len(w) - 1 : v[a] = w[a]
  BY <1>0
<1>2. u \in Seq(Seq(Devices)) /\ DOMAIN u = DOMAIN w /\ \A a \in DOMAIN w : u[a] = IF a = Len(w) THEN <<>> ELSE w[a]
  <2>1. <<>> \in Seq(Devices) /\ Len(w) \in DOMAIN w
    BY <1>0
  <2> QED
    BY <1>0, <2>1
<1>3. \A a \in DOMAIN w : \A i \in DOMAIN w[a] : i \in Nat /\ i + 0 = i
  <2> SUFFICES ASSUME NEW a \in DOMAIN w, NEW i \in DOMAIN w[a] PROVE i \in Nat /\ i + 0 = i
    OBVIOUS
  <2>1. w[a] \in Seq(Devices)
    BY <1>0
  <2> QED
    BY <2>1
<1> HIDE DEF v, u
<1>4. Fewer(v, w, 0, 0)
  <2> SUFFICES ASSUME NEW a \in DOMAIN v, NEW i \in DOMAIN v[a]
               PROVE  a \in DOMAIN w /\ i + 0 \in DOMAIN w[a] /\ v[a][i] = w[a][i + 0]
    BY DEF Fewer
  <2>0. a \in 1 .. Len(w) - 1 /\ v[a] = w[a]
    BY <1>1
  <2>1. a \in DOMAIN w /\ v[a] = w[a]
    BY <1>0, <2>0
  <2> QED
    BY <1>3, <2>1
<1>5. Fewer(u, w, 0, 0)
  <2> SUFFICES ASSUME NEW a \in DOMAIN u, NEW i \in DOMAIN u[a]
               PROVE  a \in DOMAIN w /\ i + 0 \in DOMAIN w[a] /\ u[a][i] = w[a][i + 0]
    BY DEF Fewer
  <2>1. a \in DOMAIN w /\ (a = Len(w) => u[a] = <<>>)
    BY <1>2
  <2>2. a # Len(w)
    BY <2>1
  <2>3. u[a] = w[a]
    BY <1>2, <2>1, <2>2
  <2> QED
    BY <1>3, <2>1, <2>3
<1>6. 0 \in Nat
  OBVIOUS
<1>7. PendOk(v, D, f)
  BY <1>1, <1>4, <1>6, PendSub
<1>8. PendOk(u, D, f)
  BY <1>2, <1>5, <1>6, PendSub
<1> QED
  BY <1>7, <1>8 DEF v, u

----------------------------------------------------------------------------
(* What a step does to the UHCI and OHCI drivers.                          *)

Searched == <<host, bus, walk, next_free, addr, strays, mice, kbd, left>>

BusAction ==
    \/ UNCHANGED <<Searched, okay, fails, dtog, lost, slipped, active, machine>>
    \/ /\ active = "none" /\ UNCHANGED <<dtog, lost, slipped, active, machine>>
       /\ \/ HostInit("native", NoBus)
          \/ \E h \in {"uhci", "ohci"} : machine[h] # NoBus /\ HostInit(h, machine[h])
    \/ active = "none" /\ EnumerationStep /\ UNCHANGED <<active, machine>>
    \/ /\ active = "none" /\ host' \in {host, "none"}
       /\ UNCHANGED <<bus, walk, next_free, addr, strays, mice, kbd, left, okay, fails, dtog, lost, slipped, machine>>
    \/ /\ active # "none" /\ host # "native" /\ UNCHANGED <<active, machine>>
       /\ \/ \E i \in 1 .. Len(mice) : BusPollMouse(i)
          \/ kbd.ready /\ \E r \in 0 .. MaxReports : BusPollKeyboard(r)
    \/ /\ active # "none" /\ host = "native"
       /\ \E k \in Eps : Succeeded(k) \/ Failed(k)
       /\ UNCHANGED <<Searched, dtog, lost, slipped, active, machine>>
    \/ LateIn /\ UNCHANGED <<active, machine>>

LEMMA BusActions == [Next]_vars => BusAction
<1> SUFFICES ASSUME [Next]_vars PROVE BusAction
  OBVIOUS
<1> USE DEF hidVars
<1>1. CASE TryHost
  <2>1. active = "none" /\ UNCHANGED <<dtog, lost, slipped, active, machine>>
    BY <1>1 DEF TryHost, devVars
  <2>2. CASE ~Present(Head(plan))
    BY <1>1, <2>1, <2>2 DEF TryHost, BusAction, Searched, busVars
  <2>3. CASE Present(Head(plan)) /\ Head(plan)[2] = "native"
    BY <1>1, <2>1, <2>3 DEF TryHost, BusAction
  <2>4. CASE Present(Head(plan)) /\ Head(plan)[2] # "native"
    <3>1. \E h \in {"uhci", "ohci"} : h = Head(plan)[2] /\ machine[h] # NoBus
      BY <2>4 DEF Present, EhciInit
    <3>2. HostInit(Head(plan)[2], machine[Head(plan)[2]])
      BY <1>1, <2>4 DEF TryHost
    <3> QED
      BY <2>1, <3>1, <3>2 DEF BusAction
  <2> QED
    BY <2>2, <2>3, <2>4
<1>2. CASE Enumerate
  BY <1>2 DEF Enumerate, BusAction, Searched, busVars, devVars
<1>3. CASE HostSettles
  BY <1>3 DEF HostSettles, BusAction, busVars, devVars
<1>4. CASE PollHidSlot
  <2>1. PICK i \in 1 .. MouseCount : IF host = "native" THEN NatPollMouse ELSE BusPollMouse(i) /\ UNCHANGED natVars
    BY <1>4 DEF PollHidSlot
  <2>2. active # "none" /\ UNCHANGED <<active, machine>>
    BY <1>4, <2>1 DEF PollHidSlot, MouseCount
  <2>3. CASE host = "native"
    <3>1. \E k \in Eps : Succeeded(k) \/ Failed(k)
      BY <2>1, <2>3 DEF NatPollMouse, Eps
    <3> QED
      BY <2>1, <2>2, <2>3, <3>1 DEF NatPollMouse, BusKept, BusAction, Searched, devVars
  <2>4. CASE host # "native"
    BY <2>1, <2>2, <2>4 DEF MouseCount, BusAction
  <2> QED
    BY <2>3, <2>4
<1>5. CASE PollUsbKeyPress
  <2>1. active # "none" /\ UNCHANGED <<active, machine>> /\ (host # "native" => kbd.ready)
    BY <1>5 DEF PollUsbKeyPress, KeyboardReady
  <2>2. CASE queue # <<>>
    BY <1>5, <2>1, <2>2 DEF PollUsbKeyPress, BusAction, Searched, busVars, devVars
  <2>3. CASE queue = <<>>
    <3>1. PICK rep : PollKeyboardReportAny(rep)
      BY <1>5, <2>3 DEF PollUsbKeyPress
    <3>2. CASE host = "native"
      <4>1. \E k \in Eps : Succeeded(k) \/ Failed(k)
        BY <3>1, <3>2 DEF PollKeyboardReportAny, NatPollKeyboard, Eps
      <4> QED
        BY <2>1, <3>1, <3>2, <4>1 DEF PollKeyboardReportAny, NatPollKeyboard, BusKept, BusAction, Searched, devVars
    <3>3. CASE host # "native"
      BY <2>1, <3>1, <3>3 DEF PollKeyboardReportAny, BusAction
    <3> QED
      BY <3>2, <3>3
  <2> QED
    BY <2>2, <2>3
<1>6. CASE Press \/ MoveMouse \/ PullOut
  BY <1>6 DEF Press, MoveMouse, PullOut, Produce, Unplug, BusAction, Searched, busVars, devVars
<1>7. CASE Controller
  BY <1>7 DEF Controller, BusAction, Searched, busVars, devVars
<1>8. CASE UNCHANGED vars
  BY <1>8 DEF vars, BusAction, Searched, busVars, devVars
<1> QED
  BY <1>1, <1>2, <1>3, <1>4, <1>5, <1>6, <1>7, <1>8 DEF Next

----------------------------------------------------------------------------
(* Slots and addresses.  A slot's address is below next_free and no two    *)
(* slots are of one device; what is at address 0 is a stray, so whoever    *)
(* takes the next address with the device just reset is one.               *)

Mouse == [dev : Devices, addr : 1 .. MaxAddr, toggle : BOOLEAN]
Keyboard == [ready : {TRUE}, dev : Devices, addr : 1 .. MaxAddr, toggle : BOOLEAN]

SlotDevs(m, k) == {m[i].dev : i \in DOMAIN m} \cup (IF k.ready THEN {k.dev} ELSE {})

SlotOk(m, k, n) ==
    /\ n \in 1 .. NoAddr
    /\ m \in Seq(Mouse)
    /\ k = NoKbd \/ (k \in Keyboard /\ k.addr < n)
    /\ \A i \in DOMAIN m : m[i].addr < n /\ (k.ready => m[i].addr # k.addr /\ m[i].dev # k.dev)
    /\ \A i, j \in DOMAIN m : i # j => m[i].addr # m[j].addr /\ m[i].dev # m[j].dev

AddrOk(a, s, n) ==
    /\ a \in [Devices -> 0 .. NoAddr]
    /\ \A d \in Devices : (a[d] = 0 => d \in s) /\ (a[d] < n \/ a[d] = NoAddr)
    /\ \A d, e \in Devices : d # e /\ a[d] = a[e] /\ a[d] # NoAddr => {d, e} \cap s # {}

LEMMA AddrReset ==
    ASSUME NEW a, NEW s, NEW n \in 1 .. NoAddr, NEW k \in 1 .. NoAddr, n <= k, AddrOk(a, s, n), NEW p \in Devices
    PROVE  AddrOk([a EXCEPT ![p] = 0], s \cup {p}, k)
<1> DEFINE b == [a EXCEPT ![p] = 0]
<1>0. MaxAddr \in Nat /\ NoAddr \in Nat /\ NoAddr > 0
  BY BusAssumption DEF NoAddr
<1>1. b \in [Devices -> 0 .. NoAddr] /\ b[p] = 0 /\ \A d \in Devices : d # p => b[d] = a[d]
  BY <1>0 DEF AddrOk
<1> HIDE DEF b
<1>2. \A d \in Devices : (b[d] = 0 => d \in s \cup {p}) /\ (b[d] < k \/ b[d] = NoAddr)
  BY <1>0, <1>1 DEF AddrOk
<1>3. \A d, e \in Devices : d # e /\ b[d] = b[e] /\ b[d] # NoAddr => {d, e} \cap (s \cup {p}) # {}
  BY <1>1 DEF AddrOk
<1>4. AddrOk(b, s \cup {p}, k)
  BY <1>1, <1>2, <1>3 DEF AddrOk
<1> QED
  BY <1>4 DEF b

LEMMA AddrTaken ==
    ASSUME NEW a, NEW s, NEW n \in 1 .. MaxAddr, AddrOk(a, s, n), NEW p \in Devices
    PROVE  AddrOk([d \in Devices |-> IF [a EXCEPT ![p] = 0][d] = 0 THEN n ELSE a[d]], s, n + 1)
<1> DEFINE b == [d \in Devices |-> IF [a EXCEPT ![p] = 0][d] = 0 THEN n ELSE a[d]]
<1>0. MaxAddr \in Nat /\ NoAddr = MaxAddr + 1
  BY BusAssumption DEF NoAddr
<1>1. a \in [Devices -> 0 .. NoAddr]
  BY DEF AddrOk
<1>2. \A d \in Devices : b[d] = IF d = p \/ a[d] = 0 THEN n ELSE a[d]
  BY <1>1
<1>3. b \in [Devices -> 0 .. NoAddr]
  <2>1. \A d \in Devices : b[d] \in 0 .. NoAddr
    BY <1>0, <1>1, <1>2
  <2> QED
    BY <2>1
<1> HIDE DEF b
<1>4. \A d \in Devices : (b[d] = 0 => d \in s) /\ (b[d] < n + 1 \/ b[d] = NoAddr)
  BY <1>0, <1>1, <1>2 DEF AddrOk
<1>5. ASSUME NEW d \in Devices, NEW e \in Devices, d # e, b[d] = b[e], b[d] # NoAddr PROVE {d, e} \cap s # {}
  <2>1. a[d] # n /\ a[e] # n
    BY <1>0, <1>1 DEF AddrOk
  <2>2. CASE b[d] = n
    <3>1. (d = p \/ a[d] = 0) /\ (e = p \/ a[e] = 0)
      BY <1>2, <1>5, <2>1, <2>2
    <3> QED
      BY <1>5, <3>1 DEF AddrOk
  <2>3. CASE b[d] # n
    <3>1. b[d] = a[d] /\ b[e] = a[e]
      BY <1>2, <1>5, <2>3
    <3> QED
      BY <1>5, <3>1 DEF AddrOk
  <2> QED
    BY <2>2, <2>3
<1>6. AddrOk(b, s, n + 1)
  BY <1>3, <1>4, <1>5 DEF AddrOk
<1> QED
  BY <1>6 DEF b

LEMMA KbdSlot ==
    ASSUME NEW m, NEW k, NEW n, SlotOk(m, k, n), k.ready
    PROVE  k \in Keyboard /\ k.addr < n /\ k.addr \in 1 .. MaxAddr /\ k.dev \in Devices /\ k.toggle \in BOOLEAN
<1>1. k # NoKbd
  BY DEF NoKbd
<1>2. k \in Keyboard /\ k.addr < n
  BY <1>1 DEF SlotOk, Keyboard
<1> QED
  BY <1>2 DEF Keyboard

LEMMA AddMouse ==
    ASSUME NEW m, NEW k, NEW n \in 1 .. MaxAddr, SlotOk(m, k, n), NEW p \in Devices, p \notin SlotDevs(m, k),
           NEW q, q = Append(m, [dev |-> p, addr |-> n, toggle |-> FALSE])
    PROVE  SlotOk(q, k, n + 1) /\ SlotDevs(q, k) \subseteq SlotDevs(m, k) \cup {p}
<1> DEFINE r == [dev |-> p, addr |-> n, toggle |-> FALSE]
           l == Len(m)
<1>0. MaxAddr \in Nat /\ NoAddr = MaxAddr + 1
  BY BusAssumption DEF NoAddr
<1>1. r \in Mouse /\ r.dev = p /\ r.addr = n
  BY DEF Mouse
<1>2. m \in Seq(Mouse) /\ l \in Nat /\ DOMAIN m = 1 .. l
  BY DEF SlotOk
<1>a. q = Append(m, r)
  OBVIOUS
<1> HIDE DEF r
<1>3. q \in Seq(Mouse) /\ DOMAIN q = 1 .. l + 1 /\ q[l + 1] = r /\ \A i \in 1 .. l : q[i] = m[i]
  BY <1>1, <1>2, <1>a
<1> HIDE DEF l
<1>4. \A i \in DOMAIN q : (i = l + 1 /\ q[i] = r) \/ (i # l + 1 /\ i \in DOMAIN m /\ q[i] = m[i])
  BY <1>2, <1>3
<1>5. \A i \in DOMAIN m : m[i] \in Mouse /\ m[i].addr \in Nat /\ m[i].addr < n
  <2>1. \A i \in DOMAIN m : m[i] \in Mouse
    BY <1>2
  <2>2. \A i \in DOMAIN m : m[i].addr \in 1 .. MaxAddr
    BY <2>1 DEF Mouse
  <2> QED
    BY <1>0, <2>1, <2>2 DEF SlotOk
<1>6. \A i \in DOMAIN m : m[i].dev # p /\ m[i].addr # n
  BY <1>5 DEF SlotDevs
<1>7. k.ready => k.addr \in Nat /\ k.addr < n /\ k.addr # n /\ k.dev # p
  <2> SUFFICES ASSUME k.ready PROVE k.addr \in Nat /\ k.addr < n /\ k.addr # n /\ k.dev # p
    OBVIOUS
  <2>1. k.addr < n /\ k.addr \in 1 .. MaxAddr
    BY KbdSlot
  <2>2. k.dev # p
    BY DEF SlotDevs
  <2> QED
    BY <1>0, <2>1, <2>2
<1>8. n + 1 \in 1 .. NoAddr /\ n < n + 1
  BY <1>0
<1>b. \A x \in Nat : x < n => x < n + 1
  BY <1>0
<1>9. \A i \in DOMAIN q : q[i].addr < n + 1 /\ (k.ready => q[i].addr # k.addr /\ q[i].dev # k.dev)
  BY <1>1, <1>4, <1>5, <1>7, <1>8, <1>b DEF SlotOk
<1>10. \A i, j \in DOMAIN q : i # j => q[i].addr # q[j].addr /\ q[i].dev # q[j].dev
  BY <1>1, <1>4, <1>6 DEF SlotOk
<1>11. k = NoKbd \/ (k \in Keyboard /\ k.addr < n + 1)
  <2>1. CASE k # NoKbd
    <3>1. k \in Keyboard
      BY <2>1 DEF SlotOk
    <3>2. k.ready
      BY <3>1 DEF Keyboard
    <3> QED
      BY <1>7, <1>b, <3>1, <3>2
  <2> QED
    BY <2>1
<1>12. SlotOk(q, k, n + 1)
  BY <1>3, <1>8, <1>9, <1>10, <1>11 DEF SlotOk
<1>13. SlotDevs(q, k) \subseteq SlotDevs(m, k) \cup {p}
  BY <1>1, <1>4 DEF SlotDevs
<1> QED
  BY <1>12, <1>13

LEMMA AddKbd ==
    ASSUME NEW m, NEW k, NEW n \in 1 .. MaxAddr, SlotOk(m, k, n), ~k.ready, NEW p \in Devices, p \notin SlotDevs(m, k),
           NEW q, q = [ready |-> TRUE, dev |-> p, addr |-> n, toggle |-> FALSE]
    PROVE  SlotOk(m, q, n + 1) /\ SlotDevs(m, q) \subseteq SlotDevs(m, k) \cup {p}
<1>0. MaxAddr \in Nat /\ NoAddr = MaxAddr + 1 /\ n + 1 \in 1 .. NoAddr /\ n < n + 1
  BY BusAssumption DEF NoAddr
<1>1. q \in Keyboard /\ q.dev = p /\ q.addr = n
  BY DEF Keyboard
<1>2. m \in Seq(Mouse)
  BY DEF SlotOk
<1>3. \A i \in DOMAIN m : m[i].addr \in 1 .. MaxAddr /\ m[i].addr < n
  <2>1. \A i \in DOMAIN m : m[i] \in Mouse
    BY <1>2
  <2> QED
    BY <2>1 DEF Mouse, SlotOk
<1>4. \A i \in DOMAIN m : m[i].addr < n + 1 /\ m[i].addr # n /\ m[i].dev # p
  BY <1>0, <1>3 DEF SlotDevs
<1>5. SlotOk(m, q, n + 1)
  BY <1>0, <1>1, <1>2, <1>4 DEF SlotOk
<1>6. SlotDevs(m, q) \subseteq SlotDevs(m, k) \cup {p}
  BY <1>1 DEF SlotDevs
<1> QED
  BY <1>5, <1>6

LEMMA SlotMore ==
    ASSUME NEW m, NEW k, NEW n \in 1 .. MaxAddr, SlotOk(m, k, n) PROVE SlotOk(m, k, n + 1)
<1>0. MaxAddr \in Nat /\ NoAddr = MaxAddr + 1 /\ n + 1 \in 1 .. NoAddr /\ n < n + 1
  BY BusAssumption DEF NoAddr
<1>1. m \in Seq(Mouse)
  BY DEF SlotOk
<1>2. \A i \in DOMAIN m : m[i].addr \in 1 .. MaxAddr /\ m[i].addr < n
  <2>1. \A i \in DOMAIN m : m[i] \in Mouse
    BY <1>1
  <2> QED
    BY <2>1 DEF Mouse, SlotOk
<1>3. \A i \in DOMAIN m : m[i].addr < n + 1
  BY <1>0, <1>2
<1>4. k = NoKbd \/ (k \in Keyboard /\ k.addr < n + 1)
  <2>1. CASE k \in Keyboard /\ k.addr < n
    <3>1. k.addr \in 1 .. MaxAddr
      BY <2>1 DEF Keyboard
    <3> QED
      BY <1>0, <2>1, <3>1
  <2> QED
    BY <2>1 DEF SlotOk
<1> QED
  BY <1>0, <1>1, <1>3, <1>4 DEF SlotOk

\* A poll turns toggles and nothing else.
LEMMA MouseToggles ==
    ASSUME NEW m, NEW k, NEW n, SlotOk(m, k, n), NEW i \in 1 .. Len(m), NEW q, q = [m EXCEPT ![i].toggle = ~@]
    PROVE  /\ SlotOk(q, k, n) /\ SlotDevs(q, k) = SlotDevs(m, k)
           /\ DOMAIN q = DOMAIN m /\ i \in DOMAIN m /\ q[i].toggle = ~m[i].toggle /\ q[i].dev = m[i].dev
           /\ \A j \in DOMAIN m : j # i => q[j] = m[j]
<1>1. m \in Seq(Mouse) /\ i \in DOMAIN m /\ m[i] \in Mouse
  BY DEF SlotOk
<1>2. q[i] = [m[i] EXCEPT !.toggle = ~@] /\ DOMAIN q = DOMAIN m /\ \A j \in DOMAIN m : j # i => q[j] = m[j]
  BY <1>1
<1>3. q[i] \in Mouse /\ q[i].toggle = ~m[i].toggle /\ q[i].dev = m[i].dev /\ q[i].addr = m[i].addr
  BY <1>1, <1>2 DEF Mouse
<1>4. q \in Seq(Mouse)
  <2>1. q = [m EXCEPT ![i] = q[i]]
    BY <1>1
  <2> QED
    BY <1>1, <1>3, <2>1
<1>5. \A j \in DOMAIN m : q[j].dev = m[j].dev /\ q[j].addr = m[j].addr
  BY <1>2, <1>3
<1>6. SlotOk(q, k, n)
  BY <1>2, <1>4, <1>5 DEF SlotOk
<1>7. SlotDevs(q, k) = SlotDevs(m, k)
  BY <1>2, <1>5 DEF SlotDevs
<1> QED
  BY <1>1, <1>2, <1>3, <1>6, <1>7

LEMMA KbdToggles ==
    ASSUME NEW m, NEW k, NEW n, SlotOk(m, k, n), k.ready, NEW q, q = [k EXCEPT !.toggle = ~@]
    PROVE  /\ SlotOk(m, q, n) /\ SlotDevs(m, q) = SlotDevs(m, k)
           /\ q.toggle = ~k.toggle /\ q.dev = k.dev /\ q.ready
<1>1. k \in Keyboard /\ k.addr < n
  BY KbdSlot
<1>2. q \in Keyboard /\ q.toggle = ~k.toggle /\ q.dev = k.dev /\ q.addr = k.addr /\ q.ready
  BY <1>1 DEF Keyboard
<1>3. SlotOk(m, q, n)
  BY <1>1, <1>2 DEF SlotOk
<1> QED
  BY <1>2, <1>3 DEF SlotDevs

----------------------------------------------------------------------------
(* The search.                                                             *)

BusHosts == {"uhci", "ohci"}

Wired(h, b) == h \in BusHosts => WiredBy(b, Below(b))

PlaceInv ==
    /\ machine \in Machines
    /\ Wired(host, bus)
    /\ SlotOk(mice, kbd, next_free)
    /\ AddrOk(addr, strays, next_free)
    /\ PendOk(walk, SlotDevs(mice, kbd), Below(bus))

LEMMA FreshPlaces ==
    ASSUME NEW f
    PROVE  /\ SlotOk(<<>>, NoKbd, 1) /\ AddrOk([d \in Devices |-> NoAddr], {}, 1)
           /\ SlotDevs(<<>>, NoKbd) = {} /\ PendOk(<<>>, {}, f)
<1>0. MaxAddr \in Nat /\ NoAddr = MaxAddr + 1 /\ 1 \in 1 .. NoAddr /\ NoAddr \in 0 .. NoAddr /\ NoAddr # 0
  BY BusAssumption DEF NoAddr
<1>1. SlotOk(<<>>, NoKbd, 1)
  BY <1>0 DEF SlotOk
<1>2. AddrOk([d \in Devices |-> NoAddr], {}, 1)
  BY <1>0 DEF AddrOk
<1>3. SlotDevs(<<>>, NoKbd) = {}
  BY DEF SlotDevs, NoKbd
<1>4. PendOk(<<>>, {}, f)
  BY DEF PendOk
<1> QED
  BY <1>1, <1>2, <1>3, <1>4

LEMMA PlaceInit == Init => PlaceInv
<1> SUFFICES ASSUME Init PROVE PlaceInv
  OBVIOUS
<1>1. /\ machine \in Machines /\ host = "none" /\ walk = <<>> /\ next_free = 1
      /\ addr = [d \in Devices |-> NoAddr] /\ strays = {} /\ mice = <<>> /\ kbd = NoKbd
  BY DEF Init
<1> QED
  BY <1>1, FreshPlaces DEF PlaceInv, Wired, BusHosts

LEMMA PlaceBegin ==
    ASSUME PlaceInv, UNCHANGED machine,
           \/ HostInit("native", NoBus)
           \/ \E h \in {"uhci", "ohci"} : machine[h] # NoBus /\ HostInit(h, machine[h])
    PROVE  PlaceInv'
<1>1. PICK h, b : HostInit(h, b) /\ ((h = "native" /\ b = NoBus) \/ (h \in BusHosts /\ b = machine[h] /\ b # NoBus))
  BY DEF BusHosts
<1>2. /\ host' = h /\ bus' = b /\ walk' = IF b = NoBus THEN <<>> ELSE <<b.root>>
      /\ next_free' = 1 /\ addr' = [d \in Devices |-> NoAddr] /\ strays' = {} /\ mice' = <<>> /\ kbd' = NoKbd
  BY <1>1 DEF HostInit
<1>3. SlotOk(mice', kbd', next_free') /\ AddrOk(addr', strays', next_free') /\ SlotDevs(mice', kbd') = {}
  BY <1>2, FreshPlaces
<1>4. machine' \in Machines
  BY DEF PlaceInv
<1>5. CASE h = "native" /\ b = NoBus
  <2>1. PendOk(walk', {}, Below(bus'))
    BY <1>2, <1>5, FreshPlaces
  <2>2. Wired(host', bus')
    BY <1>2, <1>5 DEF Wired, BusHosts
  <2> QED
    BY <1>3, <1>4, <2>1, <2>2 DEF PlaceInv
<1>6. CASE h \in BusHosts /\ b = machine[h] /\ b # NoBus
  <2>1. \E f \in [Devices -> SUBSET Devices] : WiredBy(b, f)
    BY <1>6, WiringAssumption DEF PlaceInv, BusHosts
  <2>2. WiredBy(b, Below(b))
    BY <2>1 DEF Below
  <2>3. b.root \in Seq(Devices) /\ Apart(b.root, Below(b))
    BY <2>2 DEF WiredBy
  <2>4. PendOk(<<b.root>>, {}, Below(b))
    <3> DEFINE w == <<b.root>>
    <3>1. w \in Seq(Seq(Devices)) /\ DOMAIN w = {1} /\ w[1] = b.root
      BY <2>3
    <3> HIDE DEF w
    <3>2. PendOk(w, {}, Below(b))
      BY <2>3, <3>1 DEF PendOk, Apart
    <3> QED
      BY <3>2 DEF w
  <2> QED
    BY <1>2, <1>3, <1>4, <1>6, <2>2, <2>4 DEF PlaceInv, Wired
<1> QED
  BY <1>1, <1>5, <1>6

\* The port that is visited next.
LEMMA VisitFacts ==
    ASSUME PlaceInv, Visiting
    PROVE  /\ Port \in Devices /\ Port \notin SlotDevs(mice, kbd)
           /\ Within(Below(bus), Port) \cap SlotDevs(mice, kbd) = {}
           /\ PendOk(PortDone, SlotDevs(mice, kbd), Below(bus))
           /\ \A a \in DOMAIN PortDone : \A i \in DOMAIN PortDone[a] :
                 Within(Below(bus), PortDone[a][i]) \cap Within(Below(bus), Port) = {}
<1>1. PendOk(walk, SlotDevs(mice, kbd), Below(bus)) /\ walk # <<>> /\ walk[Len(walk)] # <<>>
  BY DEF PlaceInv, Visiting
<1> QED
  BY <1>1, PendVisit DEF Port, PortDone

LEMMA EnumerateStep == ASSUME PlaceInv, EnumerateDeviceAtZero, UNCHANGED machine PROVE PlaceInv'
<1> DEFINE D == SlotDevs(mice, kbd)
           f == Below(bus)
<1>0. Visiting /\ next_free <= MaxAddr /\ next_free \in 1 .. NoAddr /\ MaxAddr \in Nat /\ NoAddr = MaxAddr + 1
  BY BusAssumption DEF EnumerateDeviceAtZero, PlaceInv, SlotOk, NoAddr
<1>1. next_free \in 1 .. MaxAddr
  BY <1>0
<1>2. /\ addr' = Taken(addr) /\ next_free' = next_free + 1 /\ UNCHANGED <<host, bus, strays>>
      /\ IF LoadConfigTuple(Port) = "hub"
         THEN walk' = Append(PortDone, bus.kids[Port]) /\ UNCHANGED <<mice, kbd>>
         ELSE walk' = PortDone /\ ConfigureHidBoot(Port)
  BY DEF EnumerateDeviceAtZero
<1>3. /\ Port \in Devices /\ Port \notin D /\ Within(f, Port) \cap D = {} /\ PendOk(PortDone, D, f)
      /\ \A a \in DOMAIN PortDone : \A i \in DOMAIN PortDone[a] : Within(f, PortDone[a][i]) \cap Within(f, Port) = {}
  BY <1>0, VisitFacts
<1>4. AddrOk(addr', strays', next_free')
  BY <1>1, <1>2, <1>3, AddrTaken DEF PlaceInv, Taken, Reset
<1>5. SlotOk(mice, kbd, next_free)
  BY DEF PlaceInv
<1>6. CASE LoadConfigTuple(Port) = "hub"
  <2>1. host \in BusHosts
    BY <1>0 DEF Visiting, BusHosts
  <2>2. WiredBy(bus, f)
    BY <2>1 DEF PlaceInv, Wired
  <2>3. /\ bus.kids[Port] \in Seq(Devices) /\ Apart(bus.kids[Port], f)
        /\ \A i \in DOMAIN bus.kids[Port] : Within(f, bus.kids[Port][i]) \subseteq f[Port]
    BY <1>3, <2>2 DEF WiredBy
  <2>4. PendOk(Append(PortDone, bus.kids[Port]), D, f)
    BY <1>3, <2>3, PendHub
  <2>5. SlotOk(mice', kbd', next_free')
    BY <1>1, <1>2, <1>5, <1>6, SlotMore
  <2> QED
    BY <1>2, <1>4, <1>6, <2>4, <2>5 DEF PlaceInv
<1>7. CASE LoadConfigTuple(Port) # "hub"
  <2>1. walk' = PortDone /\ ConfigureHidBoot(Port)
    BY <1>2, <1>7
  <2>2. SlotOk(mice', kbd', next_free') /\ SlotDevs(mice', kbd') \subseteq D \cup {Port}
    <3>1. CASE mice' = AddMouseSlot(Port) /\ UNCHANGED kbd
      <4>1. CASE mice' = Append(mice, [dev |-> Port, addr |-> next_free, toggle |-> FALSE])
        BY <1>1, <1>2, <1>3, <1>5, <3>1, <4>1, AddMouse
      <4>2. CASE mice' = mice
        BY <1>1, <1>2, <1>5, <3>1, <4>2, SlotMore
      <4> QED
        BY <3>1, <4>1, <4>2 DEF AddMouseSlot
    <3>2. CASE /\ kbd' = IF kbd.ready THEN kbd
                         ELSE [ready |-> TRUE, dev |-> Port, addr |-> next_free, toggle |-> FALSE]
               /\ UNCHANGED mice
      <4>1. CASE kbd.ready
        BY <1>1, <1>2, <1>5, <3>2, <4>1, SlotMore
      <4>2. CASE ~kbd.ready
        BY <1>1, <1>2, <1>3, <1>5, <3>2, <4>2, AddKbd
      <4> QED
        BY <4>1, <4>2
    <3>3. CASE UNCHANGED <<mice, kbd>>
      BY <1>1, <1>2, <1>5, <3>3, SlotMore
    <3> QED
      BY <2>1, <3>1, <3>2, <3>3 DEF ConfigureHidBoot
  <2>3. PendOk(walk', SlotDevs(mice', kbd'), f)
    BY <1>3, <2>1, <2>2, PendMore
  <2> QED
    BY <1>2, <1>4, <2>2, <2>3 DEF PlaceInv
<1> QED
  BY <1>6, <1>7

LEMMA SearchStep == ASSUME PlaceInv, EnumerationStep, UNCHANGED machine PROVE PlaceInv'
<1>0. /\ SlotOk(mice, kbd, next_free) /\ AddrOk(addr, strays, next_free) /\ Wired(host, bus) /\ machine \in Machines
      /\ PendOk(walk, SlotDevs(mice, kbd), Below(bus)) /\ MaxAddr \in Nat /\ NoAddr = MaxAddr + 1
      /\ next_free \in 1 .. NoAddr /\ next_free <= next_free
  BY BusAssumption DEF PlaceInv, SlotOk, NoAddr
<1>1. CASE PortResetFails
  <2>1. Visiting /\ walk' = PortDone /\ UNCHANGED <<host, bus, next_free, mice, kbd>>
    BY <1>1 DEF PortResetFails
  <2>2. AddrOk(addr', strays', next_free')
    <3>1. CASE addr' = addr /\ strays' = strays
      BY <1>0, <2>1, <3>1
    <3>2. CASE addr' = Reset(addr) /\ strays' = strays \cup {Port}
      BY <1>0, <2>1, <3>2, VisitFacts, AddrReset DEF Reset
    <3> QED
      BY <1>1, <3>1, <3>2 DEF PortResetFails
  <2> QED
    BY <1>0, <2>1, <2>2, VisitFacts DEF PlaceInv
<1>2. CASE AddressesUsedUp
  <2>1. Visiting /\ walk' = [walk EXCEPT ![Len(walk)] = <<>>] /\ UNCHANGED <<host, bus, next_free, mice, kbd>>
    BY <1>2 DEF AddressesUsedUp
  <2>2. AddrOk(addr', strays', next_free')
    <3>1. CASE addr' = addr /\ strays' = strays
      BY <1>0, <2>1, <3>1
    <3>2. CASE addr' = Reset(addr) /\ strays' = strays \cup {Port}
      BY <1>0, <2>1, <3>2, VisitFacts, AddrReset DEF Reset
    <3> QED
      BY <1>2, <3>1, <3>2 DEF AddressesUsedUp
  <2>3. PendOk(walk', SlotDevs(mice, kbd), Below(bus))
    BY <1>0, <2>1, PendPop DEF Visiting
  <2> QED
    BY <1>0, <2>1, <2>2, <2>3 DEF PlaceInv
<1>3. CASE SetAddressFails \/ ConfigurationFails
  <2>1. Visiting /\ walk' = PortDone /\ next_free' = next_free + 1 /\ next_free <= MaxAddr /\ UNCHANGED <<host, bus, mice, kbd>>
    BY <1>3 DEF SetAddressFails, ConfigurationFails
  <2>2. next_free \in 1 .. MaxAddr /\ next_free + 1 \in 1 .. NoAddr /\ next_free <= next_free + 1
    BY <1>0, <2>1
  <2>3. AddrOk(addr', strays', next_free')
    <3>1. CASE addr' = Reset(addr) /\ strays' = strays \cup {Port}
      BY <1>0, <2>1, <2>2, <3>1, VisitFacts, AddrReset DEF Reset
    <3>2. CASE addr' = Taken(addr) /\ strays' = strays
      BY <1>0, <2>1, <2>2, <3>2, VisitFacts, AddrTaken DEF Taken, Reset
    <3> QED
      BY <1>3, <3>1, <3>2 DEF SetAddressFails, ConfigurationFails
  <2>4. SlotOk(mice', kbd', next_free')
    BY <1>0, <2>1, <2>2, SlotMore
  <2> QED
    BY <1>0, <2>1, <2>3, <2>4, VisitFacts DEF PlaceInv
<1>4. CASE EnumerateDeviceAtZero
  BY <1>4, EnumerateStep
<1>5. CASE HubDone
  <2>1. walk # <<>> /\ walk' = SubSeq(walk, 1, Len(walk) - 1) /\ UNCHANGED <<host, bus, next_free, addr, strays, mice, kbd>>
    BY <1>5 DEF HubDone
  <2>2. PendOk(walk', SlotDevs(mice, kbd), Below(bus))
    BY <1>0, <2>1, PendPop
  <2> QED
    BY <1>0, <2>1, <2>2 DEF PlaceInv
<1> QED
  BY <1>1, <1>2, <1>3, <1>4, <1>5 DEF EnumerationStep

LEMMA PlaceStep == PlaceInv /\ [Next]_vars => PlaceInv'
<1> SUFFICES ASSUME PlaceInv, [Next]_vars PROVE PlaceInv'
  OBVIOUS
<1>0. BusAction
  BY BusActions
<1>1. CASE UNCHANGED <<bus, walk, next_free, addr, strays, mice, kbd, machine>> /\ host' \in {host, "none"}
  BY <1>1 DEF PlaceInv, Wired, BusHosts
<1>2. CASE /\ UNCHANGED machine
           /\ \/ HostInit("native", NoBus)
              \/ \E h \in {"uhci", "ohci"} : machine[h] # NoBus /\ HostInit(h, machine[h])
  BY <1>2, PlaceBegin
<1>3. CASE EnumerationStep /\ UNCHANGED machine
  BY <1>3, SearchStep
<1>4. CASE UNCHANGED machine /\ \E i \in 1 .. Len(mice) : BusPollMouse(i)
  <2>1. PICK i \in 1 .. Len(mice) : BusPollMouse(i)
    BY <1>4
  <2>2. UNCHANGED <<host, bus, walk, next_free, addr, strays, kbd>> /\ mice' \in {mice, [mice EXCEPT ![i].toggle = ~@]}
    BY <2>1 DEF BusPollMouse
  <2>3. SlotOk(mice', kbd', next_free') /\ SlotDevs(mice', kbd') = SlotDevs(mice, kbd)
    BY <2>2, MouseToggles DEF PlaceInv
  <2> QED
    BY <1>4, <2>2, <2>3 DEF PlaceInv
<1>5. CASE UNCHANGED machine /\ kbd.ready /\ \E r \in 0 .. MaxReports : BusPollKeyboard(r)
  <2>1. UNCHANGED <<host, bus, walk, next_free, addr, strays, mice>> /\ kbd' = [kbd EXCEPT !.toggle = ~@]
    BY <1>5 DEF BusPollKeyboard
  <2>2. SlotOk(mice', kbd', next_free') /\ SlotDevs(mice', kbd') = SlotDevs(mice, kbd)
    BY <1>5, <2>1, KbdToggles DEF PlaceInv
  <2> QED
    BY <1>5, <2>1, <2>2 DEF PlaceInv
<1>6. CASE LateIn /\ UNCHANGED machine
  BY <1>1, <1>6 DEF LateIn
<1> QED
  BY <1>0, <1>1, <1>2, <1>3, <1>4, <1>5, <1>6 DEF BusAction, Searched

\* However the hubs are nested and whatever fails on the way: no two slots of UHCI or OHCI have one address, two
\* devices there answer to one only if a reset or SET_ADDRESS left one of them at address 0, and on the native
\* driver a mouse found after the keyboard, in a slot of its own, has a context of its own.
\* (enumerate_device_at_zero, next_free, ctx_for_slot)
THEOREM NothingIsShared == Spec => []NothingShared
<1>1. ASSUME PlaceInv PROVE SlotAddressesUnique
  <2> DEFINE l == Len(mice)
             a == [i \in 1 .. l |-> mice[i].addr]
  <2>1. SlotOk(mice, kbd, next_free) /\ mice \in Seq(Mouse) /\ l \in Nat /\ DOMAIN mice = 1 .. l
    BY <1>1 DEF PlaceInv, SlotOk
  <2>2. \A i \in 1 .. l : mice[i].addr \in 1 .. MaxAddr
    <3>1. \A i \in 1 .. l : mice[i] \in Mouse
      BY <2>1
    <3> QED
      BY <3>1 DEF Mouse
  <2>3. a \in Seq(1 .. MaxAddr) /\ Len(a) = l /\ DOMAIN a = 1 .. l /\ \A i \in 1 .. l : a[i] = mice[i].addr
    BY <2>1, <2>2
  <2> HIDE DEF a
  <2>4. \A i, j \in 1 .. l : i # j => a[i] # a[j]
    BY <2>1, <2>3 DEF SlotOk
  <2>5. CASE kbd.ready
    <3>1. kbd.addr \in 1 .. MaxAddr
      BY <2>1, <2>5, KbdSlot
    <3>2. Slots = a \o <<kbd.addr>>
      BY <2>5 DEF Slots, a
    <3>3. DOMAIN Slots = 1 .. l + 1 /\ Slots[l + 1] = kbd.addr /\ \A i \in 1 .. l : Slots[i] = a[i]
      BY <2>1, <2>3, <3>1, <3>2, SMTT(30)
    <3>4. \A i \in DOMAIN Slots : i = l + 1 \/ (i # l + 1 /\ i \in 1 .. l)
      BY <2>1, <3>3
    <3>5. \A i \in 1 .. l : a[i] # kbd.addr
      BY <2>1, <2>3, <2>5 DEF SlotOk
    <3>6. \A i \in DOMAIN Slots : Slots[i] \in 1 .. MaxAddr
      BY <2>2, <2>3, <3>1, <3>3, <3>4
    <3>7. \A i, j \in DOMAIN Slots : Slots[i] = Slots[j] => i = j
      BY <2>4, <3>3, <3>4, <3>5
    <3> QED
      BY <3>6, <3>7 DEF SlotAddressesUnique
  <2>6. CASE ~kbd.ready
    <3>1. Slots = a \o <<>>
      BY <2>6 DEF Slots, a
    <3>2. Slots = a
      BY <2>3, <3>1
    <3> QED
      BY <2>2, <2>3, <2>4, <3>2 DEF SlotAddressesUnique
  <2> QED
    BY <2>5, <2>6
<1>2. ASSUME PlaceInv PROVE SharedOnlyByStrays
  BY <1>2 DEF PlaceInv, AddrOk, SharedOnlyByStrays
<1>3. PlaceInv /\ CtxInv => NothingShared
  BY <1>1, <1>2, CtxGives DEF NothingShared
<1> QED
  BY <1>3, PlaceInit, PlaceStep, CtxInit, CtxStep, PTL DEF Spec

----------------------------------------------------------------------------
(* Data toggles.  What OHCI leaves scheduled can take a report from the    *)
(* keyboard only while the last poll of it has failed; before the search   *)
(* is over nothing is polled and nothing lost.                             *)

TogInv ==
    /\ dtog \in [Devices -> BOOLEAN] /\ lost \in [Devices -> Nat] /\ slipped \in [Devices -> Nat]
    /\ okay \in [Eps -> BOOLEAN] /\ fails \in [Eps -> Nat]
    /\ left = Nothing \/ (left.dev \in Devices /\ host = "ohci" /\ active # "none")
    /\ active = "none" => ~okay["kbd"] /\ \A d \in Devices : lost[d] = 0 /\ slipped[d] = 0
    /\ host = "native" => ~kbd.ready
    /\ kbd.ready /\ left # Nothing /\ left.dev = kbd.dev => fails["kbd"] > 0
    /\ TogglesInStep

\* How far a toggle u is out of step with t.
Off(u, t) == IF u = t THEN 0 ELSE 1

LEMMA InEffect ==
    ASSUME TogInv, NEW d \in Devices, NEW t \in BOOLEAN, NEW o \in InOutcomes(d, t), InterruptIn(d, t, o)
    PROVE  /\ dtog' \in [Devices -> BOOLEAN] /\ lost' \in [Devices -> Nat] /\ slipped' \in [Devices -> Nat]
           /\ \A e \in Devices : e # d => dtog'[e] = dtog[e] /\ lost'[e] = lost[e] /\ slipped'[e] = slipped[e]
           /\ o.r \in {"err", "ok", "short", "slip"}
           /\ o.r = "err" => lost'[d] + Off(dtog'[d], t) = lost[d] + Off(dtog[d], t) /\ slipped'[d] = slipped[d]
           /\ o.r \in {"ok", "short"} => lost'[d] = lost[d] + Off(dtog[d], t) /\ slipped'[d] = slipped[d]
           /\ o.r = "slip" => lost'[d] = lost[d] + Off(dtog[d], t) + 1 /\ slipped'[d] = slipped[d] + 1
           /\ o.r # "err" => dtog'[d] = ~t
           /\ left' = IF host = "ohci" /\ o.r = "err" THEN [dev |-> d, toggle |-> t] ELSE Nothing
<1> DEFINE W == Waiting(d)
           s == IF W > 0 /\ dtog[d] # t THEN 1 ELSE 0
<1>1. \/ o \in {[r |-> "err", skip |-> 0], [r |-> "err", skip |-> s]}
      \/ W > s /\ o \in {[r |-> "ok", skip |-> s], [r |-> "short", skip |-> s], [r |-> "slip", skip |-> s]}
  BY DEF InOutcomes
<1>2. o.skip \in {0, 1} /\ (dtog[d] = t => o.skip = 0) /\ o.r \in {"err", "ok", "short", "slip"}
  BY <1>1
<1>3. o.r # "err" => (o.skip = 1 <=> dtog[d] # t)
  <2> SUFFICES ASSUME o.r # "err" PROVE o.skip = 1 <=> dtog[d] # t
    OBVIOUS
  <2>1. W > s /\ o.skip = s
    BY <1>1
  <2>2. CASE dtog[d] = t
    BY <2>1, <2>2
  <2>3. CASE dtog[d] # t /\ W > 0
    BY <2>1, <2>3
  <2>4. CASE dtog[d] # t /\ ~(W > 0)
    <3>1. s = 0
      BY <2>4
    <3>2. W > 0
      BY <2>1, <3>1
    <3> QED
      BY <2>4, <3>2
  <2> QED
    BY <2>2, <2>3, <2>4
<1> HIDE DEF W, s
<1> DEFINE n == IF o.r = "err" THEN o.skip ELSE o.skip + 1
           m == IF o.r = "slip" THEN n ELSE o.skip
<1>4. /\ lost' = [lost EXCEPT ![d] = @ + m]
      /\ slipped' = IF o.r = "slip" THEN [slipped EXCEPT ![d] = @ + 1] ELSE slipped
      /\ dtog' = IF n = 1 THEN [dtog EXCEPT ![d] = ~@] ELSE dtog
      /\ left' = IF host = "ohci" /\ o.r = "err" THEN [dev |-> d, toggle |-> t] ELSE Nothing
  BY DEF InterruptIn
<1>5. dtog \in [Devices -> BOOLEAN] /\ lost \in [Devices -> Nat] /\ slipped \in [Devices -> Nat] /\ m \in Nat
  BY <1>2 DEF TogInv
<1> HIDE DEF n, m
<1>6. lost' \in [Devices -> Nat] /\ lost'[d] = lost[d] + m /\ \A e \in Devices : e # d => lost'[e] = lost[e]
  BY <1>4, <1>5
<1>7. /\ dtog' \in [Devices -> BOOLEAN] /\ \A e \in Devices : e # d => dtog'[e] = dtog[e]
      /\ dtog'[d] = IF n = 1 THEN ~dtog[d] ELSE dtog[d]
  BY <1>4, <1>5
<1>8. /\ slipped' \in [Devices -> Nat] /\ \A e \in Devices : e # d => slipped'[e] = slipped[e]
      /\ slipped'[d] = IF o.r = "slip" THEN slipped[d] + 1 ELSE slipped[d]
  BY <1>4, <1>5
<1>9. dtog[d] \in BOOLEAN /\ lost[d] \in Nat /\ slipped[d] \in Nat
  BY <1>5
<1>10. CASE o.r = "err"
  <2>1. n = o.skip /\ m = o.skip
    BY <1>10 DEF n, m
  <2>2. CASE o.skip = 0
    <3>1. dtog'[d] = dtog[d] /\ lost'[d] = lost[d]
      BY <1>6, <1>7, <1>9, <2>1, <2>2
    <3> QED
      BY <1>2, <1>4, <1>6, <1>7, <1>8, <1>10, <3>1
  <2>3. CASE o.skip = 1
    <3>1. dtog[d] # t /\ dtog'[d] = ~dtog[d] /\ lost'[d] = lost[d] + 1
      BY <1>2, <1>6, <1>7, <2>1, <2>3
    <3>2. dtog'[d] = t
      BY <1>9, <3>1
    <3>3. Off(dtog'[d], t) = 0 /\ Off(dtog[d], t) = 1
      BY <3>1, <3>2 DEF Off
    <3> QED
      BY <1>2, <1>4, <1>6, <1>7, <1>8, <1>9, <1>10, <3>1, <3>3
  <2> QED
    BY <1>2, <2>2, <2>3
<1>11. CASE o.r # "err"
  <2>1. n = o.skip + 1 /\ m = (IF o.r = "slip" THEN o.skip + 1 ELSE o.skip) /\ o.skip = Off(dtog[d], t)
    BY <1>2, <1>3, <1>11 DEF n, m, Off
  <2>2. (dtog[d] = t => n = 1) /\ (dtog[d] # t => n # 1)
    BY <2>1 DEF Off
  <2>3. dtog'[d] = ~t
    BY <1>7, <1>9, <2>2
  <2>4. /\ o.r \in {"ok", "short"} => lost'[d] = lost[d] + Off(dtog[d], t) /\ slipped'[d] = slipped[d]
        /\ o.r = "slip" => lost'[d] = lost[d] + (Off(dtog[d], t) + 1) /\ slipped'[d] = slipped[d] + 1
    BY <1>6, <1>8, <2>1
  <2>5. lost[d] + (Off(dtog[d], t) + 1) = lost[d] + Off(dtog[d], t) + 1
    BY <1>9 DEF Off
  <2> QED
    BY <1>2, <1>4, <1>6, <1>7, <1>8, <1>11, <2>3, <2>4, <2>5
<1> QED
  BY <1>10, <1>11

LEMMA ToggleInit == Init => TogInv
<1> SUFFICES ASSUME Init PROVE TogInv
  OBVIOUS
<1>1. /\ host = "none" /\ active = "none" /\ mice = <<>> /\ kbd = NoKbd /\ left = Nothing
      /\ okay = [k \in Eps |-> FALSE] /\ fails = [k \in Eps |-> 0]
      /\ dtog = [d \in Devices |-> FALSE] /\ lost = [d \in Devices |-> 0] /\ slipped = [d \in Devices |-> 0]
  BY DEF Init
<1>2. ~kbd.ready /\ okay["kbd"] = FALSE
  BY <1>1 DEF NoKbd, Eps
<1> QED
  BY <1>1, <1>2 DEF TogInv, TogglesInStep, MiceLoseBySlips, GoodReportResyncs

LEMMA ToggleBegin ==
    ASSUME TogInv, active = "none", UNCHANGED <<dtog, lost, slipped, active>>, NEW h, NEW b, HostInit(h, b)
    PROVE  TogInv'
<1>1. /\ mice' = <<>> /\ kbd' = NoKbd /\ left' = Nothing
      /\ okay' = [k \in {"kbd", "mouse"} |-> FALSE] /\ fails' = [k \in {"kbd", "mouse"} |-> 0]
  BY DEF HostInit
<1>2. ~kbd'.ready /\ okay'["kbd"] = FALSE /\ okay' \in [Eps -> BOOLEAN] /\ fails' \in [Eps -> Nat] /\ DOMAIN mice' = {}
  BY <1>1 DEF NoKbd, Eps
<1>3. TogglesInStep'
  BY <1>2 DEF TogglesInStep, MiceLoseBySlips, GoodReportResyncs
<1> QED
  BY <1>1, <1>2, <1>3 DEF TogInv

LEMMA ToggleSearch ==
    ASSUME TogInv, PlaceInv, active = "none", EnumerationStep, UNCHANGED active PROVE TogInv'
<1>0. /\ UNCHANGED <<host, okay, fails, left, lost, slipped>> /\ left = Nothing /\ okay["kbd"] = FALSE /\ host # "native"
      /\ dtog \in [Devices -> BOOLEAN] /\ \A d \in Devices : lost[d] = 0 /\ slipped[d] = 0
  BY DEF TogInv, EnumerationStep, PortResetFails, AddressesUsedUp, SetAddressFails, ConfigurationFails,
         EnumerateDeviceAtZero, HubDone, Visiting, devVars, Eps
<1>1. GoodReportResyncs'
  BY <1>0 DEF GoodReportResyncs
<1>2. ASSUME dtog' \in [Devices -> BOOLEAN], MiceLoseBySlips' PROVE TogInv'
  BY <1>0, <1>1, <1>2 DEF TogInv, TogglesInStep
<1>3. mice \in Seq(Mouse) /\ \A i \in DOMAIN mice : mice[i].dev \in SlotDevs(mice, kbd) /\ mice[i].dev \in Devices
  <2>1. mice \in Seq(Mouse)
    BY DEF PlaceInv, SlotOk
  <2>2. \A i \in DOMAIN mice : mice[i] \in Mouse
    BY <2>1
  <2> QED
    BY <2>1, <2>2 DEF SlotDevs, Mouse
<1>4. CASE UNCHANGED <<mice, dtog>>
  BY <1>0, <1>2, <1>4 DEF MiceLoseBySlips, TogInv, TogglesInStep
<1>5. CASE Visiting /\ ResetToggle
  <2>1. Port \in Devices /\ Port \notin SlotDevs(mice, kbd)
    BY <1>5, VisitFacts
  <2>2. dtog' = [dtog EXCEPT ![Port] = FALSE]
    BY <1>5 DEF ResetToggle
  <2>3. dtog' \in [Devices -> BOOLEAN] /\ dtog'[Port] = FALSE /\ \A d \in Devices : d # Port => dtog'[d] = dtog[d]
    BY <1>0, <2>1, <2>2
  <2>4. \A i \in DOMAIN mice : dtog'[mice[i].dev] = dtog[mice[i].dev]
    BY <1>3, <2>1, <2>3
  <2>5. CASE UNCHANGED mice
    BY <1>0, <1>2, <2>3, <2>4, <2>5 DEF MiceLoseBySlips, TogInv, TogglesInStep
  <2>6. CASE mice' = Append(mice, [dev |-> Port, addr |-> next_free, toggle |-> FALSE])
    <3> DEFINE r == [dev |-> Port, addr |-> next_free, toggle |-> FALSE]
    <3>1. r.dev = Port /\ r.toggle = FALSE
      OBVIOUS
    <3>2. \A i \in DOMAIN mice' : mice'[i] = r \/ (i \in DOMAIN mice /\ mice'[i] = mice[i])
      <4> HIDE DEF r
      <4>1. mice' = Append(mice, r)
        BY <2>6 DEF r
      <4>2. Len(mice) \in Nat /\ DOMAIN mice = 1 .. Len(mice)
        BY <1>3
      <4>3. DOMAIN mice' = 1 .. Len(mice) + 1 /\ mice'[Len(mice) + 1] = r /\ \A i \in 1 .. Len(mice) : mice'[i] = mice[i]
        BY <4>1, <4>2, <1>3
      <4> QED
        BY <4>2, <4>3
    <3> HIDE DEF r
    <3>3. MiceLoseBySlips'
      <4> SUFFICES ASSUME host' = "uhci", NEW i \in DOMAIN mice'
                   PROVE  lost'[mice'[i].dev] + (IF mice'[i].toggle = dtog'[mice'[i].dev] THEN 0 ELSE 1)
                            = 2 * slipped'[mice'[i].dev]
        BY DEF MiceLoseBySlips
      <4>1. CASE mice'[i] = r
        <5>1. mice'[i].dev = Port /\ mice'[i].toggle = dtog'[Port]
          BY <2>3, <3>1, <4>1
        <5>2. lost'[Port] = 0 /\ slipped'[Port] = 0
          BY <1>0, <2>1
        <5> QED
          BY <5>1, <5>2
      <4>2. CASE i \in DOMAIN mice /\ mice'[i] = mice[i]
        BY <1>0, <2>4, <4>2 DEF TogInv, TogglesInStep, MiceLoseBySlips
      <4> QED
        BY <3>2, <4>1, <4>2
    <3> QED
      BY <1>2, <2>3, <3>3
  <2> QED
    BY <1>5, <2>5, <2>6 DEF EnumerationStep, PortResetFails, AddressesUsedUp, SetAddressFails, ConfigurationFails,
       EnumerateDeviceAtZero, HubDone, ConfigureHidBoot, AddMouseSlot
<1> QED
  BY <1>4, <1>5 DEF EnumerationStep, PortResetFails, AddressesUsedUp, SetAddressFails, ConfigurationFails,
     EnumerateDeviceAtZero, HubDone, devVars

LEMMA CountedPoll ==
    ASSUME TogInv, NEW k \in Eps, Succeeded(k) \/ Failed(k)
    PROVE  /\ okay' \in [Eps -> BOOLEAN] /\ fails' \in [Eps -> Nat]
           /\ Failed(k) => fails'[k] > 0
           /\ \A j \in Eps : j # k => fails'[j] = fails[j] /\ okay'[j] = okay[j]
<1>1. okay \in [Eps -> BOOLEAN] /\ fails \in [Eps -> Nat] /\ FailMax \in Nat /\ FailMax > 0
  BY BusAssumption DEF TogInv
<1>2. ASSUME Failed(k)
      PROVE  fails' \in [Eps -> Nat] /\ fails'[k] > 0 /\ okay' = okay /\ \A j \in Eps : j # k => fails'[j] = fails[j]
  <2>1. fails' = [fails EXCEPT ![k] = IF @ < FailMax THEN @ + 1 ELSE @] /\ okay' = okay
    BY <1>2 DEF Failed
  <2> QED
    BY <1>1, <2>1
<1>3. ASSUME Succeeded(k), ~Failed(k)
      PROVE  /\ fails' \in [Eps -> Nat] /\ okay' \in [Eps -> BOOLEAN]
             /\ \A j \in Eps : j # k => fails'[j] = fails[j] /\ okay'[j] = okay[j]
  <2>1. fails' = [fails EXCEPT ![k] = 0] /\ okay' = [okay EXCEPT ![k] = TRUE]
    BY <1>3 DEF Succeeded
  <2> QED
    BY <1>1, <2>1
<1> QED
  BY <1>1, <1>2, <1>3

LEMMA TogglePollMouse ==
    ASSUME TogInv, PlaceInv, active # "none", UNCHANGED active, NEW i \in 1 .. Len(mice), BusPollMouse(i)
    PROVE  TogInv'
<1> DEFINE d == mice[i].dev
           t == mice[i].toggle
<1>1. PICK o \in InOutcomes(d, t) :
        /\ InterruptIn(d, t, o)
        /\ mice' = IF Returns(o) THEN [mice EXCEPT ![i].toggle = ~@] ELSE mice
        /\ IF o.r = "ok" THEN Succeeded("mouse") ELSE Failed("mouse")
        /\ UNCHANGED <<host, kbd>>
  BY DEF BusPollMouse
<1>2. SlotOk(mice, kbd, next_free) /\ mice \in Seq(Mouse) /\ i \in DOMAIN mice
  BY DEF PlaceInv, SlotOk
<1>3. \A j \in DOMAIN mice : mice[j].dev \in Devices /\ mice[j].toggle \in BOOLEAN
  <2>1. \A j \in DOMAIN mice : mice[j] \in Mouse
    BY <1>2
  <2> QED
    BY <2>1 DEF Mouse
<1>4. d \in Devices /\ t \in BOOLEAN
  BY <1>2, <1>3
<1>5. /\ \A j \in DOMAIN mice : j # i => mice[j].dev # d
      /\ kbd.ready => kbd.dev # d
  BY <1>2 DEF SlotOk
<1> HIDE DEF d, t
<1>6. /\ dtog' \in [Devices -> BOOLEAN] /\ lost' \in [Devices -> Nat] /\ slipped' \in [Devices -> Nat]
      /\ \A e \in Devices : e # d => dtog'[e] = dtog[e] /\ lost'[e] = lost[e] /\ slipped'[e] = slipped[e]
      /\ o.r \in {"err", "ok", "short", "slip"}
      /\ o.r = "err" => lost'[d] + Off(dtog'[d], t) = lost[d] + Off(dtog[d], t) /\ slipped'[d] = slipped[d]
      /\ o.r \in {"ok", "short"} => lost'[d] = lost[d] + Off(dtog[d], t) /\ slipped'[d] = slipped[d]
      /\ o.r = "slip" => lost'[d] = lost[d] + Off(dtog[d], t) + 1 /\ slipped'[d] = slipped[d] + 1
      /\ o.r # "err" => dtog'[d] = ~t
      /\ left' = IF host = "ohci" /\ o.r = "err" THEN [dev |-> d, toggle |-> t] ELSE Nothing
  BY <1>1, <1>4, InEffect
<1>7. /\ okay' \in [Eps -> BOOLEAN] /\ fails' \in [Eps -> Nat] /\ fails'["kbd"] = fails["kbd"] /\ okay'["kbd"] = okay["kbd"]
  BY <1>1, CountedPoll DEF Eps
<1>8. /\ DOMAIN mice' = DOMAIN mice /\ mice'[i].dev = d /\ mice'[i].toggle = IF Returns(o) THEN ~t ELSE t
      /\ \A j \in DOMAIN mice : j # i => mice'[j] = mice[j]
  <2>1. CASE ~Returns(o)
    BY <1>1, <2>1 DEF d, t
  <2>2. CASE Returns(o)
    <3>1. mice' = [mice EXCEPT ![i].toggle = ~@]
      BY <1>1, <2>2
    <3> QED
      BY <1>2, <2>2, <3>1, MouseToggles DEF d, t
  <2> QED
    BY <2>1, <2>2
<1>9. MiceLoseBySlips'
  <2> SUFFICES ASSUME host = "uhci", NEW j \in DOMAIN mice
               PROVE  lost'[mice'[j].dev] + (IF mice'[j].toggle = dtog'[mice'[j].dev] THEN 0 ELSE 1)
                        = 2 * slipped'[mice'[j].dev]
    BY <1>1, <1>8 DEF MiceLoseBySlips
  <2>1. \A k \in DOMAIN mice :
          lost[mice[k].dev] + (IF mice[k].toggle = dtog[mice[k].dev] THEN 0 ELSE 1) = 2 * slipped[mice[k].dev]
    BY DEF TogInv, TogglesInStep, MiceLoseBySlips
  <2>2. CASE j = i
    <3>1. lost[d] + Off(dtog[d], t) = 2 * slipped[d] /\ lost[d] \in Nat /\ slipped[d] \in Nat
      BY <1>2, <1>4, <2>1 DEF d, t, Off, TogInv
    <3>2. lost'[d] + Off(dtog'[d], mice'[i].toggle) = 2 * slipped'[d]
      <4>1. CASE o.r = "err"
        BY <1>6, <1>8, <3>1, <4>1 DEF Returns
      <4>2. CASE o.r \in {"ok", "short"}
        <5>1. Off(dtog'[d], mice'[i].toggle) = 0 /\ lost'[d] \in Nat
          BY <1>4, <1>6, <1>8, <4>2 DEF Returns, Off
        <5> QED
          BY <1>6, <3>1, <4>2, <5>1
      <4>3. CASE o.r = "slip"
        <5>1. Off(dtog'[d], mice'[i].toggle) = 1 /\ Off(dtog[d], t) \in Nat
          BY <1>4, <1>6, <1>8, <4>3 DEF Returns, Off
        <5>2. lost'[d] = lost[d] + Off(dtog[d], t) + 1 /\ slipped'[d] = slipped[d] + 1
          BY <1>6, <4>3
        <5> HIDE DEF Off
        <5> QED
          BY <3>1, <5>1, <5>2
      <4> QED
        BY <1>6, <4>1, <4>2, <4>3
    <3>3. Off(dtog'[d], mice'[i].toggle) = IF mice'[i].toggle = dtog'[d] THEN 0 ELSE 1
      BY DEF Off
    <3> QED
      BY <1>8, <2>2, <3>2, <3>3
  <2>3. CASE j # i
    <3>1. mice'[j] = mice[j] /\ mice[j].dev \in Devices /\ mice[j].dev # d
      BY <1>3, <1>5, <1>8, <2>3
    <3>2. /\ dtog'[mice[j].dev] = dtog[mice[j].dev] /\ lost'[mice[j].dev] = lost[mice[j].dev]
          /\ slipped'[mice[j].dev] = slipped[mice[j].dev]
      BY <1>6, <3>1
    <3> QED
      BY <2>1, <3>1, <3>2
  <2> QED
    BY <2>2, <2>3
<1>10. GoodReportResyncs'
  <2> SUFFICES ASSUME kbd.ready, okay["kbd"], fails["kbd"] = 0 PROVE kbd.toggle = dtog'[kbd.dev]
    BY <1>1, <1>7 DEF GoodReportResyncs
  <2>1. kbd.dev \in Devices /\ kbd.dev # d
    BY <1>2, <1>5, KbdSlot
  <2> QED
    BY <1>6, <2>1 DEF TogInv, TogglesInStep, GoodReportResyncs
<1>11. left' = Nothing \/ (left'.dev = d /\ host = "ohci")
  BY <1>6
<1>12. kbd.ready /\ left' # Nothing /\ left'.dev = kbd.dev => fails'["kbd"] > 0
  BY <1>5, <1>11
<1> QED
  BY <1>1, <1>4, <1>6, <1>7, <1>9, <1>10, <1>11, <1>12 DEF TogInv, TogglesInStep

LEMMA TogglePollKbd ==
    ASSUME TogInv, PlaceInv, active # "none", UNCHANGED active, kbd.ready, NEW r, BusPollKeyboard(r)
    PROVE  TogInv'
<1> DEFINE d == kbd.dev
           t == kbd.toggle
<1>1. PICK o \in InOutcomes(d, t) :
        /\ InterruptIn(d, t, o)
        /\ kbd' = [kbd EXCEPT !.toggle = ~@]
        /\ IF o.r = "ok" THEN Succeeded("kbd") ELSE Failed("kbd")
        /\ UNCHANGED <<host, mice>>
  BY DEF BusPollKeyboard
<1>2. SlotOk(mice, kbd, next_free) /\ mice \in Seq(Mouse)
  BY DEF PlaceInv, SlotOk
<1>3. \A j \in DOMAIN mice : mice[j].dev \in Devices /\ mice[j].dev # d
  <2>1. \A j \in DOMAIN mice : mice[j] \in Mouse
    BY <1>2
  <2> QED
    BY <1>2, <2>1 DEF Mouse, SlotOk
<1>4. d \in Devices /\ t \in BOOLEAN /\ kbd'.toggle = ~t /\ kbd'.dev = d /\ kbd'.ready
  BY <1>1, <1>2, KbdSlot, KbdToggles
<1> HIDE DEF d, t
<1>6. /\ dtog' \in [Devices -> BOOLEAN] /\ lost' \in [Devices -> Nat] /\ slipped' \in [Devices -> Nat]
      /\ \A e \in Devices : e # d => dtog'[e] = dtog[e] /\ lost'[e] = lost[e] /\ slipped'[e] = slipped[e]
      /\ o.r # "err" => dtog'[d] = ~t
      /\ left' = IF host = "ohci" /\ o.r = "err" THEN [dev |-> d, toggle |-> t] ELSE Nothing
  BY <1>1, <1>4, InEffect
<1>7. okay' \in [Eps -> BOOLEAN] /\ fails' \in [Eps -> Nat] /\ (o.r # "ok" => fails'["kbd"] > 0)
  BY <1>1, CountedPoll DEF Eps
<1>8. MiceLoseBySlips'
  BY <1>1, <1>3, <1>6 DEF TogInv, TogglesInStep, MiceLoseBySlips
<1>9. GoodReportResyncs'
  <2> SUFFICES ASSUME fails'["kbd"] = 0 PROVE kbd'.toggle = dtog'[kbd'.dev]
    BY DEF GoodReportResyncs
  <2>1. o.r = "ok"
    BY <1>7
  <2> QED
    BY <1>4, <1>6, <2>1
<1>10. left' = Nothing \/ (left'.dev = d /\ host = "ohci" /\ fails'["kbd"] > 0)
  BY <1>6, <1>7
<1>11. host # "native"
  BY DEF TogInv
<1> QED
  BY <1>1, <1>4, <1>6, <1>7, <1>8, <1>9, <1>10, <1>11 DEF TogInv, TogglesInStep

LEMMA ToggleLate == ASSUME TogInv, PlaceInv, LateIn, UNCHANGED active PROVE TogInv'
<1> DEFINE d == left.dev
<1>1. /\ left # Nothing /\ d \in Devices /\ host = "ohci" /\ active # "none" /\ UNCHANGED <<host, mice, kbd, okay, fails, slipped>>
      /\ lost' = [lost EXCEPT ![d] = @ + 1] /\ dtog' = [dtog EXCEPT ![d] = ~@] /\ left' \in {left, Nothing}
  BY DEF LateIn, TogInv
<1>2. /\ dtog' \in [Devices -> BOOLEAN] /\ lost' \in [Devices -> Nat] /\ \A e \in Devices : e # d => dtog'[e] = dtog[e]
  BY <1>1 DEF TogInv
<1> HIDE DEF d
<1>3. MiceLoseBySlips'
  BY <1>1 DEF MiceLoseBySlips
<1>4. GoodReportResyncs'
  <2> SUFFICES ASSUME kbd.ready, okay["kbd"], fails["kbd"] = 0 PROVE kbd.toggle = dtog'[kbd.dev]
    BY <1>1 DEF GoodReportResyncs
  <2>1. kbd.dev # d
    BY <1>1 DEF TogInv, d
  <2>2. kbd.dev \in Devices
    BY KbdSlot DEF PlaceInv
  <2> QED
    BY <1>2, <2>1, <2>2 DEF TogInv, TogglesInStep, GoodReportResyncs
<1> QED
  BY <1>1, <1>2, <1>3, <1>4 DEF TogInv, TogglesInStep

LEMMA ToggleStep == TogInv /\ PlaceInv /\ [Next]_vars => TogInv'
<1> SUFFICES ASSUME TogInv, PlaceInv, [Next]_vars PROVE TogInv'
  OBVIOUS
<1>0. BusAction
  BY BusActions
<1>1. CASE UNCHANGED <<Searched, okay, fails, dtog, lost, slipped, active>>
  BY <1>1 DEF TogInv, Searched, TogglesInStep, MiceLoseBySlips, GoodReportResyncs
<1>2. CASE active = "none" /\ UNCHANGED <<dtog, lost, slipped, active>> /\ \E h, b : HostInit(h, b)
  BY <1>2, ToggleBegin
<1>3. CASE active = "none" /\ EnumerationStep /\ UNCHANGED active
  BY <1>3, ToggleSearch
<1>4. CASE /\ active = "none" /\ host' \in {host, "none"}
           /\ UNCHANGED <<mice, kbd, left, okay, fails, dtog, lost, slipped>>
  BY <1>4 DEF TogInv, TogglesInStep, MiceLoseBySlips, GoodReportResyncs
<1>5. CASE active # "none" /\ UNCHANGED active /\ \E i \in 1 .. Len(mice) : BusPollMouse(i)
  BY <1>5, TogglePollMouse
<1>6. CASE active # "none" /\ UNCHANGED active /\ kbd.ready /\ \E r \in 0 .. MaxReports : BusPollKeyboard(r)
  BY <1>6, TogglePollKbd
<1>7. CASE /\ active # "none" /\ host = "native" /\ (\E k \in Eps : Succeeded(k) \/ Failed(k))
           /\ UNCHANGED <<Searched, dtog, lost, slipped, active>>
  <2>1. okay' \in [Eps -> BOOLEAN] /\ fails' \in [Eps -> Nat]
    BY <1>7, CountedPoll
  <2>2. ~kbd.ready /\ left = Nothing /\ UNCHANGED <<host, mice, kbd, left>>
    BY <1>7 DEF TogInv, Searched
  <2> QED
    BY <1>7, <2>1, <2>2 DEF TogInv, TogglesInStep, MiceLoseBySlips, GoodReportResyncs
<1>8. CASE LateIn /\ UNCHANGED active
  BY <1>8, ToggleLate
<1> QED
  BY <1>0, <1>1, <1>2, <1>3, <1>4, <1>5, <1>6, <1>7, <1>8 DEF BusAction

\* Through idle polls, errors and short reports the toggle of a mouse on UHCI stays in step; a transfer that comes
\* about between the last look and the unlinking costs its report and one more, and none else is lost.  A good
\* report puts the keyboard's toggle in step again.  (poll_mouse_slot, poll_keyboard_report, interrupt_in)
THEOREM TogglesStay == Spec => []TogglesInStep
<1>1. TogInv => TogglesInStep
  BY DEF TogInv
<1> QED
  BY <1>1, ToggleInit, ToggleStep, PlaceInit, PlaceStep, PTL DEF Spec
============================================================================
