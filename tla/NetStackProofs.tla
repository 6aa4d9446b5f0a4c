--------------------------- MODULE NetStackProofs ---------------------------
(***************************************************************************)
(* Proofs about NetStack for every value of its constants: type            *)
(* correctness, the inductive invariants FetchStagesOrdered and IpInv, the *)
(* properties they imply, and the action property SettlingMovesGen.        *)
(***************************************************************************)
EXTENDS NetStack, TLAPS

(* A remainder is below the modulus.                                       *)
LEMMA ModRange ==
  ASSUME NEW a \in Int, NEW m \in Nat \ {0}
  PROVE  a % m \in 0 .. m - 1
  OBVIOUS

(* page_gen stays in its range when it moves.                              *)
LEMMA BumpGenType ==
  ASSUME NEW f \in FetchType
  PROVE  BumpGen(f) \in FetchType
<1>1. f.page_gen + 1 \in Int /\ GenMod \in Nat \ {0}
  BY ConstantsAssumption DEF FetchType, Gens
<1>2. (f.page_gen + 1) % GenMod \in Gens
  BY <1>1, ModRange DEF Gens
<1> QED
  BY <1>2 DEF BumpGen, FetchType

(* set_err yields a well-typed fetch.                                      *)
LEMMA SetErrType ==
  ASSUME NEW f \in FetchType, NEW msg \in Errs
  PROVE  SetErr(f, msg) \in FetchType
<1> DEFINE g == [f EXCEPT !.fetch_err = msg, !.fetch_armed = FALSE, !.fetch_done = TRUE]
<1>1. g \in FetchType
  BY DEF FetchType
<1> HIDE DEF g
<1>2. BumpGen(g) \in FetchType
  BY <1>1, BumpGenType
<1> QED
  BY <1>2 DEF SetErr, g

(* finish_fetch yields a well-typed fetch.                                 *)
LEMMA FinishFetchType ==
  ASSUME NEW f \in FetchType, NEW d \in BOOLEAN
  PROVE  FinishFetch(f, d) \in FetchType
<1> DEFINE g == [f EXCEPT !.fetch_done = TRUE, !.fetch_armed = FALSE]
<1>1. g \in FetchType
  BY DEF FetchType
<1> HIDE DEF g
<1>2. BumpGen(g) \in FetchType
  BY <1>1, BumpGenType
<1>3. SetErr(f, "HTTP BODY") \in FetchType
  BY SetErrType DEF Errs
<1> QED
  BY <1>2, <1>3 DEF FinishFetch, g

(* finish_plain_http_on_tcp_eof yields a well-typed fetch.                 *)
LEMMA FinishOnEofType ==
  ASSUME NEW f \in FetchType, NEW d \in BOOLEAN
  PROVE  FinishOnEof(f, d) \in FetchType
<1>1. SetErr(f, "HTTP CHUNK EOF") \in FetchType
  BY SetErrType DEF Errs
<1> QED
  BY <1>1, FinishFetchType DEF FinishOnEof

(* clear_fetch_inner yields a well-typed fetch.                            *)
LEMMA ClearFetchInnerType ==
  ASSUME NEW f, f.page_gen \in Gens, NEW now \in Ticks
  PROVE  ClearFetchInner(f, now) \in FetchType
<1>1. 0 \in Ticks
  BY ConstantsAssumption DEF Ticks
<1>2. "none" \in Errs
  BY DEF Errs
<1>3. "none" \in Bodies
  BY DEF Bodies
<1> QED
  BY <1>1, <1>2, <1>3 DEF ClearFetchInner, FetchType

(* ingest_tcp_payload yields a well-typed fetch.                           *)
LEMMA IngestType ==
  ASSUME NEW f \in FetchType, NEW header \in Bodies,
         NEW outcome \in {"more", "finish", "error"}
  PROVE  Ingest(f, header, outcome) \in FetchType
<1> DEFINE seen == f.body = "none" /\ header # "none"
           f1   == IF seen THEN [f EXCEPT !.body = header] ELSE f
           f2   == CASE outcome = "more"   -> f1
                     [] outcome = "finish" -> FinishFetch(f1, TRUE)
                     [] outcome = "error"  -> SetErr(f1, "HTTP BODY")
<1>1. f1 \in FetchType
  BY DEF FetchType
<1> HIDE DEF f1
<1>2. FinishFetch(f1, TRUE) \in FetchType /\ SetErr(f1, "HTTP BODY") \in FetchType
  BY <1>1, FinishFetchType, SetErrType DEF Errs
<1>3. f2 \in FetchType
  BY <1>1, <1>2
<1> HIDE DEF f2
<1>4. BumpGen(f2) \in FetchType
  BY <1>3, BumpGenType
<1>5. Ingest(f, header, outcome) = IF seen THEN BumpGen(f2) ELSE f2
  BY DEF Ingest, f1, f2
<1> QED
  BY <1>3, <1>4, <1>5

(* The DNS wait of drive yields a well-typed fetch.                        *)
LEMMA DnsStepType ==
  ASSUME NEW f \in FetchType
  PROVE  DnsStep(f) \in FetchType
<1> DEFINE f1 == [f EXCEPT !.dns_xmit_phase = @ + 1]
<1>1. f1 \in FetchType
  BY DEF FetchType
<1> HIDE DEF f1
<1>2. SetErr(f1, "DNS TIMEOUT") \in FetchType
  BY <1>1, SetErrType DEF Errs
<1>3. DnsStep(f) \in {f1, SetErr(f1, "DNS TIMEOUT")}
  BY DEF DnsStep, f1
<1> QED
  BY <1>1, <1>2, <1>3

(* The TCP part of drive yields a well-typed fetch.                        *)
LEMMA TcpStepType ==
  ASSUME NEW f \in FetchType
  PROVE  TcpStep(f) \in FetchType
<1>1. TrySyn(f) \in FetchType
  <2>1. f.syn_retries + 1 \in Nat
    BY DEF FetchType
  <2>2. [f EXCEPT !.syn_sent = TRUE, !.syn_retries = f.syn_retries + 1] \in FetchType
    BY <2>1 DEF FetchType
  <2> QED
    BY <2>2 DEF TrySyn
<1>2. /\ SetErr(f, "TCP NO CONNECT") \in FetchType
      /\ SetErr(TrySyn(f), "HTTP TIMEOUT") \in FetchType
  BY <1>1, SetErrType DEF Errs
<1> QED
  BY <1>1, <1>2 DEF TcpStep

(* The DHCP timers of drive yield well-typed addresses.                    *)
LEMMA DhcpTimersType ==
  ASSUME NEW i \in IpType
  PROVE  DhcpTimers(i) \in IpType
<1>1. 0 \in Ticks /\ i.tick \in Ticks
  BY ConstantsAssumption DEF Ticks, IpType
<1>2. "slirp" \in Addrs /\ "Idle" \in DhcpPhases
  BY DEF Addrs, DhcpPhases
<1>3. [i EXCEPT !.addrs = "slirp", !.dhcp_phase = "Idle", !.gw_known = FALSE,
                !.dhcp_phase_start_tick = 0, !.dhcp_last_tx_tick = 0] \in IpType
  BY <1>1, <1>2 DEF IpType
<1>4. \A s, l \in Ticks :
        [i EXCEPT !.dhcp_phase_start_tick = s, !.dhcp_last_tx_tick = l] \in IpType
  BY DEF IpType
<1>5. i.dhcp_phase_start_tick \in Ticks /\ i.dhcp_last_tx_tick \in Ticks
  BY DEF IpType
<1> QED
  BY <1>1, <1>3, <1>4, <1>5 DEF DhcpTimers

(* sync_ip_from_settings yields well-typed addresses.                      *)
LEMMA SyncType ==
  ASSUME NEW i \in IpType, NEW s \in Settings
  PROVE  SyncIpFromSettings(i, s) \in IpType
<1> DEFINE a == CASE s.ip_config = "Slirp"  -> "slirp"
                  [] s.ip_config = "Dhcp"   -> "zero"
                  [] s.ip_config = "Static" -> s.static
           d == IF s.ip_config = "Dhcp" THEN "WaitOffer" ELSE "Idle"
<1>1. s.ip_config \in {"Slirp", "Dhcp", "Static"} /\ s.static \in StaticAddrs
  BY ConstantsAssumption DEF Settings
<1>2. IpSettingsTag(s) \in Int
  BY <1>1, TagAssumption DEF IpSettingsTag
<1>3. a \in Addrs
  BY <1>1 DEF Addrs
<1>4. d \in DhcpPhases /\ "Off" \in NetPhases
  BY DEF DhcpPhases, NetPhases
<1>5. 0 \in Ticks
  BY ConstantsAssumption DEF Ticks
<1>6. SyncIpFromSettings(i, s) =
        [i EXCEPT !.ip_settings_tag = IpSettingsTag(s), !.gw_known = FALSE,
                  !.dhcp_phase_start_tick = 0, !.dhcp_last_tx_tick = 0,
                  !.addrs = a, !.dhcp_phase = d, !.phase = "Off"]
  BY DEF SyncIpFromSettings
<1> HIDE DEF a, d
<1> QED
  BY <1>2, <1>3, <1>4, <1>5, <1>6 DEF IpType

(* Every step of the stack keeps the types.                                *)
LEMMA TypeStep == TypeOK /\ [Next]_vars => TypeOK'
<1> SUFFICES ASSUME TypeOK, [Next]_vars PROVE TypeOK'
  OBVIOUS
<1> DEFINE BudgetType == [fetches : Nat, reconfigs : Nat, segments : Nat]
<1>a. /\ ip \in IpType /\ fetch \in FetchType /\ settings \in Settings
      /\ pc \in {"main", "rx", "tls", "pump"} /\ budget \in BudgetType
  BY DEF TypeOK
<1>b. ip.tick \in Ticks /\ fetch.page_gen \in Gens /\ ip.addrs \in Addrs
  BY <1>a DEF IpType, FetchType
<1>c. ClearFetchInner(fetch, ip.tick) \in FetchType
  BY <1>b, ClearFetchInnerType
<1>d. Errs = Errs \cup HandshakeErrs
  BY DEF Errs
<1>1. CASE StartFetchBadUrl
  <2>1. fetch' \in FetchType
    BY <1>1, <1>c, SetErrType DEF StartFetchBadUrl, Errs
  <2>2. budget' \in BudgetType
    <3>a. budget.fetches > 0
      BY <1>1 DEF StartFetchBadUrl
    <3>1. budget.fetches - 1 \in Nat
      BY <3>a, <1>a
    <3> QED
      BY <1>1, <1>a, <3>1 DEF StartFetchBadUrl
  <2> QED
    BY <1>1, <1>a, <2>1, <2>2 DEF StartFetchBadUrl, TypeOK
<1>2. ASSUME NEW scheme \in Schemes, NEW named \in BOOLEAN, StartFetch(scheme, named)
      PROVE  TypeOK'
  <2> DEFINE c == ClearFetchInner(fetch, ip.tick)
             g == [c EXCEPT !.https_mode = (scheme = "https"), !.needs_dns = named,
                            !.dns_done = ~named, !.tcp_connect_start_tick = ip.tick,
                            !.fetch_armed = TRUE]
  <2> HIDE DEF c
  <2>1. g \in FetchType
    BY <1>b, <1>c, ZenonT(60) DEF FetchType, c
  <2> HIDE DEF g
  <2>2. fetch' \in FetchType
    BY <1>2, <2>1, BumpGenType DEF StartFetch, g, c
  <2>3. budget' \in BudgetType
    <3>a. budget.fetches > 0
      BY <1>2 DEF StartFetch
    <3>1. budget.fetches - 1 \in Nat /\ MaxSegments \in Nat
      BY <3>a, <1>a, ConstantsAssumption
    <3> QED
      BY <1>2, <1>a, <3>1 DEF StartFetch
  <2> QED
    BY <1>2, <1>a, <2>2, <2>3 DEF StartFetch, TypeOK
<1>3. CASE ReloadBlank
  <2>1. ip' \in IpType
    BY <1>3, <1>a DEF ReloadBlank, IpType, NetPhases
  <2>2. budget' \in BudgetType
    <3>a. budget.fetches > 0
      BY <1>3 DEF ReloadBlank
    <3>1. budget.fetches - 1 \in Nat
      BY <3>a, <1>a
    <3> QED
      BY <1>3, <1>a, <3>1 DEF ReloadBlank
  <2> QED
    BY <1>3, <1>a, <1>c, <2>1, <2>2 DEF ReloadBlank, TypeOK
<1>4. ASSUME NEW s \in Settings, EditIpSettings(s)
      PROVE  TypeOK'
  <2>1. budget' \in BudgetType
    <3>a. budget.reconfigs > 0
      BY <1>4 DEF EditIpSettings
    <3>1. budget.reconfigs - 1 \in Nat
      BY <3>a, <1>a
    <3> QED
      BY <1>4, <1>a, <3>1 DEF EditIpSettings
  <2> QED
    BY <1>4, <1>a, <2>1 DEF EditIpSettings, TypeOK
<1>5. CASE DriveBegin
  <2> DEFINE i == IF IpSettingsChanged THEN SyncIpFromSettings(ip, settings) ELSE ip
  <2>1. i \in IpType
    BY <1>a, SyncType
  <2> HIDE DEF i
  <2>2. (ip.tick + 1) % TickMod \in Ticks
    <3>1. ip.tick + 1 \in Int /\ TickMod \in Nat \ {0}
      BY <1>b, ConstantsAssumption DEF Ticks
    <3> QED
      BY <3>1, ModRange DEF Ticks
  <2>3. ip' \in IpType
    BY <1>5, <2>1, <2>2 DEF DriveBegin, IpType, i
  <2>4. fetch' \in FetchType
    BY <1>5, <1>a, <1>c DEF DriveBegin
  <2> QED
    BY <1>5, <1>a, <2>3, <2>4 DEF DriveBegin, TypeOK
<1>6. CASE RxArpReply
  <2>1. ip' \in IpType
    BY <1>6, <1>a, <1>b DEF RxArpReply, IpType
  <2> QED
    BY <1>6, <1>a, <2>1 DEF RxArpReply, TypeOK
<1>7. CASE RxDhcpOffer
  <2>1. ip' \in IpType
    BY <1>7, <1>a, <1>b DEF RxDhcpOffer, IpType, DhcpPhases
  <2> QED
    BY <1>7, <1>a, <2>1 DEF RxDhcpOffer, TypeOK
<1>8. ASSUME NEW lease \in Leases, RxDhcpAck(lease)
      PROVE  TypeOK'
  <2>1. ip' \in IpType
    BY <1>8, <1>a, <1>b DEF RxDhcpAck, IpType, DhcpPhases, Addrs
  <2>2. fetch' \in FetchType
    BY <1>8, <1>a DEF RxDhcpAck, FetchType, Errs
  <2> QED
    BY <1>8, <1>a, <2>1, <2>2 DEF RxDhcpAck, TypeOK
<1>9. CASE RxDnsAnswer
  <2>1. fetch' \in FetchType
    BY <1>9, <1>a DEF RxDnsAnswer, FetchType
  <2> QED
    BY <1>9, <1>a, <2>1 DEF RxDnsAnswer, TypeOK
<1>10. CASE RxRst
  <2>1. fetch' \in FetchType
    BY <1>10, <1>a, SetErrType DEF RxRst, Errs
  <2> QED
    BY <1>10, <1>a, <2>1 DEF RxRst, TypeOK
<1>11. ASSUME NEW tx \in {"sent", "dropped", "toolong"}, RxSynAck(tx)
       PROVE  TypeOK'
  <2>1. /\ [fetch EXCEPT !.https_handshake_queued = @ \/ ~fetch.tls_handshake_done] \in FetchType
        /\ [fetch EXCEPT !.get_sent = TRUE] \in FetchType
    BY <1>a DEF FetchType
  <2>2. SetErr(fetch, "GET TOO LONG") \in FetchType
    BY <1>a, SetErrType DEF Errs, HandshakeErrs
  <2>3. fetch' \in FetchType
    BY <1>11, <1>a, <2>1, <2>2 DEF RxSynAck
  <2> QED
    BY <1>11, <1>a, <2>3 DEF RxSynAck, TypeOK
<1>12. ASSUME NEW header \in Bodies, NEW outcome \in {"more", "finish", "error"},
              NEW fin \in BOOLEAN, NEW decoded \in BOOLEAN,
              RxPayload(header, outcome, fin, decoded)
       PROVE  TypeOK'
  <2> DEFINE f0 == [fetch EXCEPT !.fetch_progress_tick = ip.tick]
             f1 == Ingest(f0, header, outcome)
  <2>1. f0 \in FetchType
    BY <1>a, <1>b DEF FetchType
  <2> HIDE DEF f0
  <2>2. f1 \in FetchType
    BY <2>1, IngestType
  <2> HIDE DEF f1
  <2>3. FinishOnEof(f1, decoded) \in FetchType
    BY <2>2, FinishOnEofType
  <2>4. SetErr(f0, "TLS RX OVFL") \in FetchType
    BY <2>1, SetErrType DEF Errs
  <2>5. [f0 EXCEPT !.tls_tcp_eof = @ \/ fin] \in FetchType
    BY <2>1 DEF FetchType
  <2>6. fetch' = IF fetch.https_mode
                 THEN IF outcome = "error" THEN SetErr(f0, "TLS RX OVFL")
                      ELSE [f0 EXCEPT !.tls_tcp_eof = @ \/ fin]
                 ELSE IF fin THEN FinishOnEof(f1, decoded) ELSE f1
    BY <1>12 DEF RxPayload, f0, f1
  <2>7. fetch' \in FetchType
    BY <2>2, <2>3, <2>4, <2>5, <2>6
  <2>8. budget' \in BudgetType
    <3>a. budget.segments > 0
      BY <1>12 DEF RxPayload
    <3>1. budget.segments - 1 \in Nat
      BY <3>a, <1>a
    <3> QED
      BY <1>12, <1>a, <3>1 DEF RxPayload
  <2> QED
    BY <1>12, <1>a, <2>7, <2>8 DEF RxPayload, TypeOK
<1>13. ASSUME NEW decoded \in BOOLEAN, RxFin(decoded)
       PROVE  TypeOK'
  <2>1. [fetch EXCEPT !.tls_tcp_eof = TRUE] \in FetchType
    BY <1>a DEF FetchType
  <2>2. fetch' \in FetchType
    BY <1>13, <1>a, <2>1, FinishOnEofType DEF RxFin
  <2> QED
    BY <1>13, <1>a, <2>2 DEF RxFin, TypeOK
<1>14. CASE DriveNoAddress
  BY <1>14, <1>a, DhcpTimersType DEF DriveNoAddress, TypeOK
<1>15. DrivePhase => ip' \in IpType
  <2>1. DhcpTimers(ip) \in IpType
    BY <1>a, DhcpTimersType
  <2>2. PhaseOf(DhcpTimers(ip), fetch) \in NetPhases
    BY DEF PhaseOf, NetPhases
  <2> QED
    BY <2>1, <2>2 DEF DrivePhase, IpType
<1>16. CASE DriveArp
  BY <1>16, <1>15, <1>a DEF DriveArp, DrivePhase, TypeOK
<1>17. CASE DriveDns
  BY <1>17, <1>15, <1>a, DnsStepType DEF DriveDns, DrivePhase, TypeOK
<1>18. CASE DriveNoFetch
  BY <1>18, <1>15, <1>a DEF DriveNoFetch, DrivePhase, TypeOK
<1>19. CASE DriveTcp
  <2> DEFINE f == TcpStep(fetch)
  <2>1. f \in FetchType
    BY <1>a, TcpStepType
  <2> HIDE DEF f
  <2>2. [f EXCEPT !.https_handshake_queued = FALSE] \in FetchType
    BY <2>1 DEF FetchType
  <2>3. fetch' \in FetchType /\ pc' \in {"tls", "pump", "main"}
    BY <1>19, <2>1, <2>2 DEF DriveTcp, f
  <2> QED
    BY <1>19, <1>15, <1>a, <2>3 DEF DriveTcp, DrivePhase, TypeOK
<1>20. CASE HandshakeDone
  <2>1. fetch' \in FetchType
    BY <1>20, <1>a DEF HandshakeDone, FetchType
  <2> QED
    BY <1>20, <1>a, <2>1 DEF HandshakeDone, TypeOK
<1>21. ASSUME NEW msg \in HandshakeErrs, HandshakeFailed(msg)
       PROVE  TypeOK'
  <2>1. fetch' \in FetchType
    BY <1>21, <1>a, <1>d, SetErrType DEF HandshakeFailed
  <2> QED
    BY <1>21, <1>a, <2>1 DEF HandshakeFailed, TypeOK
<1>22. CASE PumpReadErr
  <2>1. fetch' \in FetchType
    BY <1>22, <1>a, SetErrType DEF PumpReadErr, Errs
  <2> QED
    BY <1>22, <1>a, <2>1 DEF PumpReadErr, TypeOK
<1>23. ASSUME NEW decoded \in BOOLEAN, PumpReadEnd(decoded)
       PROVE  TypeOK'
  BY <1>23, <1>a, FinishOnEofType DEF PumpReadEnd, TypeOK
<1>24. ASSUME NEW header \in Bodies, NEW outcome \in {"more", "finish", "error"},
              PumpRead(header, outcome)
       PROVE  TypeOK'
  BY <1>24, <1>a, IngestType DEF PumpRead, TypeOK
<1>25. CASE UNCHANGED vars
  BY <1>25 DEF vars, TypeOK
<1> QED
  BY <1>1, <1>2, <1>3, <1>4, <1>5, <1>6, <1>7, <1>8, <1>9, <1>10, <1>11, <1>12, <1>13,
     <1>14, <1>16, <1>17, <1>18, <1>19, <1>20, <1>21, <1>22, <1>23, <1>24, <1>25
  DEF Next, User, Network, Loop

(* The types of all the variables hold in every reachable state.           *)
THEOREM TypeCorrect == Spec => []TypeOK
<1>1. Init => TypeOK
  <2> SUFFICES ASSUME Init PROVE TypeOK
    OBVIOUS
  <2>1. 0 \in Ticks /\ 0 \in Gens /\ NoTag \in Int
    BY ConstantsAssumption DEF Ticks, Gens, NoTag
  <2>2. ClearFetchInner([page_gen |-> 0], 0) \in FetchType
    BY <2>1, ClearFetchInnerType
  <2>3. ip \in IpType
    BY <2>1 DEF Init, IpType, Addrs, DhcpPhases, NetPhases
  <2> QED
    BY <2>2, <2>3, ConstantsAssumption DEF Init, TypeOK
<1> QED
  BY <1>1, TypeStep, PTL DEF Spec

----------------------------------------------------------------------------
(* The operators on the fetch keep its stages ordered.                     *)
LEMMA SetErrStages ==
  ASSUME NEW f \in FetchType, NEW msg, StagesOrdered(f)
  PROVE  /\ StagesOrdered(SetErr(f, msg))
         /\ SetErr(f, msg).https_mode = f.https_mode
         /\ SetErr(f, msg).dns_done = f.dns_done
  BY DEF SetErr, BumpGen, StagesOrdered, WaitsForDns, FetchType

(* finish_fetch keeps the stages ordered.                                  *)
LEMMA FinishFetchStages ==
  ASSUME NEW f \in FetchType, NEW d \in BOOLEAN, StagesOrdered(f)
  PROVE  /\ StagesOrdered(FinishFetch(f, d))
         /\ FinishFetch(f, d).https_mode = f.https_mode
         /\ FinishFetch(f, d).dns_done = f.dns_done
<1>1. CASE f.fetch_done
  BY <1>1 DEF FinishFetch
<1>2. CASE ~f.fetch_done /\ ~d
  BY <1>2, SetErrStages DEF FinishFetch
<1>3. CASE ~f.fetch_done /\ d
  BY <1>3 DEF FinishFetch, BumpGen, StagesOrdered, WaitsForDns, FetchType
<1> QED
  BY <1>1, <1>2, <1>3 DEF FetchType

(* finish_plain_http_on_tcp_eof keeps the stages ordered.                  *)
LEMMA FinishOnEofStages ==
  ASSUME NEW f \in FetchType, NEW d \in BOOLEAN, StagesOrdered(f)
  PROVE  /\ StagesOrdered(FinishOnEof(f, d))
         /\ FinishOnEof(f, d).https_mode = f.https_mode
         /\ FinishOnEof(f, d).dns_done = f.dns_done
  BY SetErrStages, FinishFetchStages DEF FinishOnEof

(* ingest_tcp_payload keeps the stages ordered once the name is resolved.  *)
LEMMA IngestStages ==
  ASSUME NEW f \in FetchType, StagesOrdered(f), f.dns_done,
         NEW header \in Bodies, NEW outcome \in {"more", "finish", "error"}
  PROVE  /\ StagesOrdered(Ingest(f, header, outcome))
         /\ Ingest(f, header, outcome).https_mode = f.https_mode
         /\ Ingest(f, header, outcome).dns_done = f.dns_done
<1> DEFINE seen == f.body = "none" /\ header # "none"
           f1   == IF seen THEN [f EXCEPT !.body = header] ELSE f
           f2   == CASE outcome = "more"   -> f1
                     [] outcome = "finish" -> FinishFetch(f1, TRUE)
                     [] outcome = "error"  -> SetErr(f1, "HTTP BODY")
           Good(g) == g \in FetchType /\ StagesOrdered(g)
                      /\ g.https_mode = f.https_mode /\ g.dns_done = f.dns_done
<1>1. Good(f1)
  BY DEF FetchType, StagesOrdered, WaitsForDns
<1> HIDE DEF f1
<1>2. Good(FinishFetch(f1, TRUE))
  BY <1>1, FinishFetchType, FinishFetchStages
<1>3. Good(SetErr(f1, "HTTP BODY"))
  BY <1>1, SetErrType, SetErrStages DEF Errs
<1>4. Good(f2)
  BY <1>1, <1>2, <1>3
<1> HIDE DEF f2
<1>5. Good(BumpGen(f2))
  BY <1>4, BumpGenType DEF BumpGen, FetchType, StagesOrdered, WaitsForDns
<1>6. Ingest(f, header, outcome) = IF seen THEN BumpGen(f2) ELSE f2
  BY DEF Ingest, f1, f2
<1> QED
  BY <1>4, <1>5, <1>6

(* The timers of drive keep the stages ordered.                            *)
LEMMA DriveStages ==
  ASSUME NEW f \in FetchType, StagesOrdered(f)
  PROVE  StagesOrdered(DnsStep(f)) /\ StagesOrdered(TcpStep(f))
         /\ TcpStep(f).dns_done = f.dns_done /\ TcpStep(f).https_mode = f.https_mode
<1>1. TrySyn(f) \in FetchType /\ StagesOrdered(TrySyn(f))
      /\ TrySyn(f).dns_done = f.dns_done /\ TrySyn(f).https_mode = f.https_mode
  <2>1. f.syn_retries + 1 \in Nat
    BY DEF FetchType
  <2>2. [f EXCEPT !.syn_sent = TRUE, !.syn_retries = f.syn_retries + 1] \in FetchType
    BY <2>1 DEF FetchType
  <2> QED
    BY <2>2 DEF TrySyn, FetchType, StagesOrdered, WaitsForDns
<1>2. StagesOrdered(TcpStep(f))
      /\ TcpStep(f).dns_done = f.dns_done /\ TcpStep(f).https_mode = f.https_mode
  BY <1>1, SetErrStages DEF TcpStep
<1> DEFINE f1 == [f EXCEPT !.dns_xmit_phase = @ + 1]
<1>3. f1 \in FetchType /\ StagesOrdered(f1)
  BY DEF FetchType, StagesOrdered, WaitsForDns
<1> HIDE DEF f1
<1>4. DnsStep(f) \in {f1, SetErr(f1, "DNS TIMEOUT")}
  BY DEF DnsStep, f1
<1> QED
  BY <1>2, <1>3, <1>4, SetErrStages

(* Every step keeps the stages of the fetch ordered.                       *)
LEMMA StagesStep == TypeOK /\ FetchStagesOrdered /\ [Next]_vars => FetchStagesOrdered'
<1> SUFFICES ASSUME TypeOK, FetchStagesOrdered, [Next]_vars PROVE FetchStagesOrdered'
  OBVIOUS
<1>a. fetch \in FetchType /\ StagesOrdered(fetch)
  BY DEF TypeOK, FetchStagesOrdered
<1>b. pc \in {"tls", "pump"} => fetch.https_mode /\ fetch.dns_done
  BY DEF FetchStagesOrdered
<1>c. ClearFetchInner(fetch, ip.tick) \in FetchType /\ StagesOrdered(ClearFetchInner(fetch, ip.tick))
  <2>1. ClearFetchInner(fetch, ip.tick) \in FetchType
    BY ClearFetchInnerType DEF TypeOK, IpType, FetchType
  <2> QED
    BY <2>1 DEF ClearFetchInner, StagesOrdered, WaitsForDns
<1>1. CASE StartFetchBadUrl
  BY <1>1, <1>c, SetErrStages DEF StartFetchBadUrl, FetchStagesOrdered
<1>2. ASSUME NEW scheme \in Schemes, NEW named \in BOOLEAN, StartFetch(scheme, named)
      PROVE  FetchStagesOrdered'
  <2>1. StagesOrdered(fetch')
    BY <1>2 DEF StartFetch, ClearFetchInner, BumpGen, StagesOrdered, WaitsForDns
  <2> QED
    BY <1>2, <2>1 DEF StartFetch, FetchStagesOrdered
<1>3. CASE ReloadBlank
  BY <1>3, <1>c DEF ReloadBlank, FetchStagesOrdered
<1>4. ASSUME NEW s \in Settings, EditIpSettings(s)
      PROVE  FetchStagesOrdered'
  BY <1>4 DEF EditIpSettings, FetchStagesOrdered
<1>5. CASE DriveBegin
  BY <1>5, <1>a, <1>c DEF DriveBegin, FetchStagesOrdered
<1>6. CASE RxArpReply \/ RxDhcpOffer
  BY <1>6 DEF RxArpReply, RxDhcpOffer, FetchStagesOrdered
<1>7. ASSUME NEW lease \in Leases, RxDhcpAck(lease)
      PROVE  FetchStagesOrdered'
  <2>1. /\ StagesOrdered(fetch')
        /\ fetch'.https_mode = fetch.https_mode /\ fetch'.dns_done = fetch.dns_done
    BY <1>7, <1>a DEF RxDhcpAck, FetchType, StagesOrdered, WaitsForDns
  <2> QED
    BY <1>7, <1>b, <2>1 DEF RxDhcpAck, FetchStagesOrdered
<1>8. CASE RxDnsAnswer
  <2>1. StagesOrdered(fetch') /\ fetch'.https_mode = fetch.https_mode /\ fetch'.dns_done
    BY <1>8, <1>a DEF RxDnsAnswer, FetchType, StagesOrdered, WaitsForDns
  <2> QED
    BY <1>8, <1>b, <2>1 DEF RxDnsAnswer, FetchStagesOrdered
<1>9. CASE RxRst
  BY <1>9, <1>a, <1>b, SetErrStages DEF RxRst, FetchStagesOrdered
<1>10. ASSUME NEW tx \in {"sent", "dropped", "toolong"}, RxSynAck(tx)
       PROVE  FetchStagesOrdered'
  <2> DEFINE q == [fetch EXCEPT !.https_handshake_queued = @ \/ ~fetch.tls_handshake_done]
             g == [fetch EXCEPT !.get_sent = TRUE]
  <2>a. fetch.fetch_armed /\ fetch.dns_done
    BY <1>10 DEF RxSynAck, TcpAccepts
  <2>1. fetch.https_mode =>
          StagesOrdered(q) /\ q.https_mode = fetch.https_mode /\ q.dns_done = fetch.dns_done
    BY <1>a DEF FetchType, StagesOrdered, WaitsForDns
  <2>2. ~fetch.https_mode =>
          StagesOrdered(g) /\ g.https_mode = fetch.https_mode /\ g.dns_done = fetch.dns_done
    BY <1>a, <2>a DEF FetchType, StagesOrdered, WaitsForDns
  <2> HIDE DEF q, g
  <2>3. fetch' = IF fetch.https_mode THEN q
                 ELSE CASE tx = "sent"    -> g
                        [] tx = "dropped" -> fetch
                        [] tx = "toolong" -> SetErr(fetch, "GET TOO LONG")
    BY <1>10 DEF RxSynAck, q, g
  <2>4. StagesOrdered(fetch') /\ fetch'.https_mode = fetch.https_mode
        /\ fetch'.dns_done = fetch.dns_done
    BY <1>a, <2>1, <2>2, <2>3, SetErrStages
  <2> QED
    BY <1>10, <1>b, <2>4 DEF RxSynAck, FetchStagesOrdered
<1>11. ASSUME NEW header \in Bodies, NEW outcome \in {"more", "finish", "error"},
              NEW fin \in BOOLEAN, NEW decoded \in BOOLEAN,
              RxPayload(header, outcome, fin, decoded)
       PROVE  FetchStagesOrdered'
  <2> DEFINE f0 == [fetch EXCEPT !.fetch_progress_tick = ip.tick]
             f1 == Ingest(f0, header, outcome)
             e  == [f0 EXCEPT !.tls_tcp_eof = @ \/ fin]
             Good(g) == /\ g \in FetchType /\ StagesOrdered(g)
                        /\ g.https_mode = fetch.https_mode /\ g.dns_done
  <2>a. fetch.dns_done /\ ip.tick \in Ticks
    BY <1>11 DEF RxPayload, TcpAccepts, TypeOK, IpType
  <2>1. Good(f0)
    BY <1>a, <2>a DEF FetchType, StagesOrdered, WaitsForDns
  <2> HIDE DEF f0
  <2>2. Good(e)
    BY <2>1 DEF FetchType, StagesOrdered, WaitsForDns
  <2>3. Good(f1)
    BY <2>1, IngestType, IngestStages
  <2> HIDE DEF f1, e
  <2>4. Good(FinishOnEof(f1, decoded))
    BY <2>3, FinishOnEofType, FinishOnEofStages
  <2>5. Good(SetErr(f0, "TLS RX OVFL"))
    BY <2>1, SetErrType, SetErrStages DEF Errs
  <2>6. fetch' = IF fetch.https_mode
                 THEN IF outcome = "error" THEN SetErr(f0, "TLS RX OVFL") ELSE e
                 ELSE IF fin THEN FinishOnEof(f1, decoded) ELSE f1
    BY <1>11 DEF RxPayload, f0, f1, e
  <2>7. Good(fetch')
    BY <2>2, <2>3, <2>4, <2>5, <2>6
  <2> QED
    BY <1>11, <1>b, <2>7 DEF RxPayload, FetchStagesOrdered
<1>12. ASSUME NEW decoded \in BOOLEAN, RxFin(decoded)
       PROVE  FetchStagesOrdered'
  <2> DEFINE e == [fetch EXCEPT !.tls_tcp_eof = TRUE]
  <2>1. StagesOrdered(e) /\ e.https_mode = fetch.https_mode /\ e.dns_done = fetch.dns_done
    BY <1>a DEF FetchType, StagesOrdered, WaitsForDns
  <2> HIDE DEF e
  <2>2. fetch' = IF fetch.https_mode THEN e ELSE FinishOnEof(fetch, decoded)
    BY <1>12 DEF RxFin, e
  <2>3. StagesOrdered(fetch') /\ fetch'.https_mode = fetch.https_mode
        /\ fetch'.dns_done = fetch.dns_done
    BY <1>a, <2>1, <2>2, FinishOnEofStages
  <2> QED
    BY <1>12, <1>b, <2>3 DEF RxFin, FetchStagesOrdered
<1>13. CASE DriveNoAddress \/ DriveArp \/ DriveNoFetch
  BY <1>13, <1>a DEF DriveNoAddress, DriveArp, DriveNoFetch, FetchStagesOrdered
<1>14. CASE DriveDns
  BY <1>14, <1>a, DriveStages DEF DriveDns, FetchStagesOrdered
<1>15. CASE DriveTcp
  <2> DEFINE f == TcpStep(fetch)
             g == [f EXCEPT !.https_handshake_queued = FALSE]
  <2>a. fetch.dns_done
    BY <1>15 DEF DriveTcp, DrivePhase, PhaseOf, WaitsForTcp, TypeOK, IpType
  <2>1. f \in FetchType /\ StagesOrdered(f) /\ f.dns_done /\ f.https_mode = fetch.https_mode
    BY <1>a, <2>a, DriveStages, TcpStepType
  <2> HIDE DEF f
  <2>2. StagesOrdered(g) /\ g.dns_done /\ g.https_mode = f.https_mode
    BY <2>1 DEF FetchType, StagesOrdered, WaitsForDns
  <2> HIDE DEF g
  <2>3. /\ fetch' = IF StartsHandshake(f) THEN g ELSE f
        /\ pc' = IF StartsHandshake(f) THEN "tls" ELSE IF StartsPump(f) THEN "pump" ELSE "main"
    BY <1>15 DEF DriveTcp, f, g
  <2>4. StartsHandshake(f) \/ StartsPump(f) => f.https_mode
    BY DEF StartsHandshake, StartsPump
  <2> QED
    BY <2>1, <2>2, <2>3, <2>4 DEF FetchStagesOrdered
<1>16. CASE HandshakeDone
  <2>1. StagesOrdered(fetch')
    BY <1>16, <1>a, <1>b DEF HandshakeDone, FetchType, StagesOrdered, WaitsForDns
  <2> QED
    BY <1>16, <2>1 DEF HandshakeDone, FetchStagesOrdered
<1>17. ASSUME NEW msg \in HandshakeErrs, HandshakeFailed(msg)
       PROVE  FetchStagesOrdered'
  BY <1>17, <1>a, SetErrStages DEF HandshakeFailed, FetchStagesOrdered
<1>18. CASE PumpReadErr
  BY <1>18, <1>a, SetErrStages DEF PumpReadErr, FetchStagesOrdered
<1>19. ASSUME NEW decoded \in BOOLEAN, PumpReadEnd(decoded)
       PROVE  FetchStagesOrdered'
  BY <1>19, <1>a, FinishOnEofStages DEF PumpReadEnd, FetchStagesOrdered
<1>20. ASSUME NEW header \in Bodies, NEW outcome \in {"more", "finish", "error"},
              PumpRead(header, outcome)
       PROVE  FetchStagesOrdered'
  <2>1. fetch.dns_done
    BY <1>20, <1>b DEF PumpRead
  <2> QED
    BY <1>20, <1>a, <1>b, <2>1, IngestStages DEF PumpRead, FetchStagesOrdered
<1>21. CASE UNCHANGED vars
  BY <1>21 DEF vars, FetchStagesOrdered
<1> QED
  BY <1>1, <1>2, <1>3, <1>4, <1>5, <1>6, <1>7, <1>8, <1>9, <1>10, <1>11, <1>12, <1>13,
     <1>14, <1>15, <1>16, <1>17, <1>18, <1>19, <1>20, <1>21
  DEF Next, User, Network, Loop

(* The order of the fetch's stages is an invariant of the stack.           *)
THEOREM StagesInvariant == Spec => []FetchStagesOrdered
<1>1. Init => FetchStagesOrdered
  BY DEF Init, FetchStagesOrdered, StagesOrdered, ClearFetchInner, WaitsForDns
<1> QED
  BY <1>1, TypeCorrect, StagesStep, PTL DEF Spec
----------------------------------------------------------------------------
(* A step that does not touch the IP half keeps its invariant, unless it   *)
(* enters drive or edits the settings inside it.                           *)
LEMMA IpUnchanged ==
  ASSUME IpInv, ip' = ip, settings' = settings \/ ~Polling', Polling' => Polling
  PROVE  IpInv'
  BY DEF IpInv, GatewayMacIsCurrent, DhcpHoldsStack, SettingsApplied, DhcpActive, Polling

(* The DHCP timers, run inside drive, keep the IP invariant.               *)
LEMMA TimersKeepIp ==
  ASSUME TypeOK, IpInv, Polling,
         NEW p \in NetPhases,
         ip' = DhcpTimers(ip) \/ (HasAddress(DhcpTimers(ip))
                                   /\ ip' = [DhcpTimers(ip) EXCEPT !.phase = p]),
         settings' = settings
  PROVE  IpInv'
<1> DEFINE d == DhcpTimers(ip)
<1>a. ip \in IpType /\ d \in IpType /\ settings \in Settings
  BY DhcpTimersType DEF TypeOK
<1>1. /\ d.ip_settings_tag = ip.ip_settings_tag /\ d.gw_mac = ip.gw_mac
      /\ d.phase = ip.phase
      /\ \/ d.addrs = ip.addrs /\ d.dhcp_phase = ip.dhcp_phase /\ d.gw_known = ip.gw_known
         \/ d.addrs = "slirp" /\ d.dhcp_phase = "Idle" /\ d.gw_known = FALSE /\ DhcpActive(ip)
  BY <1>a DEF DhcpTimers, IpType
<1> HIDE DEF d
<1>2. /\ ip'.ip_settings_tag = d.ip_settings_tag /\ ip'.gw_mac = d.gw_mac
      /\ ip'.addrs = d.addrs /\ ip'.dhcp_phase = d.dhcp_phase /\ ip'.gw_known = d.gw_known
      /\ ip'.phase = d.phase \/ ~DhcpActive(d)
  <2>1. CASE ip' = d
    BY <2>1
  <2>2. CASE HasAddress(d) /\ ip' = [d EXCEPT !.phase = p]
    <3>1. ~DhcpActive(d)
      BY <2>2, <1>1 DEF IpInv, DhcpHoldsStack, HasAddress, DhcpActive
    <3> QED
      BY <2>2, <3>1, <1>a DEF IpType
  <2> QED
    BY <2>1, <2>2 DEF d
<1>3. IpSettingsTag(settings)' = IpSettingsTag(settings)
  BY DEF IpSettingsTag
<1>4. GatewayMacIsCurrent'
  BY <1>1, <1>2 DEF IpInv, GatewayMacIsCurrent
<1>5. DhcpHoldsStack'
  BY <1>1, <1>2 DEF IpInv, DhcpHoldsStack, DhcpActive
<1>6. SettingsApplied'
  <2>1. CASE d.addrs = ip.addrs /\ d.dhcp_phase = ip.dhcp_phase
    BY <1>1, <1>2, <1>3, <2>1 DEF IpInv, SettingsApplied
  <2>2. CASE d.addrs = "slirp" /\ DhcpActive(ip)
    BY <1>1, <1>2, <1>3, <2>2 DEF IpInv, DhcpHoldsStack, SettingsApplied
  <2> QED
    BY <1>1, <2>1, <2>2
<1> QED
  BY <1>4, <1>5, <1>6 DEF IpInv

(* Every step keeps the IP invariant.                                      *)
LEMMA IpStep == TypeOK /\ IpInv /\ [Next]_vars => IpInv'
<1> SUFFICES ASSUME TypeOK, IpInv, [Next]_vars PROVE IpInv'
  OBVIOUS
<1>a. ip \in IpType /\ settings \in Settings /\ pc \in {"main", "rx", "tls", "pump"}
  BY DEF TypeOK
<1>1. CASE StartFetchBadUrl
  BY <1>1, IpUnchanged DEF StartFetchBadUrl, Polling
<1>2. ASSUME NEW scheme \in Schemes, NEW named \in BOOLEAN, StartFetch(scheme, named)
      PROVE  IpInv'
  BY <1>2, IpUnchanged DEF StartFetch, Polling
<1>3. CASE ReloadBlank
  <2>1. ip' = [ip EXCEPT !.phase = "Off"] /\ settings' = settings /\ pc' = pc
    BY <1>3 DEF ReloadBlank
  <2> QED
    BY <2>1, <1>a DEF IpInv, GatewayMacIsCurrent, DhcpHoldsStack, SettingsApplied, DhcpActive,
                      Polling, IpType, IpSettingsTag
<1>4. ASSUME NEW s \in Settings, EditIpSettings(s)
      PROVE  IpInv'
  BY <1>4, IpUnchanged DEF EditIpSettings, Polling
<1>5. CASE DriveBegin
  <2> DEFINE i == IF IpSettingsChanged THEN SyncIpFromSettings(ip, settings) ELSE ip
  <2>1. /\ ip' = [i EXCEPT !.tick = (ip.tick + 1) % TickMod]
        /\ settings' = settings /\ pc' = "rx"
    BY <1>5 DEF DriveBegin
  <2>2. /\ i.ip_settings_tag = IpSettingsTag(settings)
        /\ \/ /\ i.gw_known = FALSE /\ i.phase = "Off"
              /\ settings.ip_config = "Slirp"  => i.addrs = "slirp" /\ i.dhcp_phase = "Idle"
              /\ settings.ip_config = "Dhcp"   => i.addrs = "zero"
              /\ settings.ip_config = "Static" => i.addrs = settings.static /\ i.dhcp_phase = "Idle"
           \/ i = ip
    BY <1>a, ConstantsAssumption DEF SyncIpFromSettings, IpSettingsChanged, IpType, Settings
  <2>3. i \in IpType
    BY <1>a, SyncType DEF IpSettingsChanged, TypeOK
  <2> HIDE DEF i
  <2>4. /\ ip'.ip_settings_tag = i.ip_settings_tag /\ ip'.gw_known = i.gw_known
        /\ ip'.phase = i.phase /\ ip'.addrs = i.addrs /\ ip'.dhcp_phase = i.dhcp_phase
        /\ ip'.gw_mac = i.gw_mac
    BY <2>1, <2>3 DEF IpType
  <2>5. settings.ip_config \in {"Slirp", "Dhcp", "Static"} /\ settings.static \in StaticAddrs
    BY <1>a, ConstantsAssumption DEF Settings
  <2>6. IpSettingsTag(settings)' = IpSettingsTag(settings)
    BY <2>1 DEF IpSettingsTag
  <2>7. CASE i = ip
    BY <2>1, <2>2, <2>4, <2>6, <2>7
    DEF IpInv, GatewayMacIsCurrent, DhcpHoldsStack, SettingsApplied, DhcpActive
  <2>8. CASE i # ip
    <3>1. GatewayMacIsCurrent'
      BY <2>2, <2>4, <2>8 DEF GatewayMacIsCurrent
    <3>2. DhcpHoldsStack'
      BY <2>2, <2>4, <2>5, <2>8 DEF DhcpHoldsStack, DhcpActive, IpSettingsTag
    <3>3. SettingsApplied'
      <4>1. ip'.ip_settings_tag = IpSettingsTag(settings)'
        BY <2>2, <2>4, <2>6
      <4>2. CASE settings.ip_config = "Slirp"
        BY <2>2, <2>4, <2>8, <4>1, <4>2 DEF SettingsApplied, IpSettingsTag
      <4>3. CASE settings.ip_config = "Dhcp"
        BY <2>2, <2>4, <2>8, <4>1, <4>3 DEF SettingsApplied, IpSettingsTag
      <4>4. CASE settings.ip_config = "Static"
        BY <2>2, <2>4, <2>5, <2>8, <4>1, <4>4 DEF SettingsApplied, IpSettingsTag
      <4> QED
        BY <2>5, <4>2, <4>3, <4>4
    <3> QED
      BY <3>1, <3>2, <3>3 DEF IpInv
  <2> QED
    BY <2>7, <2>8
<1>6. CASE RxArpReply
  <2>1. /\ ip' = [ip EXCEPT !.gw_known = TRUE, !.gw_mac = ip.addrs]
        /\ settings' = settings /\ pc' = pc
    BY <1>6 DEF RxArpReply
  <2> QED
    BY <2>1, <1>a DEF IpInv, GatewayMacIsCurrent, DhcpHoldsStack, SettingsApplied, DhcpActive,
                      Polling, IpType, IpSettingsTag
<1>7. CASE RxDhcpOffer
  <2>1. /\ ip' = [ip EXCEPT !.dhcp_phase = "WaitAck", !.dhcp_phase_start_tick = ip.tick,
                            !.dhcp_last_tx_tick = ip.tick]
        /\ settings' = settings /\ pc' = pc /\ ip.dhcp_phase = "WaitOffer"
    BY <1>7 DEF RxDhcpOffer
  <2> QED
    BY <2>1, <1>a DEF IpInv, GatewayMacIsCurrent, DhcpHoldsStack, SettingsApplied, DhcpActive,
                      Polling, IpType, IpSettingsTag
<1>8. ASSUME NEW lease \in Leases, RxDhcpAck(lease)
      PROVE  IpInv'
  <2>1. /\ ip' = [ip EXCEPT !.addrs = lease, !.dhcp_phase = "Bound", !.gw_known = FALSE]
        /\ settings' = settings /\ pc' = pc /\ ip.dhcp_phase = "WaitAck"
    BY <1>8 DEF RxDhcpAck
  <2>2. ip.ip_settings_tag = 1
    BY <2>1 DEF IpInv, SettingsApplied
  <2> QED
    BY <2>1, <2>2, <1>a
    DEF IpInv, GatewayMacIsCurrent, DhcpHoldsStack, SettingsApplied, DhcpActive,
        Polling, IpType, IpSettingsTag
<1>9. CASE RxDnsAnswer
  BY <1>9, IpUnchanged DEF RxDnsAnswer, Polling
<1>10. CASE RxRst
  BY <1>10, IpUnchanged DEF RxRst, Polling
<1>11. ASSUME NEW tx \in {"sent", "dropped", "toolong"}, RxSynAck(tx)
       PROVE  IpInv'
  BY <1>11, IpUnchanged DEF RxSynAck, Polling
<1>12. ASSUME NEW header \in Bodies, NEW outcome \in {"more", "finish", "error"},
              NEW fin \in BOOLEAN, NEW decoded \in BOOLEAN,
              RxPayload(header, outcome, fin, decoded)
       PROVE  IpInv'
  BY <1>12, IpUnchanged DEF RxPayload, Polling
<1>13. ASSUME NEW decoded \in BOOLEAN, RxFin(decoded)
       PROVE  IpInv'
  BY <1>13, IpUnchanged DEF RxFin, Polling
<1>14. CASE DriveNoAddress
  <2>1. ip' = DhcpTimers(ip) /\ settings' = settings /\ Polling
    BY <1>14 DEF DriveNoAddress, Polling
  <2>2. "Off" \in NetPhases
    BY DEF NetPhases
  <2> QED
    BY <2>1, <2>2, TimersKeepIp
<1>15. CASE DrivePhase
  <2> DEFINE p == PhaseOf(DhcpTimers(ip), fetch)
  <2>1. /\ HasAddress(DhcpTimers(ip)) /\ ip' = [DhcpTimers(ip) EXCEPT !.phase = p]
        /\ settings' = settings /\ Polling
    BY <1>15 DEF DrivePhase, Polling
  <2>2. p \in NetPhases
    BY DEF PhaseOf, NetPhases
  <2> HIDE DEF p
  <2> QED
    BY <2>1, <2>2, TimersKeepIp
<1>16. CASE HandshakeDone
  BY <1>16, IpUnchanged DEF HandshakeDone, Polling
<1>17. ASSUME NEW msg \in HandshakeErrs, HandshakeFailed(msg)
       PROVE  IpInv'
  BY <1>17, IpUnchanged DEF HandshakeFailed, Polling
<1>18. CASE PumpReadErr
  BY <1>18, IpUnchanged DEF PumpReadErr, Polling
<1>19. ASSUME NEW decoded \in BOOLEAN, PumpReadEnd(decoded)
       PROVE  IpInv'
  BY <1>19, IpUnchanged DEF PumpReadEnd, Polling
<1>20. ASSUME NEW header \in Bodies, NEW outcome \in {"more", "finish", "error"},
              PumpRead(header, outcome)
       PROVE  IpInv'
  BY <1>20, IpUnchanged DEF PumpRead, Polling
<1>21. CASE UNCHANGED vars
  BY <1>21, IpUnchanged DEF vars, Polling
<1> QED
  BY <1>1, <1>2, <1>3, <1>4, <1>5, <1>6, <1>7, <1>8, <1>9, <1>10, <1>11, <1>12, <1>13,
     <1>14, <1>15, <1>16, <1>17, <1>18, <1>19, <1>20, <1>21
  DEF Next, User, Network, Loop, DriveArp, DriveDns, DriveNoFetch, DriveTcp

(* The IP invariant holds in every reachable state.                        *)
LEMMA IpInvariant == Spec => []IpInv
<1>1. Init => IpInv
  <2> SUFFICES ASSUME Init PROVE IpInv
    OBVIOUS
  <2> QED
    BY DEF Init, IpInv, GatewayMacIsCurrent, DhcpHoldsStack, SettingsApplied, DhcpActive,
                Polling, NoTag
<1> QED
  BY <1>1, TypeCorrect, IpStep, PTL DEF Spec

(* The MAC that frames are sent to is always the one resolved for the      *)
(* addresses in use.                                                       *)
THEOREM GatewayInvariant == Spec => []GatewayMacIsCurrent
<1>1. IpInv => GatewayMacIsCurrent
  BY DEF IpInv
<1> QED
  BY <1>1, IpInvariant, PTL

(* While DHCP negotiates, the stack has no address and shows phase Off.    *)
THEOREM DhcpInvariant == Spec => []DhcpHoldsStack
<1>1. IpInv => DhcpHoldsStack
  BY DEF IpInv
<1> QED
  BY <1>1, IpInvariant, PTL

(* Inside drive the addresses are those the current settings call for, if  *)
(* no other settings have their fingerprint.                               *)
THEOREM AddressInvariant == Spec => []AddressesFollowSettings
<1>1. TypeOK /\ IpInv => AddressesFollowSettings
  <2> SUFFICES ASSUME TypeOK, IpInv PROVE AddressesFollowSettings
    OBVIOUS
  <2>1. settings \in Settings
    BY DEF TypeOK
  <2>2. settings.ip_config \in {"Slirp", "Dhcp", "Static"} /\ settings.static \in StaticAddrs
    BY <2>1, ConstantsAssumption DEF Settings
  <2>3. ASSUME Polling, OwnTag(settings)
        PROVE  /\ settings.ip_config = "Slirp" => ip.addrs = "slirp"
               /\ settings.ip_config = "Static" => ip.addrs = settings.static
               /\ settings.ip_config = "Dhcp" => ip.addrs \in {"zero", "slirp"} \cup Leases
    <3>1. /\ ip.ip_settings_tag = IpSettingsTag(settings)
          /\ \/ ip.ip_settings_tag \in {NoTag, 0} /\ ip.addrs = "slirp"
             \/ ip.ip_settings_tag = 1 /\ ip.addrs \in {"zero", "slirp"} \cup Leases
             \/ \E a \in StaticAddrs : ip.ip_settings_tag = StaticTag[a] /\ ip.addrs = a
      BY <2>3 DEF IpInv, SettingsApplied
    <3>2. CASE settings.ip_config = "Slirp"
      <4>1. ip.ip_settings_tag = 0 /\ \A a \in StaticAddrs : StaticTag[a] # 0
        BY <2>3, <3>1, <3>2 DEF IpSettingsTag, OwnTag
      <4> QED
        BY <3>1, <3>2, <4>1
    <3>3. CASE settings.ip_config = "Dhcp"
      <4>1. ip.ip_settings_tag = 1 /\ \A a \in StaticAddrs : StaticTag[a] # 1
        BY <2>3, <3>1, <3>3 DEF IpSettingsTag, OwnTag
      <4> QED
        BY <3>1, <3>3, <4>1 DEF NoTag
    <3>4. CASE settings.ip_config = "Static"
      <4>1. /\ ip.ip_settings_tag = StaticTag[settings.static] /\ ip.ip_settings_tag \notin {NoTag, 0, 1}
            /\ \A a \in StaticAddrs : a # settings.static => StaticTag[a] # ip.ip_settings_tag
        BY <2>3, <3>1, <3>4 DEF IpSettingsTag, OwnTag
      <4> QED
        BY <3>1, <3>4, <4>1
    <3> QED
      BY <2>2, <3>2, <3>3, <3>4
  <2> QED
    BY <2>2, <2>3 DEF AddressesFollowSettings
<1> QED
  BY <1>1, TypeCorrect, IpInvariant, PTL
----------------------------------------------------------------------------
Bump1(f) == (f.page_gen + 1) % GenMod
Bump2(f) == (Bump1(f) + 1) % GenMod

(* page_gen differs from what it was after one or two increments.          *)
LEMMA BumpMoves ==
  ASSUME NEW f \in FetchType
  PROVE  Bump1(f) # f.page_gen /\ Bump2(f) # f.page_gen
<1> DEFINE g == f.page_gen
<1>1. GenMod \in Nat /\ GenMod > 2 /\ g \in 0 .. GenMod - 1
  BY ConstantsAssumption DEF FetchType, Gens
<1>2. \A a \in 0 .. GenMod - 1 : a % GenMod = a
  BY <1>1
<1>3. GenMod % GenMod = 0
  BY <1>1
<1> HIDE DEF g
<1>4. CASE g + 1 = GenMod
  BY <1>1, <1>2, <1>3, <1>4 DEF Bump1, Bump2, g
<1>5. CASE g + 1 < GenMod
  <2>1. (g + 1) % GenMod = g + 1
    BY <1>1, <1>2, <1>5
  <2>2. CASE g + 2 = GenMod
    BY <1>1, <1>3, <2>1, <2>2 DEF Bump1, Bump2, g
  <2>3. CASE g + 2 < GenMod
    BY <1>1, <1>2, <2>1, <2>3 DEF Bump1, Bump2, g
  <2> QED
    BY <1>1, <1>5, <2>2, <2>3
<1> QED
  BY <1>1, <1>4, <1>5

(* set_err moves page_gen once and settles the fetch.                      *)
LEMMA SetErrGen ==
  ASSUME NEW f \in FetchType, NEW msg
  PROVE  SetErr(f, msg).page_gen = Bump1(f) /\ SetErr(f, msg).fetch_done
  BY DEF SetErr, BumpGen, Bump1, FetchType

(* finish_fetch does nothing to a settled fetch and moves page_gen once    *)
(* otherwise.                                                              *)
LEMMA FinishFetchGen ==
  ASSUME NEW f \in FetchType, NEW d \in BOOLEAN
  PROVE  /\ f.fetch_done => FinishFetch(f, d) = f
         /\ ~f.fetch_done => FinishFetch(f, d).page_gen = Bump1(f)
  BY SetErrGen DEF FinishFetch, BumpGen, Bump1, FetchType

(* finish_plain_http_on_tcp_eof likewise.                                  *)
LEMMA FinishOnEofGen ==
  ASSUME NEW f \in FetchType, NEW d \in BOOLEAN
  PROVE  /\ f.fetch_done => FinishOnEof(f, d) = f
         /\ ~f.fetch_done => FinishOnEof(f, d).page_gen = Bump1(f)
  BY SetErrGen, FinishFetchGen DEF FinishOnEof

(* A segment moves page_gen at most once while the fetch goes on, and once *)
(* or twice when it settles the fetch.                                     *)
LEMMA IngestGen ==
  ASSUME NEW f \in FetchType, ~f.fetch_done,
         NEW header \in Bodies, NEW outcome \in {"more", "finish", "error"}
  PROVE  LET g == Ingest(f, header, outcome)
         IN  IF g.fetch_done THEN g.page_gen \in {Bump1(f), Bump2(f)}
             ELSE g.page_gen \in {f.page_gen, Bump1(f)}
<1> DEFINE seen == f.body = "none" /\ header # "none"
           f1   == IF seen THEN [f EXCEPT !.body = header] ELSE f
           f2   == CASE outcome = "more"   -> f1
                     [] outcome = "finish" -> FinishFetch(f1, TRUE)
                     [] outcome = "error"  -> SetErr(f1, "HTTP BODY")
<1>1. f1 \in FetchType /\ f1.page_gen = f.page_gen /\ ~f1.fetch_done
  BY DEF FetchType
<1> HIDE DEF f1
<1>2. Bump1(f1) = Bump1(f)
  BY <1>1 DEF Bump1
<1>3. FinishFetch(f1, TRUE).page_gen = Bump1(f)
  BY <1>1, <1>2, FinishFetchGen
<1>4. SetErr(f1, "HTTP BODY").page_gen = Bump1(f) /\ SetErr(f1, "HTTP BODY").fetch_done
  BY <1>1, <1>2, SetErrGen
<1>5. FinishFetch(f1, TRUE) \in FetchType /\ SetErr(f1, "HTTP BODY") \in FetchType
  BY <1>1, FinishFetchType, SetErrType DEF Errs
<1>6. f2 \in FetchType /\ (IF f2.fetch_done THEN f2.page_gen = Bump1(f)
                            ELSE f2.page_gen \in {f.page_gen, Bump1(f)})
      /\ (f2.page_gen = f.page_gen \/ f2.page_gen = Bump1(f))
  BY <1>1, <1>3, <1>4, <1>5
<1>7. outcome # "more" => f2.fetch_done
  <2>1. FinishFetch(f1, TRUE).fetch_done
    BY <1>1 DEF FinishFetch, BumpGen, FetchType
  <2> QED
    BY <2>1, <1>4
<1>8. outcome = "more" => f2.page_gen = f.page_gen /\ ~f2.fetch_done
  BY <1>1
<1> HIDE DEF f2
<1>9. BumpGen(f2).page_gen = (f2.page_gen + 1) % GenMod /\ BumpGen(f2).fetch_done = f2.fetch_done
  BY <1>6 DEF BumpGen, FetchType
<1>10. Ingest(f, header, outcome) = IF seen THEN BumpGen(f2) ELSE f2
  BY DEF Ingest, f1, f2
<1> QED
  BY <1>6, <1>7, <1>8, <1>9, <1>10 DEF Bump1, Bump2

(* A step that settles or starts a fetch moves page_gen.                   *)
LEMMA GenStep ==
  TypeOK /\ FetchStagesOrdered /\ Next => (Settles \/ Starts => fetch'.page_gen # fetch.page_gen)
<1> SUFFICES ASSUME TypeOK, FetchStagesOrdered, Next, Settles \/ Starts
             PROVE  fetch'.page_gen # fetch.page_gen
  OBVIOUS
<1>a. fetch \in FetchType /\ ip.tick \in Ticks /\ budget.fetches \in Nat
  BY DEF TypeOK, IpType
<1>b. /\ fetch'.page_gen \in {Bump1(fetch), Bump2(fetch)} => fetch'.page_gen # fetch.page_gen
      /\ budget'.fetches = budget.fetches => ~fetch.fetch_done
      /\ fetch' = fetch => budget'.fetches # budget.fetches
  BY <1>a, BumpMoves DEF Settles, Starts
<1>1. CASE User
  <2> DEFINE c == ClearFetchInner(fetch, ip.tick)
  <2>1. c \in FetchType /\ c.page_gen = fetch.page_gen
    <3>1. c \in FetchType
      BY <1>a, ClearFetchInnerType DEF FetchType
    <3> QED
      BY <3>1 DEF ClearFetchInner
  <2>2. Bump1(c) = Bump1(fetch)
    BY <2>1 DEF Bump1
  <2>3. CASE StartFetchBadUrl
    BY <2>1, <2>2, <2>3, <1>b, SetErrGen DEF StartFetchBadUrl
  <2>4. ASSUME NEW scheme \in Schemes, NEW named \in BOOLEAN, StartFetch(scheme, named)
        PROVE  fetch'.page_gen # fetch.page_gen
    <3>1. fetch'.page_gen = (fetch.page_gen + 1) % GenMod
      BY <2>4 DEF StartFetch, ClearFetchInner, BumpGen
    <3> QED
      BY <3>1, <1>b DEF Bump1
  <2>5. CASE ReloadBlank
    BY <2>5 DEF ReloadBlank, ClearFetchInner, Settles, Starts
  <2>6. ASSUME NEW s \in Settings, EditIpSettings(s)
        PROVE  fetch'.page_gen # fetch.page_gen
    <3>1. budget'.fetches = budget.fetches /\ fetch' = fetch
      BY <2>6 DEF EditIpSettings, TypeOK
    <3> QED
      BY <3>1, <1>b
  <2> QED
    BY <1>1, <2>3, <2>4, <2>5, <2>6 DEF User
<1>2. CASE DriveBegin
  BY <1>2, <1>b DEF DriveBegin, ClearFetchInner, Settles, Starts
<1>3. CASE RxArpReply \/ RxDhcpOffer \/ DriveNoAddress \/ DriveArp \/ DriveNoFetch
  BY <1>3, <1>b DEF RxArpReply, RxDhcpOffer, DriveNoAddress, DriveArp, DriveNoFetch, DrivePhase
<1>4. ASSUME NEW lease \in Leases, RxDhcpAck(lease)
      PROVE  fetch'.page_gen # fetch.page_gen
  BY <1>4, <1>a DEF RxDhcpAck, FetchType, Settles, Starts
<1>5. CASE RxDnsAnswer
  BY <1>5, <1>a DEF RxDnsAnswer, FetchType, Settles, Starts
<1>6. CASE RxRst \/ PumpReadErr
  BY <1>6, <1>a, <1>b, SetErrGen DEF RxRst, PumpReadErr
<1>7. ASSUME NEW tx \in {"sent", "dropped", "toolong"}, RxSynAck(tx)
      PROVE  fetch'.page_gen # fetch.page_gen
  <2>1. CASE ~fetch.https_mode /\ tx = "toolong"
    BY <2>1, <1>7, <1>a, <1>b, SetErrGen DEF RxSynAck
  <2>2. CASE fetch.https_mode \/ tx # "toolong"
    BY <2>2, <1>7, <1>a DEF RxSynAck, FetchType, Settles, Starts
  <2> QED
    BY <2>1, <2>2
<1>8. ASSUME NEW header \in Bodies, NEW outcome \in {"more", "finish", "error"},
             NEW fin \in BOOLEAN, NEW decoded \in BOOLEAN,
             RxPayload(header, outcome, fin, decoded)
      PROVE  fetch'.page_gen # fetch.page_gen
  <2> DEFINE f0 == [fetch EXCEPT !.fetch_progress_tick = ip.tick]
             f1 == Ingest(f0, header, outcome)
             e  == [f0 EXCEPT !.tls_tcp_eof = @ \/ fin]
  <2>a. budget'.fetches = budget.fetches /\ ~fetch.fetch_done
    BY <1>8, <1>b DEF RxPayload, TypeOK
  <2>b. fetch'.fetch_done
    BY <2>a DEF Settles, Starts
  <2>1. f0 \in FetchType /\ f0.page_gen = fetch.page_gen /\ ~f0.fetch_done
    BY <1>a, <2>a DEF FetchType
  <2>2. e.fetch_done = f0.fetch_done
    BY <2>1 DEF FetchType
  <2>3. fetch' = IF fetch.https_mode
                 THEN IF outcome = "error" THEN SetErr(f0, "TLS RX OVFL") ELSE e
                 ELSE IF fin THEN FinishOnEof(f1, decoded) ELSE f1
    BY <1>8 DEF RxPayload
  <2> HIDE DEF f0, e
  <2>4. Bump1(f0) = Bump1(fetch) /\ Bump2(f0) = Bump2(fetch)
    BY <2>1 DEF Bump1, Bump2
  <2>5. f1 \in FetchType
    BY <2>1, IngestType
  <2>6. IF f1.fetch_done THEN f1.page_gen \in {Bump1(fetch), Bump2(fetch)}
        ELSE f1.page_gen \in {fetch.page_gen, Bump1(fetch)}
    BY <2>1, <2>4, IngestGen
  <2> HIDE DEF f1
  <2>7. FinishOnEof(f1, decoded).page_gen \in {Bump1(fetch), Bump2(fetch)}
    BY <2>5, <2>6, FinishOnEofGen DEF Bump1, Bump2
  <2>8. SetErr(f0, "TLS RX OVFL").page_gen = Bump1(fetch)
    BY <2>1, <2>4, SetErrGen
  <2> QED
    BY <1>b, <2>b, <2>1, <2>2, <2>3, <2>6, <2>7, <2>8
<1>9. ASSUME NEW decoded \in BOOLEAN, RxFin(decoded)
      PROVE  fetch'.page_gen # fetch.page_gen
  <2>1. budget'.fetches = budget.fetches
    BY <1>9 DEF RxFin
  <2>2. CASE fetch.https_mode
    BY <2>1, <2>2, <1>9, <1>a DEF RxFin, FetchType, Settles, Starts
  <2>3. CASE ~fetch.https_mode
    BY <2>1, <2>3, <1>9, <1>a, <1>b, FinishOnEofGen DEF RxFin
  <2> QED
    BY <2>2, <2>3
<1>10. CASE DriveDns
  <2> DEFINE f1 == [fetch EXCEPT !.dns_xmit_phase = @ + 1]
  <2>1. f1 \in FetchType /\ f1.page_gen = fetch.page_gen /\ f1.fetch_done = fetch.fetch_done
    BY <1>a DEF FetchType
  <2> HIDE DEF f1
  <2>2. fetch' \in {f1, SetErr(f1, "DNS TIMEOUT")} /\ budget'.fetches = budget.fetches
    BY <1>10 DEF DriveDns, DrivePhase, DnsStep, f1
  <2>3. SetErr(f1, "DNS TIMEOUT").page_gen = Bump1(fetch)
    BY <2>1, SetErrGen DEF Bump1
  <2> QED
    BY <1>b, <2>1, <2>2, <2>3 DEF Settles, Starts
<1>11. CASE DriveTcp
  <2> DEFINE t == TrySyn(fetch)
             f == TcpStep(fetch)
  <2>1. t \in FetchType /\ t.page_gen = fetch.page_gen /\ t.fetch_done = fetch.fetch_done
    <3>1. fetch.syn_retries + 1 \in Nat
      BY <1>a DEF FetchType
    <3>2. [fetch EXCEPT !.syn_sent = TRUE, !.syn_retries = fetch.syn_retries + 1] \in FetchType
      BY <1>a, <3>1 DEF FetchType
    <3> QED
      BY <1>a, <3>2 DEF TrySyn, FetchType
  <2> HIDE DEF t
  <2>2. f \in {t, SetErr(fetch, "TCP NO CONNECT"), SetErr(t, "HTTP TIMEOUT")}
    BY DEF TcpStep, t
  <2>3. f.page_gen = Bump1(fetch) \/ f.fetch_done = fetch.fetch_done
    BY <1>a, <2>1, <2>2, SetErrGen DEF Bump1
  <2>4. f \in FetchType
    BY <1>a, TcpStepType
  <2> HIDE DEF f
  <2>5. /\ fetch' = IF StartsHandshake(f) THEN [f EXCEPT !.https_handshake_queued = FALSE] ELSE f
        /\ budget'.fetches = budget.fetches
    BY <1>11 DEF DriveTcp, DrivePhase, f
  <2>6. fetch'.page_gen = f.page_gen /\ fetch'.fetch_done = f.fetch_done
    BY <2>4, <2>5 DEF FetchType
  <2> QED
    BY <1>b, <2>3, <2>5, <2>6 DEF Settles, Starts
<1>12. CASE HandshakeDone
  BY <1>12, <1>a DEF HandshakeDone, FetchType, Settles, Starts
<1>13. ASSUME NEW msg \in HandshakeErrs, HandshakeFailed(msg)
       PROVE  fetch'.page_gen # fetch.page_gen
  BY <1>13, <1>a, <1>b, SetErrGen DEF HandshakeFailed
<1>14. ASSUME NEW decoded \in BOOLEAN, PumpReadEnd(decoded)
       PROVE  fetch'.page_gen # fetch.page_gen
  BY <1>14, <1>a, <1>b, FinishOnEofGen DEF PumpReadEnd
<1>15. ASSUME NEW header \in Bodies, NEW outcome \in {"more", "finish", "error"},
              PumpRead(header, outcome)
       PROVE  fetch'.page_gen # fetch.page_gen
  <2>1. budget'.fetches = budget.fetches /\ ~fetch.fetch_done
    BY <1>15, <1>b DEF PumpRead
  <2>2. fetch' = Ingest(fetch, header, outcome) /\ fetch'.fetch_done
    BY <1>15, <2>1 DEF PumpRead, Settles, Starts
  <2> QED
    BY <1>a, <1>b, <2>1, <2>2, IngestGen
<1> QED
  BY <1>1, <1>2, <1>3, <1>4, <1>5, <1>6, <1>7, <1>8, <1>9, <1>10, <1>11, <1>12, <1>13,
     <1>14, <1>15
  DEF Next, Network, Loop

(* Whenever a fetch starts, is rejected or settles, page_gen moves.        *)
THEOREM GenMoves == Spec => SettlingMovesGen
<1>1. TypeOK /\ FetchStagesOrdered /\ [Next]_vars
      => [Settles \/ Starts => fetch'.page_gen # fetch.page_gen]_vars
  BY GenStep
<1> QED
  BY <1>1, TypeCorrect, StagesInvariant, PTL DEF Spec, SettlingMovesGen

----------------------------------------------------------------------------
(* The refinement.  A fetch is live while it loads and once it is settled. *)
(* The two TLS loops only run for a live fetch, and no page is shown while *)
(* a handshake runs: payload waits in the queue of the bridge, and no      *)
(* lease can come.                                                         *)

Live(f) == f.fetch_armed # f.fetch_done
TlsInv ==
  pc \in {"tls", "pump"} =>
    /\ Live(fetch)
    /\ pc = "tls" => ~DhcpActive(ip) /\ (fetch.fetch_done => fetch.fetch_err # "none")

Outcome(f) ==
  IF f.fetch_armed THEN "loading"
  ELSE IF ~f.fetch_done THEN "idle"
  ELSE IF f.fetch_err = "none" THEN "shown" ELSE "failed"

Same(f, g) ==
  g.fetch_armed = f.fetch_armed /\ g.fetch_done = f.fetch_done /\ g.fetch_err = f.fetch_err

(* set_err settles a fetch with the message it is given.                   *)
LEMMA SetErrLive ==
  ASSUME NEW f \in FetchType, NEW msg
  PROVE  /\ ~SetErr(f, msg).fetch_armed /\ SetErr(f, msg).fetch_done
         /\ SetErr(f, msg).fetch_err = msg /\ Live(SetErr(f, msg))
  BY DEF SetErr, BumpGen, FetchType, Live

(* finish_fetch keeps a fetch live.                                        *)
LEMMA FinishFetchLive ==
  ASSUME NEW f \in FetchType, NEW d \in BOOLEAN, Live(f)
  PROVE  Live(FinishFetch(f, d))
<1>1. CASE f.fetch_done
  BY <1>1 DEF FinishFetch
<1>2. CASE ~f.fetch_done /\ ~d
  BY <1>2, SetErrLive DEF FinishFetch
<1>3. CASE ~f.fetch_done /\ d
  BY <1>3 DEF FinishFetch, BumpGen, FetchType, Live
<1> QED
  BY <1>1, <1>2, <1>3 DEF FetchType

(* finish_plain_http_on_tcp_eof keeps a fetch live.                        *)
LEMMA FinishOnEofLive ==
  ASSUME NEW f \in FetchType, NEW d \in BOOLEAN, Live(f)
  PROVE  Live(FinishOnEof(f, d))
  BY SetErrLive, FinishFetchLive DEF FinishOnEof

(* ingest_tcp_payload keeps a fetch live.                                  *)
LEMMA IngestLive ==
  ASSUME NEW f \in FetchType, Live(f),
         NEW header \in Bodies, NEW outcome \in {"more", "finish", "error"}
  PROVE  Live(Ingest(f, header, outcome))
<1> DEFINE seen == f.body = "none" /\ header # "none"
           f1   == IF seen THEN [f EXCEPT !.body = header] ELSE f
           f2   == CASE outcome = "more"   -> f1
                     [] outcome = "finish" -> FinishFetch(f1, TRUE)
                     [] outcome = "error"  -> SetErr(f1, "HTTP BODY")
<1>1. f1 \in FetchType /\ Live(f1)
  BY DEF FetchType, Live
<1> HIDE DEF f1
<1>2. FinishFetch(f1, TRUE) \in FetchType /\ Live(FinishFetch(f1, TRUE))
  BY <1>1, FinishFetchType, FinishFetchLive
<1>3. SetErr(f1, "HTTP BODY") \in FetchType /\ Live(SetErr(f1, "HTTP BODY"))
  BY <1>1, SetErrType, SetErrLive DEF Errs
<1>4. f2 \in FetchType /\ Live(f2)
  BY <1>1, <1>2, <1>3
<1> HIDE DEF f2
<1>5. Live(BumpGen(f2))
  BY <1>4 DEF BumpGen, FetchType, Live
<1>6. Ingest(f, header, outcome) = IF seen THEN BumpGen(f2) ELSE f2
  BY DEF Ingest, f1, f2
<1> QED
  BY <1>4, <1>5, <1>6

(* A name that is not resolved in time settles the fetch, which was        *)
(* loading.                                                                *)
LEMMA DnsLive ==
  ASSUME TypeOK, DriveDns
  PROVE  fetch.fetch_armed /\ (Same(fetch, fetch') \/ Live(fetch'))
<1>a. fetch \in FetchType /\ ip \in IpType /\ DhcpTimers(ip) \in IpType
  BY DhcpTimersType DEF TypeOK
<1> DEFINE f1 == [fetch EXCEPT !.dns_xmit_phase = @ + 1]
<1>1. f1 \in FetchType /\ Same(fetch, f1)
  BY <1>a DEF FetchType, Same
<1>2. fetch' \in {f1, SetErr(f1, "DNS TIMEOUT")}
  BY DEF DriveDns, DnsStep
<1> HIDE DEF f1
<1>3. Same(fetch, fetch') \/ Live(fetch')
  BY <1>1, <1>2, SetErrLive
<1>4. PhaseOf(DhcpTimers(ip), fetch) = "Dns"
  BY <1>a DEF DriveDns, DrivePhase, IpType
<1>5. fetch.fetch_armed
  BY <1>4 DEF PhaseOf, WaitsForDns
<1> QED
  BY <1>3, <1>5

(* The timers of a connection: the fetch was loading, and if a TLS loop is *)
(* entered it still is.                                                    *)
LEMMA TcpLive ==
  ASSUME TypeOK, DriveTcp
  PROVE  /\ fetch.fetch_armed /\ ~fetch.fetch_done /\ (Same(fetch, fetch') \/ Live(fetch'))
         /\ pc' \in {"tls", "pump"} => Same(fetch, fetch')
<1>a. fetch \in FetchType /\ ip \in IpType /\ DhcpTimers(ip) \in IpType
  BY DhcpTimersType DEF TypeOK
<1> DEFINE t == TrySyn(fetch)
           f == TcpStep(fetch)
<1>1. t \in FetchType /\ Same(fetch, t)
  <2>1. fetch.syn_retries + 1 \in Nat
    BY <1>a DEF FetchType
  <2>2. [fetch EXCEPT !.syn_sent = TRUE, !.syn_retries = fetch.syn_retries + 1] \in FetchType
    BY <1>a, <2>1 DEF FetchType
  <2> QED
    BY <1>a, <2>2 DEF TrySyn, FetchType, Same
<1> HIDE DEF t
<1>2. f \in {t, SetErr(fetch, "TCP NO CONNECT"), SetErr(t, "HTTP TIMEOUT")}
  BY DEF TcpStep, t
<1>3. f \in FetchType
  BY <1>a, TcpStepType
<1>4. Same(fetch, f) \/ (Live(f) /\ f.fetch_done)
  BY <1>a, <1>1, <1>2, SetErrLive
<1> HIDE DEF f
<1>5. /\ fetch' = IF StartsHandshake(f) THEN [f EXCEPT !.https_handshake_queued = FALSE] ELSE f
      /\ pc' \in {"tls", "pump"} => ~f.fetch_done
  BY DEF DriveTcp, f, StartsHandshake, StartsPump
<1>6. Same(f, fetch')
  BY <1>3, <1>5 DEF FetchType, Same
<1>7. PhaseOf(DhcpTimers(ip), fetch) \in {"Tcp", "Http"}
  BY <1>a DEF DriveTcp, DrivePhase, IpType
<1>8. fetch.fetch_armed /\ ~fetch.fetch_done
  BY <1>7 DEF PhaseOf, WaitsForTcp
<1> QED
  BY <1>4, <1>5, <1>6, <1>8 DEF Same, Live

(* Payload of a live fetch that is not HTTPS may settle it; HTTPS payload  *)
(* is queued.                                                              *)
LEMMA PayloadLive ==
  ASSUME TypeOK, Live(fetch), NEW header \in Bodies, NEW outcome \in {"more", "finish", "error"},
         NEW fin \in BOOLEAN, NEW decoded \in BOOLEAN, RxPayload(header, outcome, fin, decoded)
  PROVE  /\ Live(fetch')
         /\ fetch.https_mode => Same(fetch, fetch') \/ fetch'.fetch_err # "none"
<1> DEFINE f0 == [fetch EXCEPT !.fetch_progress_tick = ip.tick]
           f1 == Ingest(f0, header, outcome)
           e  == [f0 EXCEPT !.tls_tcp_eof = @ \/ fin]
<1>1. f0 \in FetchType /\ Same(fetch, f0) /\ Live(f0)
  BY DEF TypeOK, IpType, FetchType, Same, Live
<1>2. fetch' = IF fetch.https_mode
               THEN IF outcome = "error" THEN SetErr(f0, "TLS RX OVFL") ELSE e
               ELSE IF fin THEN FinishOnEof(f1, decoded) ELSE f1
  BY DEF RxPayload
<1>3. Same(f0, e)
  BY <1>1 DEF FetchType, Same
<1> HIDE DEF f0, e
<1>4. f1 \in FetchType /\ Live(f1)
  BY <1>1, IngestType, IngestLive
<1> HIDE DEF f1
<1>5. Live(FinishOnEof(f1, decoded))
  BY <1>4, FinishOnEofLive
<1>6. Live(SetErr(f0, "TLS RX OVFL")) /\ SetErr(f0, "TLS RX OVFL").fetch_err = "TLS RX OVFL"
  BY <1>1, SetErrLive
<1>7. Same(fetch, e) /\ Live(e)
  BY <1>1, <1>3 DEF Same, Live
<1> QED
  BY <1>2, <1>4, <1>5, <1>6, <1>7

(* Every step keeps the fetch of a TLS loop live.                          *)
LEMMA TlsStep == TypeOK /\ FetchStagesOrdered /\ IpInv /\ TlsInv /\ [Next]_vars => TlsInv'
<1> SUFFICES ASSUME TypeOK, FetchStagesOrdered, IpInv, TlsInv, [Next]_vars, pc' \in {"tls", "pump"}
             PROVE  TlsInv'
  BY DEF TlsInv
<1>a. fetch \in FetchType /\ ip \in IpType /\ settings \in Settings
  BY DEF TypeOK
<1>b. ASSUME pc \in {"tls", "pump"}, pc' = pc, Live(fetch'),
             pc = "tls" => ~DhcpActive(ip') /\ (Same(fetch, fetch') \/ fetch'.fetch_err # "none")
      PROVE  TlsInv'
  BY <1>b DEF TlsInv, DhcpActive, Same
<1>c. pc \in {"tls", "pump"} => Live(fetch) /\ fetch.https_mode /\ (pc = "tls" => ~DhcpActive(ip))
  BY DEF TlsInv, FetchStagesOrdered
<1>1. CASE User \/ DriveBegin
  BY <1>1 DEF User, StartFetchBadUrl, StartFetch, ReloadBlank, EditIpSettings, DriveBegin
<1>2. CASE DriveNoAddress \/ DriveArp \/ DriveDns \/ DriveNoFetch
  BY <1>2 DEF DriveNoAddress, DriveArp, DriveDns, DriveNoFetch
<1>3. CASE HandshakeDone \/ (\E msg \in HandshakeErrs : HandshakeFailed(msg)) \/ PumpReadErr
           \/ (\E decoded \in BOOLEAN : PumpReadEnd(decoded))
  BY <1>3 DEF HandshakeDone, HandshakeFailed, PumpReadErr, PumpReadEnd
<1>4. CASE RxArpReply
  <2>1. fetch' = fetch /\ pc' = pc /\ ip'.dhcp_phase = ip.dhcp_phase
    BY <1>4, <1>a DEF RxArpReply, IpType
  <2> QED
    BY <1>b, <1>c, <2>1 DEF DhcpActive, Same
<1>5. CASE RxDhcpOffer
  <2>1. fetch' = fetch /\ pc' = pc /\ DhcpActive(ip)
    BY <1>5 DEF RxDhcpOffer, DhcpActive
  <2> QED
    BY <1>b, <1>c, <2>1
<1>6. ASSUME NEW lease \in Leases, RxDhcpAck(lease)
      PROVE  TlsInv'
  <2>1. fetch' = [fetch EXCEPT !.fetch_err = "none"] /\ pc' = pc /\ DhcpActive(ip)
    BY <1>6 DEF RxDhcpAck, DhcpActive
  <2>2. fetch'.fetch_armed = fetch.fetch_armed /\ fetch'.fetch_done = fetch.fetch_done
    BY <1>a, <2>1 DEF FetchType
  <2> QED
    BY <1>b, <1>c, <2>1, <2>2 DEF Live
<1>7. CASE RxDnsAnswer
  <2>1. Same(fetch, fetch') /\ pc' = pc /\ ip' = ip
    BY <1>7, <1>a DEF RxDnsAnswer, FetchType, Same
  <2> QED
    BY <1>b, <1>c, <2>1 DEF Same, Live
<1>8. CASE RxRst
  <2>1. Live(fetch') /\ fetch'.fetch_err = "TCP RST" /\ pc' = pc /\ ip' = ip
    BY <1>8, <1>a, SetErrLive DEF RxRst
  <2> QED
    BY <1>b, <1>c, <2>1
<1>9. ASSUME NEW tx \in {"sent", "dropped", "toolong"}, RxSynAck(tx)
      PROVE  TlsInv'
  <2>1. pc' = pc /\ ip' = ip
    BY <1>9 DEF RxSynAck
  <2>2. Same(fetch, fetch')
    BY <1>9, <1>a, <1>c, <2>1 DEF RxSynAck, FetchType, Same
  <2> QED
    BY <1>b, <1>c, <2>1, <2>2 DEF Same, Live
<1>10. ASSUME NEW header \in Bodies, NEW outcome \in {"more", "finish", "error"},
              NEW fin \in BOOLEAN, NEW decoded \in BOOLEAN,
              RxPayload(header, outcome, fin, decoded)
       PROVE  TlsInv'
  <2>1. pc' = pc /\ ip' = ip
    BY <1>10 DEF RxPayload
  <2> QED
    BY <1>10, <1>b, <1>c, <2>1, PayloadLive
<1>11. ASSUME NEW decoded \in BOOLEAN, RxFin(decoded)
       PROVE  TlsInv'
  <2>1. pc' = pc /\ ip' = ip
    BY <1>11 DEF RxFin
  <2>2. Same(fetch, fetch')
    BY <1>11, <1>a, <1>c, <2>1 DEF RxFin, FetchType, Same
  <2> QED
    BY <1>b, <1>c, <2>1, <2>2 DEF Same, Live
<1>12. CASE DriveTcp
  <2> DEFINE d == DhcpTimers(ip)
  <2>1. d \in IpType
    BY <1>a, DhcpTimersType
  <2>2. Same(fetch, fetch') /\ fetch.fetch_armed /\ ~fetch.fetch_done
    BY <1>12, TcpLive
  <2>3. HasAddress(d) /\ pc = "rx" /\ ip'.dhcp_phase = d.dhcp_phase
    BY <1>12, <2>1 DEF DriveTcp, DrivePhase, IpType
  <2>4. DhcpActive(ip) => ip.addrs = "zero"
    BY DEF IpInv, DhcpHoldsStack
  <2>5. (d.dhcp_phase = ip.dhcp_phase /\ d.addrs = ip.addrs) \/ d.dhcp_phase = "Idle"
    BY <1>a DEF DhcpTimers, IpType
  <2>6. ~DhcpActive(ip')
    BY <2>3, <2>4, <2>5 DEF HasAddress, DhcpActive
  <2> QED
    BY <2>2, <2>6 DEF TlsInv, Same, Live, DhcpActive
<1>13. ASSUME NEW header \in Bodies, NEW outcome \in {"more", "finish", "error"},
              PumpRead(header, outcome)
       PROVE  TlsInv'
  <2>1. pc = "pump" /\ pc' = pc /\ fetch' = Ingest(fetch, header, outcome)
    BY <1>13 DEF PumpRead
  <2>2. Live(fetch')
    BY <1>a, <1>c, <2>1, IngestLive
  <2> QED
    BY <1>b, <2>1, <2>2
<1>14. CASE UNCHANGED vars
  BY <1>14 DEF vars, TlsInv, DhcpActive
<1> QED
  BY <1>1, <1>2, <1>3, <1>4, <1>5, <1>6, <1>7, <1>8, <1>9, <1>10, <1>11, <1>12, <1>13, <1>14
  DEF Next, Network, Loop

(* The status the browser is shown.                                        *)
LEMMA StatusIs ==
  ASSUME FetchStagesOrdered, TypeOK PROVE Status = Outcome(fetch)
<1>1. fetch.fetch_armed \in BOOLEAN /\ fetch.fetch_done \in BOOLEAN /\ ~(fetch.fetch_armed /\ fetch.fetch_done)
  BY DEF TypeOK, FetchType, FetchStagesOrdered, StagesOrdered
<1> QED
  BY <1>1 DEF Status, Outcome

(* A step of the attempt under way leaves its status or settles it.        *)
LEMMA Settled ==
  ASSUME Status = Outcome(fetch), Status' = Outcome(fetch'), budget'.fetches = budget.fetches,
         fetch'.fetch_armed \in BOOLEAN, fetch'.fetch_done \in BOOLEAN,
         Same(fetch, fetch') \/ (fetch.fetch_armed /\ Live(fetch'))
  PROVE  [Lifecycle!Next]_<<Attempt, Status>>
<1>1. Attempt' = Attempt
  BY DEF Attempt
<1>2. CASE Same(fetch, fetch')
  BY <1>1, <1>2 DEF Same, Outcome
<1>3. CASE fetch.fetch_armed /\ Live(fetch')
  <2>1. Status = "loading" /\ Status' \in {"loading", "shown", "failed"}
    BY <1>3 DEF Live, Outcome
  <2> QED
    BY <1>1, <2>1 DEF Lifecycle!Next, Lifecycle!Finish
<1> QED
  BY <1>2, <1>3

(* Every step is one of the abstract fetch, but for the two exceptions.    *)
LEMMA LifeStep ==
  ASSUME TypeOK, FetchStagesOrdered, TlsInv, Next, TypeOK', FetchStagesOrdered'
  PROVE  [Lifecycle!Next \/ LateTlsRead \/ LeaseTaken]_<<Attempt, Status>>
<1> DEFINE Ok == [Lifecycle!Next \/ LateTlsRead \/ LeaseTaken]_<<Attempt, Status>>
<1>a. fetch \in FetchType /\ ip \in IpType /\ ip.tick \in Ticks /\ budget \in [fetches : Nat, reconfigs : Nat, segments : Nat]
  BY DEF TypeOK, IpType
<1>b. Status = Outcome(fetch)
  BY StatusIs
<1>c. Status' = Outcome(fetch') /\ fetch'.fetch_armed \in BOOLEAN /\ fetch'.fetch_done \in BOOLEAN
  <2>1. fetch'.fetch_armed \in BOOLEAN /\ fetch'.fetch_done \in BOOLEAN /\ ~(fetch'.fetch_armed /\ fetch'.fetch_done)
    BY DEF TypeOK, FetchType, FetchStagesOrdered, StagesOrdered
  <2> QED
    BY <2>1 DEF Status, Outcome
<1>d. ASSUME budget'.fetches = budget.fetches, Same(fetch, fetch') \/ (fetch.fetch_armed /\ Live(fetch'))
      PROVE  Ok
  BY <1>b, <1>c, <1>d, Settled
<1>e. fetch.fetch_armed => Live(fetch)
  BY <1>a DEF FetchStagesOrdered, StagesOrdered, Live, FetchType
<1>1. CASE User
  <2> DEFINE c == ClearFetchInner(fetch, ip.tick)
  <2>0. c \in FetchType
    BY <1>a, ClearFetchInnerType DEF FetchType
  <2>1. ASSUME budget'.fetches = budget.fetches - 1, Outcome(fetch') \in {"idle", "loading", "failed"}
        PROVE  Ok
    <3>1. Attempt' = Attempt + 1
      BY <1>a, <2>1, ConstantsAssumption DEF Attempt
    <3> QED
      BY <1>c, <2>1, <3>1 DEF Lifecycle!Next, Lifecycle!Open, Lifecycle!Reject, Lifecycle!Blank
  <2>2. CASE StartFetchBadUrl
    <3>1. Outcome(fetch') = "failed"
      <4>1. fetch' = SetErr(c, "BAD URL")
        BY <2>2 DEF StartFetchBadUrl
      <4> HIDE DEF c
      <4> QED
        BY <2>0, <4>1, SetErrLive DEF Outcome
    <3>2. budget'.fetches = budget.fetches - 1
      BY <1>a, <2>2 DEF StartFetchBadUrl
    <3> QED
      BY <2>1, <3>1, <3>2
  <2>3. ASSUME NEW scheme \in Schemes, NEW named \in BOOLEAN, StartFetch(scheme, named)
        PROVE  Ok
    <3>1. fetch'.fetch_armed = TRUE
      BY <2>3 DEF StartFetch, ClearFetchInner, BumpGen
    <3>2. budget'.fetches = budget.fetches - 1
      BY <1>a, <2>3 DEF StartFetch
    <3> QED
      BY <2>1, <3>1, <3>2 DEF Outcome
  <2>4. CASE ReloadBlank
    <3>1. Outcome(fetch') = "idle"
      BY <2>4 DEF ReloadBlank, ClearFetchInner, Outcome
    <3>2. budget'.fetches = budget.fetches - 1
      BY <1>a, <2>4 DEF ReloadBlank
    <3> QED
      BY <2>1, <3>1, <3>2
  <2>5. ASSUME NEW s \in Settings, EditIpSettings(s)
        PROVE  Ok
    <3>1. budget'.fetches = budget.fetches /\ fetch' = fetch
      BY <1>a, <2>5 DEF EditIpSettings
    <3> QED
      BY <1>d, <3>1 DEF Same
  <2> QED
    BY <1>1, <2>2, <2>3, <2>4, <2>5 DEF User
<1>2. CASE DriveBegin
  <2>1. budget' = budget /\ (fetch' = fetch \/ fetch' = ClearFetchInner(fetch, ip.tick))
    BY <1>2 DEF DriveBegin
  <2>2. CASE fetch' = fetch
    BY <1>d, <2>1, <2>2 DEF Same
  <2>3. CASE fetch' = ClearFetchInner(fetch, ip.tick)
    <3>1. Outcome(fetch') = "idle" /\ Attempt' = Attempt
      BY <2>1, <2>3 DEF ClearFetchInner, Outcome, Attempt
    <3> QED
      BY <1>c, <3>1 DEF Lifecycle!Next, Lifecycle!Cancel
  <2> QED
    BY <2>1, <2>2, <2>3
<1>3. CASE RxArpReply \/ RxDhcpOffer \/ DriveNoAddress \/ DriveArp \/ DriveNoFetch
  <2>1. budget' = budget /\ fetch' = fetch
    BY <1>3 DEF RxArpReply, RxDhcpOffer, DriveNoAddress, DriveArp, DriveNoFetch, DrivePhase
  <2> QED
    BY <1>d, <2>1 DEF Same
<1>4. ASSUME NEW lease \in Leases, RxDhcpAck(lease)
      PROVE  Ok
  <2>1. LeaseTaken
    BY <1>4, <1>a DEF RxDhcpAck, LeaseTaken, IpType
  <2> QED
    BY <2>1
<1>5. CASE RxDnsAnswer \/ HandshakeDone
  <2>1. budget' = budget /\ Same(fetch, fetch')
    BY <1>5, <1>a DEF RxDnsAnswer, HandshakeDone, FetchType, Same
  <2> QED
    BY <1>d, <2>1
<1>6. CASE RxRst
  <2>1. budget' = budget /\ fetch.fetch_armed /\ Live(fetch')
    BY <1>6, <1>a, SetErrLive DEF RxRst, TcpAccepts
  <2> QED
    BY <1>d, <2>1
<1>7. ASSUME NEW tx \in {"sent", "dropped", "toolong"}, RxSynAck(tx)
      PROVE  Ok
  <2>0. budget' = budget /\ fetch.fetch_armed
    BY <1>7 DEF RxSynAck, TcpAccepts
  <2>1. CASE ~fetch.https_mode /\ tx = "toolong"
    <3>1. Live(fetch')
      BY <2>1, <1>7, <1>a, SetErrLive DEF RxSynAck
    <3> QED
      BY <1>d, <2>0, <3>1
  <2>2. CASE fetch.https_mode \/ tx # "toolong"
    <3>1. Same(fetch, fetch')
      BY <2>2, <1>7, <1>a DEF RxSynAck, FetchType, Same
    <3> QED
      BY <1>d, <2>0, <3>1
  <2> QED
    BY <2>1, <2>2
<1>8. ASSUME NEW header \in Bodies, NEW outcome \in {"more", "finish", "error"},
             NEW fin \in BOOLEAN, NEW decoded \in BOOLEAN,
             RxPayload(header, outcome, fin, decoded)
      PROVE  Ok
  <2>1. budget'.fetches = budget.fetches /\ fetch.fetch_armed
    BY <1>8, <1>a DEF RxPayload, TcpAccepts
  <2>2. Live(fetch')
    BY <1>8, <1>e, <2>1, PayloadLive
  <2> QED
    BY <1>d, <2>1, <2>2
<1>9. ASSUME NEW decoded \in BOOLEAN, RxFin(decoded)
      PROVE  Ok
  <2>1. budget' = budget /\ fetch.fetch_armed
    BY <1>9 DEF RxFin, TcpAccepts
  <2>2. CASE fetch.https_mode
    <3>1. Same(fetch, fetch')
      BY <2>2, <1>9, <1>a DEF RxFin, FetchType, Same
    <3> QED
      BY <1>d, <2>1, <3>1
  <2>3. CASE ~fetch.https_mode
    <3>1. Live(fetch')
      BY <2>1, <2>3, <1>9, <1>a, <1>e, FinishOnEofLive DEF RxFin
    <3> QED
      BY <1>d, <2>1, <3>1
  <2> QED
    BY <2>2, <2>3
<1>10. CASE DriveDns
  <2>1. budget' = budget
    BY <1>10 DEF DriveDns, DrivePhase
  <2> QED
    BY <1>10, <1>d, <2>1, DnsLive
<1>11. CASE DriveTcp
  <2>1. budget' = budget
    BY <1>11 DEF DriveTcp, DrivePhase
  <2> QED
    BY <1>11, <1>d, <2>1, TcpLive
<1>12. ASSUME NEW msg \in HandshakeErrs, HandshakeFailed(msg)
       PROVE  Ok
  <2>1. budget' = budget /\ pc = "tls" /\ fetch' = SetErr(fetch, msg)
    BY <1>12 DEF HandshakeFailed
  <2>2. Live(fetch') /\ Outcome(fetch') = "failed"
    <3>1. msg # "none"
      BY DEF HandshakeErrs
    <3> QED
      BY <1>a, <2>1, <3>1, SetErrLive DEF Outcome
  <2>3. CASE fetch.fetch_armed
    BY <1>d, <2>1, <2>2, <2>3
  <2>4. CASE ~fetch.fetch_armed
    <3>1. Outcome(fetch) = "failed"
      BY <1>a, <2>1, <2>4 DEF TlsInv, Live, Outcome, FetchType
    <3> QED
      BY <1>b, <1>c, <2>1, <2>2, <3>1 DEF Attempt
  <2> QED
    BY <2>3, <2>4
<1>13. CASE PumpReadErr \/ (\E decoded \in BOOLEAN : PumpReadEnd(decoded))
            \/ (\E header \in Bodies, outcome \in {"more", "finish", "error"} : PumpRead(header, outcome))
  <2>1. budget' = budget /\ pc = "pump"
    BY <1>13 DEF PumpReadErr, PumpReadEnd, PumpRead
  <2>2. CASE fetch.fetch_done
    BY <2>1, <2>2 DEF LateTlsRead
  <2>3. CASE ~fetch.fetch_done
    <3>1. fetch.fetch_armed /\ Live(fetch)
      BY <1>a, <2>1, <2>3 DEF TlsInv, Live, FetchType
    <3>2. CASE PumpReadErr
      BY <1>a, <1>d, <2>1, <3>1, <3>2, SetErrLive DEF PumpReadErr
    <3>3. ASSUME NEW decoded \in BOOLEAN, PumpReadEnd(decoded)
          PROVE  Ok
      <4>1. Live(fetch')
        BY <1>a, <3>1, <3>3, FinishOnEofLive DEF PumpReadEnd
      <4> QED
        BY <1>d, <2>1, <3>1, <4>1
    <3>4. ASSUME NEW header \in Bodies, NEW outcome \in {"more", "finish", "error"}, PumpRead(header, outcome)
          PROVE  Ok
      <4>1. Live(fetch')
        BY <1>a, <3>1, <3>4, IngestLive DEF PumpRead
      <4> QED
        BY <1>d, <2>1, <3>1, <4>1
    <3> QED
      BY <1>13, <3>2, <3>3, <3>4
  <2> QED
    BY <2>2, <2>3
<1> QED
  BY <1>1, <1>2, <1>3, <1>4, <1>5, <1>6, <1>7, <1>8, <1>9, <1>10, <1>11, <1>12, <1>13
  DEF Next, Network, Loop

(* The stack implements the life of a fetch that the browser is promised,  *)
(* but for a TLS read after the page is complete and the lease that clears *)
(* fetch_err_len: an attempt ends once, in a page or in an error, and the  *)
(* outcome stays (start_fetch, set_err, finish_fetch, reset_demo).         *)
THEOREM FetchRefines == Spec => ImplementsLifecycle
<1>1. Init => Lifecycle!Init
  <2> SUFFICES ASSUME Init PROVE Lifecycle!Init
    OBVIOUS
  <2>1. budget.fetches = MaxFetches /\ ~fetch.fetch_armed /\ ~fetch.fetch_done
    BY DEF Init, ClearFetchInner
  <2> QED
    BY <2>1, ConstantsAssumption DEF Lifecycle!Init, Attempt, Status
<1>2. Init => TlsInv
  BY DEF Init, TlsInv
<1>3. TypeOK /\ FetchStagesOrdered /\ TlsInv /\ [Next]_vars /\ TypeOK' /\ FetchStagesOrdered'
      => [Lifecycle!Next \/ LateTlsRead \/ LeaseTaken]_<<Attempt, Status>>
  <2>1. UNCHANGED vars => UNCHANGED <<Attempt, Status>>
    BY DEF vars, Attempt, Status
  <2> QED
    BY <2>1, LifeStep
<1> QED
  BY <1>1, <1>2, <1>3, TlsStep, TypeCorrect, StagesInvariant, IpInvariant, PTL DEF Spec, ImplementsLifecycle
=============================================================================
