------------------------------ MODULE NetStack ------------------------------
(***************************************************************************)
(* The polled network stack of the kernel: IPv4 configuration and DHCP,    *)
(* gateway ARP, and the life of one page fetch (DNS, TCP connect, HTTP or  *)
(* HTTPS transfer, time-outs, errors).  Source: kernel/src/net.rs.         *)
(*                                                                         *)
(* The Rust struct is kept in two records, `ip' (addresses, DHCP, gateway, *)
(* the clock) and `fetch' (what clear_fetch_inner resets); a method that   *)
(* updates the struct is an operator from record to record under the       *)
(* method's name.  One call of `drive' is cut into steps by `pc':          *)
(*   "main"  outside drive: the user may start a fetch or edit settings    *)
(*   "rx"    draining received frames, before the timers                   *)
(*   "tls"   inside run_https_handshake_and_get, which polls frames itself *)
(*   "pump"  inside tls_pump_application, which polls frames itself        *)
(* The network is the environment: any frame the stack would not discard   *)
(* may arrive at any poll, late, twice or never.                           *)
(***************************************************************************)
EXTENDS Integers

CONSTANTS
  TickMod,        \* `tick' counts modulo TickMod (2^32 in the code)
  GenMod,         \* `page_gen' counts modulo GenMod (2^32 in the code)
  DhcpRetry,      \* ticks between DHCP transmissions (200)
  DhcpTimeout,    \* ticks before the SLIRP fallback (12000)
  DnsTimeout,     \* drives spent waiting for DNS (64 * 48)
  SynEvery,       \* SYN retransmission period (96)
  SynRetries,     \* SYNs per fetch (12)
  ConnectTicks,   \* TCP_CONNECT_TICKS (16000)
  HttpTimeout,    \* ticks without payload (12000)
  Schemes,        \* URL schemes the user enters
  IpModes,        \* IP modes the user selects
  StaticAddrs,    \* address triples the user may configure; "zero" has our = 0.0.0.0
  StaticTag,      \* the 32-bit fingerprint of a static triple
  Leases,         \* address triples a DHCP server may acknowledge
  MaxFetches,     \* bound: fetches the user starts
  MaxReconfigs,   \* bound: edits of the IP settings
  MaxSegments     \* bound: payload segments per fetch (a response is finite)

NoTag == -1       \* u32::MAX, the tag before the first drive

ASSUME ConstantsAssumption ==
  /\ TickMod \in Nat \ {0} /\ SynEvery \in Nat \ {0}
  /\ GenMod \in Nat /\ GenMod > 2
  /\ DhcpRetry \in Nat /\ DhcpTimeout \in Nat /\ DnsTimeout \in Nat
  /\ SynRetries \in Nat /\ ConnectTicks \in Nat /\ HttpTimeout \in Nat
  /\ Schemes \subseteq {"http", "https"}
  /\ IpModes \subseteq {"Slirp", "Dhcp", "Static"}
  /\ MaxFetches \in Nat /\ MaxReconfigs \in Nat /\ MaxSegments \in Nat

(* 96 bits are folded into 32: fingerprints may be the same.               *)
ASSUME TagAssumption == StaticTag \in [StaticAddrs -> Int]

VARIABLES
  ip,         \* struct NetStack: addresses, DHCP client, gateway, clock, phase
  fetch,      \* struct NetStack: the current fetch
  settings,   \* the IP part of DeviceSettings
  pc,         \* where the main loop is with respect to drive
  budget      \* what the bounds leave to the user and the network

vars == <<ip, fetch, settings, pc, budget>>

----------------------------------------------------------------------------
Addrs      == {"zero", "slirp"} \cup StaticAddrs \cup Leases
DhcpPhases == {"Idle", "WaitOffer", "WaitAck", "Bound"}
NetPhases  == {"Off", "Arp", "Dns", "Tcp", "Http", "Done"}
HandshakeErrs == {"TLS BAD HOST", "TLS VERIFY FAIL", "TLS WRITE FAIL", "GET TOO LONG"}
Errs == {"none", "BAD URL", "DNS TIMEOUT", "TCP NO CONNECT", "TCP RST", "HTTP TIMEOUT",
         "HTTP CHUNK EOF", "HTTP BODY", "TLS RX OVFL", "TLS READ ERR"} \cup HandshakeErrs
Bodies == {"none", "plain", "chunked"}   \* header_found and http_chunked
Ticks  == 0 .. TickMod - 1
Gens   == 0 .. GenMod - 1

Settings == [ip_config : IpModes, static : StaticAddrs]

IpType ==
  [ addrs : Addrs, ip_settings_tag : Int,
    dhcp_phase : DhcpPhases, dhcp_phase_start_tick : Ticks, dhcp_last_tx_tick : Ticks,
    gw_known : BOOLEAN, gw_mac : Addrs \cup {"none"}, tick : Ticks, phase : NetPhases ]

FetchType ==
  [ fetch_armed : BOOLEAN, fetch_done : BOOLEAN, fetch_err : Errs, page_gen : Gens,
    https_mode : BOOLEAN, needs_dns : BOOLEAN, dns_done : BOOLEAN, dns_xmit_phase : Nat,
    syn_sent : BOOLEAN, syn_retries : Nat, get_sent : BOOLEAN,
    tcp_connect_start_tick : Ticks, fetch_progress_tick : Ticks,
    https_handshake_queued : BOOLEAN, tls_handshake_done : BOOLEAN,
    tls_tcp_eof : BOOLEAN, body : Bodies ]

(* Definitions named Mut_... are faulty variants of the definition that    *)
(* follows them: each is the plausible slip that a property must expose.   *)

(* The static octets left out of the fingerprint.                          *)
Mut_TagOfModeOnly(s) ==
  CASE s.ip_config = "Slirp" -> 0 [] s.ip_config = "Dhcp" -> 1 [] s.ip_config = "Static" -> 2

(* `mode' for SLIRP and DHCP, the fold of the octets for a static triple.  *)
IpSettingsTag(s) ==
  CASE s.ip_config = "Slirp"  -> 0
    [] s.ip_config = "Dhcp"   -> 1
    [] s.ip_config = "Static" -> StaticTag[s.static]

Since(t) == (ip.tick - t) % TickMod          \* tick.wrapping_sub(t)

DhcpActive(i)  == i.dhcp_phase \in {"WaitOffer", "WaitAck"}
WaitsForDns(f) == f.fetch_armed /\ f.needs_dns /\ ~f.dns_done
WaitsForTcp(f) == f.fetch_armed /\ f.dns_done /\ ~f.fetch_done

Mut_BumpGenNoWrap(f) == [f EXCEPT !.page_gen = @ + 1]
BumpGen(f) == [f EXCEPT !.page_gen = (@ + 1) % GenMod]

Mut_SetErrQuiet(f, msg) ==
  [f EXCEPT !.fetch_err = msg, !.fetch_armed = FALSE, !.fetch_done = TRUE]
SetErr(f, msg) ==
  BumpGen([f EXCEPT !.fetch_err = msg, !.fetch_armed = FALSE, !.fetch_done = TRUE])

Mut_FinishKeepsArmed(f, decoded) ==
  IF f.fetch_done THEN f
  ELSE IF ~decoded THEN SetErr(f, "HTTP BODY")
  ELSE BumpGen([f EXCEPT !.fetch_done = TRUE])

(* `decoded' is false when a Content-Encoding layer does not decompress.   *)
FinishFetch(f, decoded) ==
  IF f.fetch_done THEN f
  ELSE IF ~decoded THEN SetErr(f, "HTTP BODY")
  ELSE BumpGen([f EXCEPT !.fetch_done = TRUE, !.fetch_armed = FALSE])

FinishOnEof(f, decoded) ==
  IF f.body = "chunked" /\ ~f.fetch_done
  THEN SetErr(f, "HTTP CHUNK EOF") ELSE FinishFetch(f, decoded)

(* Everything but page_gen; tls_live follows tls_handshake_done.           *)
ClearFetchInner(f, now) ==
  [ fetch_armed |-> FALSE, fetch_done |-> FALSE, fetch_err |-> "none",
    page_gen |-> f.page_gen, https_mode |-> FALSE, needs_dns |-> FALSE,
    dns_done |-> FALSE, dns_xmit_phase |-> 0, syn_sent |-> FALSE, syn_retries |-> 0,
    get_sent |-> FALSE, tcp_connect_start_tick |-> 0, fetch_progress_tick |-> now,
    https_handshake_queued |-> FALSE, tls_handshake_done |-> FALSE,
    tls_tcp_eof |-> FALSE, body |-> "none" ]

(* The new settings are not the ones last applied.                         *)
IpSettingsChanged == IpSettingsTag(settings) # ip.ip_settings_tag

Mut_SyncKeepsGateway(i, s) ==
  [i EXCEPT !.ip_settings_tag = IpSettingsTag(s),
            !.dhcp_phase_start_tick = 0, !.dhcp_last_tx_tick = 0,
            !.addrs = CASE s.ip_config = "Slirp"  -> "slirp"
                        [] s.ip_config = "Dhcp"   -> "zero"
                        [] s.ip_config = "Static" -> s.static,
            !.dhcp_phase = IF s.ip_config = "Dhcp" THEN "WaitOffer" ELSE "Idle",
            !.phase = "Off"]

Mut_SyncKeepsPhase(i, s) ==
  [i EXCEPT !.ip_settings_tag = IpSettingsTag(s), !.gw_known = FALSE,
            !.dhcp_phase_start_tick = 0, !.dhcp_last_tx_tick = 0,
            !.addrs = CASE s.ip_config = "Slirp"  -> "slirp"
                        [] s.ip_config = "Dhcp"   -> "zero"
                        [] s.ip_config = "Static" -> s.static,
            !.dhcp_phase = IF s.ip_config = "Dhcp" THEN "WaitOffer" ELSE "Idle"]

(* sync_ip_from_settings; the phase is reset by reset_demo.                *)
SyncIpFromSettings(i, s) ==
  [i EXCEPT !.ip_settings_tag = IpSettingsTag(s), !.gw_known = FALSE,
            !.dhcp_phase_start_tick = 0, !.dhcp_last_tx_tick = 0,
            !.addrs = CASE s.ip_config = "Slirp"  -> "slirp"
                        [] s.ip_config = "Dhcp"   -> "zero"
                        [] s.ip_config = "Static" -> s.static,
            !.dhcp_phase = IF s.ip_config = "Dhcp" THEN "WaitOffer" ELSE "Idle",
            !.phase = "Off"]

----------------------------------------------------------------------------
(* What the user does between two calls of drive.                          *)

Init ==
  /\ ip = [ addrs |-> "slirp", ip_settings_tag |-> NoTag,
            dhcp_phase |-> "Idle", dhcp_phase_start_tick |-> 0, dhcp_last_tx_tick |-> 0,
            gw_known |-> FALSE, gw_mac |-> "none", tick |-> 0, phase |-> "Off" ]
  /\ fetch = ClearFetchInner([page_gen |-> 0], 0)
  /\ settings \in Settings
  /\ pc = "main"
  /\ budget = [fetches |-> MaxFetches, reconfigs |-> MaxReconfigs, segments |-> 0]

(* start_fetch: a URL that does not parse, or a scheme with a host name    *)
(* (needs DNS) or an address literal.                                      *)
StartFetchBadUrl ==
  /\ pc = "main" /\ budget.fetches > 0
  /\ fetch' = SetErr(ClearFetchInner(fetch, ip.tick), "BAD URL")
  /\ budget' = [budget EXCEPT !.fetches = @ - 1]
  /\ UNCHANGED <<ip, settings, pc>>

StartFetch(scheme, named) ==
  /\ pc = "main" /\ budget.fetches > 0
  /\ fetch' = BumpGen([ClearFetchInner(fetch, ip.tick) EXCEPT
                         !.https_mode = (scheme = "https"), !.needs_dns = named,
                         !.dns_done = ~named, !.tcp_connect_start_tick = ip.tick,
                         !.fetch_armed = TRUE])
  /\ budget' = [budget EXCEPT !.fetches = @ - 1, !.segments = MaxSegments]
  /\ UNCHANGED <<ip, settings, pc>>

(* Reload with an empty URL bar: reset_demo.                               *)
ReloadBlank ==
  /\ pc = "main" /\ budget.fetches > 0
  /\ fetch' = ClearFetchInner(fetch, ip.tick)
  /\ ip' = [ip EXCEPT !.phase = "Off"]
  /\ budget' = [budget EXCEPT !.fetches = @ - 1]
  /\ UNCHANGED <<settings, pc>>

EditIpSettings(s) ==
  /\ pc = "main" /\ budget.reconfigs > 0 /\ s # settings
  /\ settings' = s
  /\ budget' = [budget EXCEPT !.reconfigs = @ - 1]
  /\ UNCHANGED <<ip, fetch, pc>>

----------------------------------------------------------------------------
(* drive, first part: settings, the tick, then the RX drain.               *)

DriveBegin ==
  /\ pc = "main"
  /\ LET i == IF IpSettingsChanged THEN SyncIpFromSettings(ip, settings) ELSE ip
     IN  ip' = [i EXCEPT !.tick = (ip.tick + 1) % TickMod]
  /\ fetch' = IF IpSettingsChanged THEN ClearFetchInner(fetch, ip.tick) ELSE fetch
  /\ pc' = "rx"
  /\ UNCHANGED <<settings, budget>>

Polling == pc \in {"rx", "tls", "pump"}

(* handle_arp: a reply from the current gateway to the current address.    *)
RxArpReply ==
  /\ Polling
  /\ ip' = [ip EXCEPT !.gw_known = TRUE, !.gw_mac = ip.addrs]
  /\ UNCHANGED <<fetch, settings, pc, budget>>

(* handle_dhcp_reply: OFFER, then ACK; the ACK is not matched with the OFFER. *)
RxDhcpOffer ==
  /\ Polling /\ ip.dhcp_phase = "WaitOffer"
  /\ ip' = [ip EXCEPT !.dhcp_phase = "WaitAck", !.dhcp_phase_start_tick = ip.tick,
                      !.dhcp_last_tx_tick = ip.tick]
  /\ UNCHANGED <<fetch, settings, pc, budget>>

RxDhcpAck(lease) ==
  /\ Polling /\ ip.dhcp_phase = "WaitAck"
  /\ ip' = [ip EXCEPT !.addrs = lease, !.dhcp_phase = "Bound", !.gw_known = FALSE]
  /\ fetch' = [fetch EXCEPT !.fetch_err = "none"]
  /\ UNCHANGED <<settings, pc, budget>>

(* handle_udp_rx: an A record for the outstanding query.                   *)
RxDnsAnswer ==
  /\ Polling /\ WaitsForDns(fetch)
  /\ fetch' = [fetch EXCEPT !.dns_done = TRUE, !.needs_dns = FALSE, !.dns_xmit_phase = 0,
                            !.syn_sent = FALSE, !.syn_retries = 0]
  /\ UNCHANGED <<ip, settings, pc, budget>>

Mut_TcpAcceptsSettled == Polling /\ fetch.dns_done

(* handle_tcp_rx: only the ports, the peer address, fetch_armed and        *)
(* dns_done are looked at before the flags.                                *)
TcpAccepts == Polling /\ fetch.fetch_armed /\ fetch.dns_done

RxRst ==
  /\ TcpAccepts
  /\ fetch' = SetErr(fetch, "TCP RST")
  /\ UNCHANGED <<ip, settings, pc, budget>>

(* SYN-ACK before the GET: HTTPS queues the handshake; HTTP sends the GET, *)
(* and get_sent records whether the NIC took it.                           *)
RxSynAck(tx) ==
  /\ TcpAccepts /\ ~fetch.get_sent
  /\ fetch' =
       IF fetch.https_mode
       THEN [fetch EXCEPT !.https_handshake_queued = @ \/ ~fetch.tls_handshake_done]
       ELSE CASE tx = "sent"    -> [fetch EXCEPT !.get_sent = TRUE]
              [] tx = "dropped" -> fetch
              [] tx = "toolong" -> SetErr(fetch, "GET TOO LONG")
  /\ UNCHANGED <<ip, settings, pc, budget>>

(* ingest_tcp_payload: header detection, then `more', `finish' or `error'; *)
(* the segment that completes the header moves page_gen once more.         *)
Ingest(f, header, outcome) ==
  LET seen == f.body = "none" /\ header # "none"
      f1   == IF seen THEN [f EXCEPT !.body = header] ELSE f
      f2   == CASE outcome = "more"   -> f1
                [] outcome = "finish" -> FinishFetch(f1, TRUE)
                [] outcome = "error"  -> SetErr(f1, "HTTP BODY")
  IN  IF seen THEN BumpGen(f2) ELSE f2

CanFinish(f, header, outcome) == outcome = "finish" => f.body # "none" \/ header # "none"

(* A plain-HTTP segment is ingested at once; a TLS segment is queued for   *)
(* the bridge ("error": the 48 KiB queue is full).                         *)
RxPayload(header, outcome, fin, decoded) ==
  /\ TcpAccepts /\ budget.segments > 0
  /\ CanFinish(fetch, header, outcome)
  /\ LET f0 == [fetch EXCEPT !.fetch_progress_tick = ip.tick]
         f1 == Ingest(f0, header, outcome)
     IN  fetch' = IF fetch.https_mode
                  THEN IF outcome = "error" THEN SetErr(f0, "TLS RX OVFL")
                       ELSE [f0 EXCEPT !.tls_tcp_eof = @ \/ fin]
                  ELSE IF fin THEN FinishOnEof(f1, decoded) ELSE f1
  /\ budget' = [budget EXCEPT !.segments = @ - 1]
  /\ UNCHANGED <<ip, settings, pc>>

RxFin(decoded) ==
  /\ TcpAccepts /\ fetch.get_sent
  /\ fetch' = IF fetch.https_mode THEN [fetch EXCEPT !.tls_tcp_eof = TRUE]
              ELSE FinishOnEof(fetch, decoded)
  /\ UNCHANGED <<ip, settings, pc, budget>>

----------------------------------------------------------------------------
(* drive, second part: nothing left to receive, run the timers.            *)

Mut_TimersNoFallback(i) ==
  IF settings.ip_config # "Dhcp" \/ ~DhcpActive(i) THEN i
  ELSE IF i.dhcp_phase_start_tick = 0
       THEN [i EXCEPT !.dhcp_phase_start_tick = i.tick, !.dhcp_last_tx_tick = i.tick]
       ELSE i

DhcpTimers(i) ==
  IF settings.ip_config # "Dhcp" \/ ~DhcpActive(i) THEN i
  ELSE LET fresh == i.dhcp_phase_start_tick = 0
           start == IF fresh THEN i.tick ELSE i.dhcp_phase_start_tick
           last  == IF fresh THEN 0 ELSE i.dhcp_last_tx_tick
           due   == last = 0 \/ Since(last) >= DhcpRetry
       IN  IF Since(start) > DhcpTimeout
           THEN [i EXCEPT !.addrs = "slirp", !.dhcp_phase = "Idle", !.gw_known = FALSE,
                          !.dhcp_phase_start_tick = 0, !.dhcp_last_tx_tick = 0]
           ELSE [i EXCEPT !.dhcp_phase_start_tick = start,
                          !.dhcp_last_tx_tick = IF due THEN i.tick ELSE last]

(* A failed fetch is left out of the phase Done.                           *)
Mut_PhaseOfPageOnly(i, f) ==
  IF ~i.gw_known THEN "Arp"
  ELSE IF WaitsForDns(f) THEN "Dns"
  ELSE IF WaitsForTcp(f) THEN (IF f.get_sent THEN "Http" ELSE "Tcp")
  ELSE IF f.fetch_done /\ f.fetch_err = "none" THEN "Done"
  ELSE "Off"

PhaseOf(i, f) ==
  IF ~i.gw_known THEN "Arp"
  ELSE IF WaitsForDns(f) THEN "Dns"
  ELSE IF WaitsForTcp(f) THEN (IF f.get_sent THEN "Http" ELSE "Tcp")
  ELSE IF f.fetch_done THEN "Done"
  ELSE "Off"

(* Not waiting for a lease under the DHCP setting, and our # 0.0.0.0.      *)
HasAddress(i) == ~(settings.ip_config = "Dhcp" /\ DhcpActive(i)) /\ i.addrs # "zero"

(* No address yet: drive returns before the phase is recomputed.           *)
DriveNoAddress ==
  /\ pc = "rx" /\ ~HasAddress(DhcpTimers(ip))
  /\ ip' = DhcpTimers(ip)
  /\ pc' = "main"
  /\ UNCHANGED <<fetch, settings, budget>>

(* The part of drive all the later branches share: timers, address, phase. *)
DrivePhase ==
  /\ pc = "rx" /\ HasAddress(DhcpTimers(ip))
  /\ ip' = [DhcpTimers(ip) EXCEPT !.phase = PhaseOf(DhcpTimers(ip), fetch)]
  /\ UNCHANGED <<settings, budget>>

(* Gateway unknown: an ARP request every 72 ticks, without a time-out.     *)
DriveArp ==
  /\ DrivePhase /\ ip'.phase = "Arp"
  /\ pc' = "main"
  /\ UNCHANGED fetch

DnsStep(f) ==
  LET f1 == [f EXCEPT !.dns_xmit_phase = @ + 1]
  IN  IF f1.dns_xmit_phase > DnsTimeout THEN SetErr(f1, "DNS TIMEOUT") ELSE f1

DriveDns ==
  /\ DrivePhase /\ ip'.phase = "Dns"
  /\ fetch' = DnsStep(fetch)
  /\ pc' = "main"

DriveNoFetch ==
  /\ DrivePhase /\ ip'.phase \in {"Done", "Off"}
  /\ pc' = "main"
  /\ UNCHANGED fetch

ConnectExpired(f) ==
  /\ ~f.get_sent
  /\ f.syn_retries >= SynRetries \/ Since(f.tcp_connect_start_tick) > ConnectTicks

TrySyn(f) ==
  IF ~f.syn_sent \/ (f.syn_retries < SynRetries /\ ip.tick % SynEvery = 0 /\ ~f.get_sent)
  THEN [f EXCEPT !.syn_sent = TRUE, !.syn_retries = @ + 1] ELSE f

Mut_TransferNeverExpires(f) == FALSE
TransferExpired(f) == f.get_sent /\ Since(f.fetch_progress_tick) > HttpTimeout

TcpStep(f) ==
  IF ConnectExpired(f) THEN SetErr(f, "TCP NO CONNECT")
  ELSE IF TransferExpired(TrySyn(f)) THEN SetErr(TrySyn(f), "HTTP TIMEOUT")
  ELSE TrySyn(f)

StartsHandshake(f) ==
  ~f.fetch_done /\ f.https_mode /\ f.https_handshake_queued /\ ~f.tls_handshake_done
StartsPump(f) ==
  ~f.fetch_done /\ f.https_mode /\ f.tls_handshake_done /\ f.get_sent

DriveTcp ==
  /\ DrivePhase /\ ip'.phase \in {"Tcp", "Http"}
  /\ LET f == TcpStep(fetch)
     IN  /\ fetch' = IF StartsHandshake(f)
                     THEN [f EXCEPT !.https_handshake_queued = FALSE] ELSE f
         /\ pc' = IF StartsHandshake(f) THEN "tls" ELSE IF StartsPump(f) THEN "pump" ELSE "main"

(* run_https_handshake_and_get returns; the TLS library decides.           *)
HandshakeDone ==
  /\ pc = "tls"
  /\ fetch' = [fetch EXCEPT !.tls_handshake_done = TRUE, !.get_sent = TRUE]
  /\ pc' = "main"
  /\ UNCHANGED <<ip, settings, budget>>

HandshakeFailed(msg) ==
  /\ pc = "tls"
  /\ fetch' = SetErr(fetch, msg)
  /\ pc' = "main"
  /\ UNCHANGED <<ip, settings, budget>>

(* tls_pump_application: decrypted bytes are ingested until the read       *)
(* returns 0 or fails; the loop does not look at fetch_done, so bytes also *)
(* follow a completed page (no decoder error is left then) or an error.    *)
PumpRead(header, outcome) ==
  /\ pc = "pump"
  /\ CanFinish(fetch, header, outcome)
  /\ outcome = "error" => ~fetch.fetch_done \/ fetch.fetch_err # "none"
  /\ fetch' = Ingest(fetch, header, outcome)
  /\ UNCHANGED <<ip, settings, pc, budget>>

PumpReadErr ==
  /\ pc = "pump"
  /\ fetch' = SetErr(fetch, "TLS READ ERR")
  /\ pc' = "main"
  /\ UNCHANGED <<ip, settings, budget>>

PumpReadEnd(decoded) ==
  /\ pc = "pump"
  /\ fetch' = IF fetch.tls_tcp_eof /\ ~fetch.fetch_done THEN FinishOnEof(fetch, decoded)
              ELSE fetch
  /\ pc' = "main"
  /\ UNCHANGED <<ip, settings, budget>>

----------------------------------------------------------------------------
User ==
  \/ StartFetchBadUrl
  \/ \E scheme \in Schemes, named \in BOOLEAN : StartFetch(scheme, named)
  \/ ReloadBlank
  \/ \E s \in Settings : EditIpSettings(s)

Network ==
  \/ RxArpReply
  \/ RxDhcpOffer
  \/ \E lease \in Leases : RxDhcpAck(lease)
  \/ RxDnsAnswer
  \/ RxRst
  \/ \E tx \in {"sent", "dropped", "toolong"} : RxSynAck(tx)
  \/ \E header \in Bodies, outcome \in {"more", "finish", "error"}, fin, decoded \in BOOLEAN :
       RxPayload(header, outcome, fin, decoded)
  \/ \E decoded \in BOOLEAN : RxFin(decoded)

(* The steps the main loop itself takes: fair, because the kernel never    *)
(* leaves the loop, the NIC ring drained by one drive is finite and the    *)
(* TLS bridge gives up after a bounded number of polls.                    *)
Loop ==
  \/ DriveBegin
  \/ DriveNoAddress \/ DriveArp \/ DriveDns \/ DriveNoFetch \/ DriveTcp
  \/ HandshakeDone \/ (\E msg \in HandshakeErrs : HandshakeFailed(msg))
  \/ PumpReadErr \/ (\E decoded \in BOOLEAN : PumpReadEnd(decoded))

Next ==
  \/ User
  \/ Network
  \/ Loop
  \/ \E header \in Bodies, outcome \in {"more", "finish", "error"} : PumpRead(header, outcome)

Spec == Init /\ [][Next]_vars
FairSpec == Spec /\ WF_vars(Loop)

----------------------------------------------------------------------------
(* Every variable has its type.                                            *)
TypeOK ==
  /\ ip \in IpType
  /\ fetch \in FetchType
  /\ settings \in Settings
  /\ pc \in {"main", "rx", "tls", "pump"}
  /\ budget \in [fetches : Nat, reconfigs : Nat, segments : Nat]

(* Frames leave with the MAC of the gateway of the addresses in use: every *)
(* path that replaces `addrs' (settings, DHCP ACK, DHCP time-out) also     *)
(* forgets the resolved gateway.                                           *)
GatewayMacIsCurrent == ip.gw_known => ip.gw_mac = ip.addrs

(* While DHCP is negotiating, the stack holds no address, shows phase Off  *)
(* (drive returns before recomputing it) and the applied settings are the  *)
(* DHCP ones, so that the timers of drive are the ones that run.           *)
DhcpHoldsStack ==
  DhcpActive(ip) => /\ ip.addrs = "zero" /\ ip.phase = "Off"
                     /\ ip.ip_settings_tag = 1

(* No other settings have the fingerprint of s.                            *)
OwnTag(s) ==
  CASE s.ip_config = "Slirp"  -> \A a \in StaticAddrs : StaticTag[a] # 0
    [] s.ip_config = "Dhcp"   -> \A a \in StaticAddrs : StaticTag[a] # 1
    [] s.ip_config = "Static" ->
         /\ StaticTag[s.static] \notin {NoTag, 0, 1}
         /\ \A a \in StaticAddrs \ {s.static} : StaticTag[a] # StaticTag[s.static]

(* Inside a drive the addresses are those of the settings it was given: a  *)
(* static triple is used as entered, and an address from DHCP (or its      *)
(* SLIRP fallback) only under the DHCP setting.  Settings that share their *)
(* fingerprint with others (0.0.0.3 without gateway and DNS server has the *)
(* one of DHCP) may not be applied (sync_ip_from_settings), and are left   *)
(* out.                                                                    *)
AddressesFollowSettings ==
  Polling /\ OwnTag(settings) =>
    CASE settings.ip_config = "Slirp"  -> ip.addrs = "slirp"
      [] settings.ip_config = "Static" -> ip.addrs = settings.static
      [] settings.ip_config = "Dhcp"   -> ip.addrs \in {"zero", "slirp"} \cup Leases

(* A fetch is waiting or settled, never both; a fetch waiting for the name *)
(* has sent nothing over TCP; only an HTTPS fetch queues a handshake or    *)
(* has TLS up, and its GET is out exactly when TLS is up.                  *)
StagesOrdered(f) ==
  /\ ~(f.fetch_armed /\ f.fetch_done)
  /\ WaitsForDns(f) => ~f.get_sent /\ f.body = "none"
  /\ f.https_handshake_queued \/ f.tls_handshake_done => f.https_mode
  /\ f.https_mode => (f.get_sent <=> f.tls_handshake_done)

(* The stages of the fetch are ordered, and the two blocking TLS loops run *)
(* only for an HTTPS fetch whose server address is known.                  *)
FetchStagesOrdered ==
  /\ StagesOrdered(fetch)
  /\ pc \in {"tls", "pump"} => fetch.https_mode /\ fetch.dns_done

(* What the settings that were applied, and whose fingerprint was kept,    *)
(* imply about the addresses and the DHCP client.                          *)
SettingsApplied ==
  /\ Polling => ip.ip_settings_tag = IpSettingsTag(settings)
  /\ \/ ip.ip_settings_tag \in {NoTag, 0} /\ ip.addrs = "slirp" /\ ip.dhcp_phase = "Idle"
     \/ ip.ip_settings_tag = 1 /\ ip.addrs \in {"zero", "slirp"} \cup Leases
     \/ \E a \in StaticAddrs :
           ip.ip_settings_tag = StaticTag[a] /\ ip.addrs = a /\ ip.dhcp_phase = "Idle"

(* The inductive invariant of the IP half.                                 *)
IpInv == GatewayMacIsCurrent /\ DhcpHoldsStack /\ SettingsApplied

(* Whenever a fetch starts, is rejected or settles, page_gen moves, so the *)
(* main loop renders again even if the page length did not change.         *)
Settles == fetch'.fetch_done /\ ~fetch.fetch_done
Starts  == budget'.fetches # budget.fetches /\ (fetch'.fetch_armed \/ fetch'.fetch_done)
SettlingMovesGen == [][Settles \/ Starts => fetch'.page_gen # fetch.page_gen]_vars

(* DHCP negotiation ends: a lease, the SLIRP fallback or other settings,   *)
(* unless drive takes those for the DHCP ones (ip_settings_tag).           *)
DhcpEnds == DhcpActive(ip) ~> (~DhcpActive(ip) \/ ~OwnTag(settings))

(* With an address and a resolved gateway, an armed fetch settles: DNS,    *)
(* connect and transfer all have a time-out.                               *)
FetchSettles == (fetch.fetch_armed /\ ip.gw_known /\ HasAddress(ip)) ~> ~fetch.fetch_armed

----------------------------------------------------------------------------
(* The fetch as the browser sees it.                                       *)
Attempt == MaxFetches - budget.fetches
Status ==
  CASE fetch.fetch_armed                            -> "loading"
    [] ~fetch.fetch_armed /\ ~fetch.fetch_done        -> "idle"
    [] fetch.fetch_done /\ fetch.fetch_err = "none"   -> "shown"
    [] fetch.fetch_done /\ fetch.fetch_err # "none"   -> "failed"

(* A read of the TLS pump after the page is complete, and the lease that   *)
(* clears fetch_err_len: the two places where the code alters an outcome   *)
(* that stands (OutcomeKept).                                              *)
LateTlsRead == pc = "pump" /\ fetch.fetch_done
LeaseTaken  == ip.dhcp_phase = "WaitAck" /\ ip'.dhcp_phase = "Bound"

(* But for those two, the stack implements FetchLifecycle: no step turns a *)
(* finished page into an error or an error into a page, revives a settled  *)
(* attempt or settles one that was never opened.                           *)
Lifecycle == INSTANCE FetchLifecycle WITH attempt <- Attempt, status <- Status
ImplementsLifecycle ==
  /\ Lifecycle!Init
  /\ [][Lifecycle!Next \/ LateTlsRead \/ LeaseTaken]_<<Attempt, Status>>

(* The outcome of a settled attempt stays what it was.                     *)
OutcomeKept ==
  [][(fetch.fetch_done /\ fetch'.fetch_done /\ budget'.fetches = budget.fetches)
       => (fetch.fetch_err = "none") = (fetch'.fetch_err = "none")]_vars

(* A failed fetch reaches phase Done, the only phase in which the main     *)
(* loop shows its message, once the stack has an address and a gateway.    *)
ErrorIsShown ==
  (fetch.fetch_err # "none" /\ ip.gw_known /\ HasAddress(ip))
    ~> (ip.phase = "Done" \/ fetch.fetch_err = "none" \/ ~ip.gw_known)
=============================================================================
