---------------------------- MODULE SessionProofs ----------------------------
(***************************************************************************)
(* What the session controller guarantees for every number of peers,       *)
(* registrations, heartbeat failures and queued work items, whether or not *)
(* the encoder thread overlaps the handlers and work arrives late.  The    *)
(* first part is about the transport, the video and the retry timer, the   *)
(* second about how a negotiation ends and what a lost registration leaves *)
(* behind.                                                                 *)
(***************************************************************************)
EXTENDS Session, TLAPS

\* m is n with transport u, but for members that no theorem here is about.
LikeWithUdp(m, n, u) ==
    /\ m \in NodeType
    /\ m.registered = n.registered
    /\ m.epoch = n.epoch
    /\ m.udp = u
    /\ m.video = n.video
    /\ m.sps = n.sps
    /\ m.cfg = n.cfg

Like(m, n) == LikeWithUdp(m, n, n.udp)

\* A published configuration has its parameter sets, which belong to the video
\* that runs.
VideoCoherent(n) == (n.cfg # 0 => n.sps) /\ (n.sps => n.video)

\* NegotiatingHasRetry for a node whose encoder thread is not about to enter
\* Running.
HasRetry(n) == n.state = "Negotiating" /\ n.video => "neg" \in n.timers

-----------------------------------------------------------------------------
(***************************************************************************)
(* The functions that handlers are composed of, one lemma each.            *)
(***************************************************************************)

\* Zero is an epoch, the one of a node that never registered, and a number of
\* heartbeat failures.
LEMMA Zero == 0 \in Epochs /\ 0 \in 0 .. HeartbeatLimit - 1
  BY SessionConstants DEF SessionConstants, Epochs

\* setState changes the state only.
LEMMA SetStateKeeps ==
    ASSUME NEW n \in NodeType, NEW s \in States
    PROVE  /\ Like(SetState(n, s), n)
           /\ SetState(n, s).state = s
           /\ SetState(n, s).timers = n.timers
  BY DEF SetState, Like, LikeWithUdp, NodeType

\* Arming a timer changes the set of armed timers only.
LEMMA ArmKeeps ==
    ASSUME NEW n \in NodeType, NEW t \in Timers
    PROVE  /\ Like(Arm(n, t), n)
           /\ Arm(n, t).state = n.state
           /\ Arm(n, t).timers = n.timers \cup {t}
  BY DEF Arm, Like, LikeWithUdp, NodeType

\* Cancelling timers changes the set of armed timers only.
LEMMA CancelKeeps ==
    ASSUME NEW n \in NodeType, NEW ts
    PROVE  /\ Like(Cancel(n, ts), n)
           /\ Cancel(n, ts).state = n.state
           /\ Cancel(n, ts).timers = n.timers \ ts
  BY DEF Cancel, Like, LikeWithUdp, NodeType

\* updateRobotTelemetryLifecycle changes the telemetry only.
LEMMA TelemetryKeeps ==
    ASSUME NEW n \in NodeType
    PROVE  /\ Like(UpdateRobotTelemetryLifecycle(n), n)
           /\ UpdateRobotTelemetryLifecycle(n).state = n.state
           /\ UpdateRobotTelemetryLifecycle(n).timers = n.timers
  BY DEF UpdateRobotTelemetryLifecycle, IsRobotTelemetryOnline, Like, LikeWithUdp, NodeType

\* startEventStream changes the event stream only.
LEMMA StartEventStreamKeeps ==
    ASSUME NEW n \in NodeType
    PROVE  /\ Like(StartEventStream(n), n)
           /\ StartEventStream(n).state = n.state
           /\ StartEventStream(n).timers = n.timers
  BY DEF StartEventStream, Like, LikeWithUdp, NodeType

\* enterPairingState leaves the media and the transport alone.
LEMMA EnterPairingKeeps ==
    ASSUME NEW n \in NodeType
    PROVE  /\ Like(EnterPairingState(n), n)
           /\ EnterPairingState(n).state = "Pairing"
  <1> DEFINE s == SetState(n, "Pairing")
             m == StartEventStream(s)
  <1>1. Like(s, n) /\ s.state = "Pairing"
    BY SetStateKeeps DEF States
  <1>2. Like(m, n) /\ m.state = "Pairing"
    BY <1>1, StartEventStreamKeeps DEF Like, LikeWithUdp
  <1>3. /\ Like(Arm(m, "pair"), n) /\ Arm(m, "pair").state = "Pairing"
        /\ Like(Cancel(m, {"pair"}), n) /\ Cancel(m, {"pair"}).state = "Pairing"
    BY <1>2, ArmKeeps, CancelKeeps DEF Like, LikeWithUdp, Timers
  <1>4. QED BY <1>3 DEF EnterPairingState

\* UdpModule::start binds the transport to the current registration.
LEMMA UdpStartBinds ==
    ASSUME NEW n \in NodeType
    PROVE  /\ LikeWithUdp(UdpStart(n), n, n.epoch)
           /\ UdpStart(n).state = n.state
           /\ UdpStart(n).timers = n.timers \cup {"handshake"}
  BY DEF UdpStart, Arm, Like, LikeWithUdp, NodeType, Timers

\* UdpModule::stop leaves no transport.
LEMMA UdpStopUnbinds ==
    ASSUME NEW n \in NodeType
    PROVE  /\ LikeWithUdp(UdpStop(n), n, 0)
           /\ UdpStop(n).state = n.state
           /\ UdpStop(n).timers = n.timers \ {"handshake"}
  BY Zero DEF UdpStop, Cancel, Like, LikeWithUdp, NodeType

\* UdpModule::resetSession keeps the transport and its session id.
LEMMA ResetSessionKeeps ==
    ASSUME NEW n \in NodeType
    PROVE  /\ Like(ResetSession(n), n)
           /\ ResetSession(n).state = n.state
           /\ ResetSession(n).timers \in {n.timers, n.timers \cup {"handshake"}}
  <1> DEFINE r == [n EXCEPT !.ready = FALSE, !.fired = FALSE]
  <1>1. Like(r, n) /\ r.state = n.state /\ r.timers = n.timers
    BY DEF Like, LikeWithUdp, NodeType
  <1>2. Like(n, n)
    BY DEF Like, LikeWithUdp
  <1> HIDE DEF r
  <1>3. /\ Like(Arm(r, "handshake"), n) /\ Arm(r, "handshake").state = n.state
        /\ Arm(r, "handshake").timers = n.timers \cup {"handshake"}
    BY <1>1 DEF Arm, Like, LikeWithUdp, NodeType, Timers
  <1>4. ResetSession(n) \in {n, Arm(r, "handshake")}
    BY DEF ResetSession, r
  <1> QED BY <1>2, <1>3, <1>4

\* completeRegisteredSetup may start a transport, bound to the registration.
LEMMA CompleteRegisteredSetupBinds ==
    ASSUME NEW n \in NodeType, NEW ok
    PROVE  LET m == CompleteRegisteredSetup(n, ok)
           IN  /\ Like(m, n) \/ (n.registered /\ LikeWithUdp(m, n, n.epoch))
               /\ m.state = n.state
               /\ "neg" \in m.timers <=> "neg" \in n.timers
  <1> DEFINE m == [n EXCEPT !.manifest = n.manifest \/ "manifest" \in ok]
             started == IF m.udp = 0 THEN UdpStart(m) ELSE m
             c == Cancel(started, {"setup"})
             Kept(x) == /\ \/ Like(x, n)
                           \/ LikeWithUdp(x, n, n.epoch)
                        /\ x.state = n.state
                        /\ "neg" \in x.timers <=> "neg" \in n.timers
  <1>1. Like(m, n) /\ m.state = n.state /\ m.timers = n.timers
    BY DEF Like, LikeWithUdp, NodeType
  <1> HIDE DEF m
  <1>2. Kept(started)
    <2>1. Kept(UdpStart(m))
      BY <1>1, UdpStartBinds DEF Like, LikeWithUdp
    <2>2. Kept(m)
      BY <1>1
    <2>3. QED BY <2>1, <2>2
  <1> HIDE DEF started
  <1>3. Kept(c)
    BY <1>2, CancelKeeps DEF Like, LikeWithUdp
  <1> HIDE DEF c
  <1>4. Kept(UpdateRobotTelemetryLifecycle(c))
    BY <1>3, TelemetryKeeps DEF Like, LikeWithUdp
  <1>5. Kept(Arm(m, "setup")) /\ Kept(Cancel(n, {"setup"})) /\ Like(Cancel(n, {"setup"}), n)
    BY <1>1, ArmKeeps, CancelKeeps DEF Like, LikeWithUdp, Timers
  <1>6. QED
    BY <1>4, <1>5 DEF CompleteRegisteredSetup, m, started, c

\* tryAdvanceNegotiation leaves the transport and the running video alone, and
\* publishes a video configuration only with the parameter sets at hand.  A
\* negotiation it does not complete keeps its retry timer armed.
LEMMA TryAdvanceNegotiationKeeps ==
    ASSUME NEW n \in NodeType, NEW ok
    PROVE  LET m == TryAdvanceNegotiation(n, ok)
           IN  /\ m \in NodeType
               /\ m.registered = n.registered /\ m.epoch = n.epoch /\ m.udp = n.udp
               /\ m.video = n.video /\ m.sps = n.sps
               /\ m.cfg # n.cfg => n.sps
               /\ m.state = "Negotiating" => "neg" \in m.timers
  <1> DEFINE v == PublishVideoConfig(n)
             a == PublishAudioConfig(v)
             r == EnterRunning(a)
             Kept(x) == /\ x \in NodeType
                        /\ x.registered = n.registered /\ x.epoch = n.epoch /\ x.udp = n.udp
                        /\ x.video = n.video /\ x.sps = n.sps
  <1>1. Kept(v)
    BY DEF PublishVideoConfig, NodeType
  <1>2. n.cfg # 0 => v.cfg = n.cfg
    BY DEF PublishVideoConfig, NodeType
  <1> HIDE DEF v
  <1>3. Kept(a) /\ a.cfg = v.cfg
    BY <1>1 DEF PublishAudioConfig, NodeType
  <1> HIDE DEF a
  <1>4. Kept(r) /\ r.cfg = v.cfg /\ r.state = "Running"
    BY <1>3 DEF EnterRunning, SetState, Cancel, NodeType, States
  <1> HIDE DEF r
  <1>5. /\ Kept(AudioStart(r, ok))
        /\ AudioStart(r, ok).cfg = v.cfg
        /\ AudioStart(r, ok).state = "Running"
    BY <1>4 DEF AudioStart, NodeType
  <1>6. Kept(Arm(n, "neg")) /\ Arm(n, "neg").cfg = n.cfg /\ "neg" \in Arm(n, "neg").timers
    BY ArmKeeps DEF Like, LikeWithUdp, Timers
  <1>7. Kept(Arm(v, "neg")) /\ Arm(v, "neg").cfg = v.cfg /\ "neg" \in Arm(v, "neg").timers
    BY <1>1, ArmKeeps DEF Like, LikeWithUdp, Timers
  <1>8. VideoConfigPublished(n, ok) /\ v.cfg # n.cfg => n.sps
    BY <1>2 DEF VideoConfigPublished
  <1>9. QED
    BY <1>5, <1>6, <1>7, <1>8 DEF TryAdvanceNegotiation, v, a, r
\* startVideoAndNegotiate leaves the transport alone and never stops a video;
\* what it leaves negotiating has its retry timer, or no video.
LEMMA StartVideoKeeps ==
    ASSUME NEW n \in NodeType, NEW ok, VideoCoherent(n)
    PROVE  LET m == StartVideoAndNegotiate(n, ok)
           IN  /\ m \in NodeType
               /\ m.registered = n.registered /\ m.epoch = n.epoch /\ m.udp = n.udp
               /\ n.video => m.video
               /\ m.sps = n.sps
               /\ VideoCoherent(m)
               /\ HasRetry(m)
  <1> DEFINE v == [n EXCEPT !.video = TRUE]
             m == Arm(v, "neg")
             Kept(x) == /\ x \in NodeType
                        /\ x.registered = n.registered /\ x.epoch = n.epoch /\ x.udp = n.udp
                        /\ x.video /\ x.sps = n.sps
                        /\ x.cfg # n.cfg => n.sps
                        /\ x.state = "Negotiating" => "neg" \in x.timers
  <1>1. v \in NodeType /\ v.registered = n.registered /\ v.epoch = n.epoch /\ v.udp = n.udp
        /\ v.video /\ v.sps = n.sps /\ v.cfg = n.cfg
    BY DEF NodeType
  <1> HIDE DEF v
  <1>2. Kept(m) /\ m.cfg = n.cfg
    BY <1>1, ArmKeeps DEF Like, LikeWithUdp, Timers
  <1> HIDE DEF m
  <1>3. Kept(TryAdvanceNegotiation(m, ok))
    BY <1>2, TryAdvanceNegotiationKeeps
  <1>4. ASSUME NEW x, Kept(x)
        PROVE  VideoCoherent(x) /\ HasRetry(x)
    BY <1>4 DEF VideoCoherent, HasRetry
  <1>5. CASE ~n.video /\ "videoStart" \notin ok
    <2>1. StartVideoAndNegotiate(n, ok) = n
      BY <1>5 DEF StartVideoAndNegotiate
    <2>2. QED BY <2>1, <1>5 DEF HasRetry
  <1>6. CASE ~(~n.video /\ "videoStart" \notin ok)
    <2>1. StartVideoAndNegotiate(n, ok) \in {TryAdvanceNegotiation(m, ok), m}
      BY <1>6 DEF StartVideoAndNegotiate, m, v
    <2>2. Kept(StartVideoAndNegotiate(n, ok))
      BY <2>1, <1>2, <1>3
    <2>3. QED BY <2>2, <1>4
  <1>7. QED BY <1>5, <1>6

\* Stopping the video leaves no parameter sets and no configuration.
LEMMA StopVideoResets ==
    ASSUME NEW n \in NodeType
    PROVE  LET m == StopVideoAndReset(n)
           IN  /\ m \in NodeType
               /\ m.registered = n.registered /\ m.epoch = n.epoch /\ m.udp = n.udp
               /\ ~m.video /\ ~m.sps /\ m.cfg = 0
  BY Zero DEF StopVideoAndReset, NodeType

\* teardownActiveSession before the join leaves the transport and the video.
LEMMA TeardownBeginKeeps ==
    ASSUME NEW n \in NodeType, NEW target \in States
    PROVE  Like(TeardownBegin(n, target), n) /\ TeardownBegin(n, target).state = target
  <1> DEFINE m == [n EXCEPT !.state = target, !.telemetry = FALSE, !.peer = NoPeer,
                            !.audio = FALSE, !.acfg = 0]
  <1>1. Like(m, n) /\ m.state = target
    BY Zero DEF Like, LikeWithUdp, NodeType
  <1> HIDE DEF m
  <1>2. Like(Cancel(m, {"neg", "pair"}), n) /\ Cancel(m, {"neg", "pair"}).state = target
    BY <1>1, CancelKeeps DEF Like, LikeWithUdp
  <1>3. QED BY <1>2 DEF TeardownBegin, m

\* teardownActiveSession after the join stops the transport of a lost
\* registration and keeps the one of a registration that holds.
LEMMA TeardownEndResets ==
    ASSUME NEW n \in NodeType, NEW target \in {"Connecting", "Registered", "Pairing"}
    PROVE  LET m == TeardownEnd(n, target)
           IN  /\ m \in NodeType
               /\ m.registered = n.registered /\ m.epoch = n.epoch
               /\ m.udp = IF target = "Connecting" THEN 0 ELSE n.udp
               /\ ~m.video /\ ~m.sps /\ m.cfg = 0
  <1> DEFINE stopped == StopVideoAndReset(n)
             cleared == [stopped EXCEPT !.manifest = FALSE]
             reset   == IF target = "Connecting" THEN UdpStop(Cancel(cleared, {"setup"}))
                                                 ELSE ResetSession(stopped)
             pairing == IF target = "Pairing" THEN EnterPairingState(reset) ELSE reset
             updated == UpdateRobotTelemetryLifecycle(pairing)
             Off(x, u) == /\ x \in NodeType
                          /\ x.registered = n.registered /\ x.epoch = n.epoch /\ x.udp = u
                          /\ ~x.video /\ ~x.sps /\ x.cfg = 0
             u == IF target = "Connecting" THEN 0 ELSE n.udp
  <1>1. Off(stopped, n.udp)
    BY StopVideoResets
  <1> HIDE DEF stopped
  <1>2. Off(cleared, n.udp)
    BY <1>1 DEF NodeType
  <1> HIDE DEF cleared
  <1>3. Off(Cancel(cleared, {"setup"}), n.udp)
    BY <1>2, CancelKeeps DEF Like, LikeWithUdp
  <1>4. Off(UdpStop(Cancel(cleared, {"setup"})), 0)
    BY <1>3, UdpStopUnbinds DEF LikeWithUdp
  <1>5. Off(ResetSession(stopped), n.udp)
    BY <1>1, ResetSessionKeeps DEF Like, LikeWithUdp
  <1>6. Off(reset, u)
    BY <1>4, <1>5
  <1> HIDE DEF reset
  <1>7. Off(pairing, u)
    BY <1>6, EnterPairingKeeps DEF Like, LikeWithUdp
  <1> HIDE DEF pairing
  <1>8. Off(updated, u)
    BY <1>7, TelemetryKeeps DEF Like, LikeWithUdp
  <1> HIDE DEF updated
  <1>9. Off(EnterPairingState(updated), u)
    BY <1>8, EnterPairingKeeps DEF Like, LikeWithUdp
  <1>10. TeardownEnd(n, target) \in {EnterPairingState(updated), updated}
    BY DEF TeardownEnd, stopped, cleared, reset, pairing, updated
  <1>11. QED BY <1>8, <1>9, <1>10

\* A pairing that begins leaves the transport alone and never stops a video.
LEMMA PairedKeeps ==
    ASSUME NEW n \in NodeType, NEW p \in Peers, NEW ok, VideoCoherent(n)
    PROVE  LET m == Paired(n, p, ok)
           IN  /\ m \in NodeType
               /\ m.registered = n.registered /\ m.epoch = n.epoch /\ m.udp = n.udp
               /\ n.video => m.video
               /\ m.sps = n.sps
               /\ VideoCoherent(m)
               /\ HasRetry(m)
  <1> DEFINE q == [n EXCEPT !.peer = p, !.state = "Negotiating"]
             c == Cancel(q, {"pair"})
  <1>1. Like(q, n)
    BY DEF Like, LikeWithUdp, NodeType, States
  <1> HIDE DEF q
  <1>2. Like(c, n)
    BY <1>1, CancelKeeps DEF Like, LikeWithUdp
  <1>3. c \in NodeType /\ VideoCoherent(c)
    BY <1>2 DEF Like, LikeWithUdp, VideoCoherent
  <1> HIDE DEF c
  <1>4. QED BY <1>2, <1>3, StartVideoKeeps DEF Paired, Like, LikeWithUdp, c, q

\* Forgetting a peer changes the peer only.
LEMMA ClearPeerKeeps ==
    ASSUME NEW n \in NodeType, NEW p
    PROVE  Like(ClearPeer(n, p), n)
  BY DEF ClearPeer, Like, LikeWithUdp, NodeType

\* A rejection leaves the media and the transport alone.
LEMMA RejectedKeeps ==
    ASSUME NEW n \in NodeType, NEW p
    PROVE  Like(Rejected(n, p), n) /\ Rejected(n, p).state = "Pairing"
  <1> DEFINE c == ClearPeer(n, p)
             m == SetState(c, "Pairing")
  <1>1. Like(c, n)
    BY ClearPeerKeeps
  <1> HIDE DEF c
  <1>2. Like(m, n) /\ m.state = "Pairing"
    BY <1>1, SetStateKeeps DEF Like, LikeWithUdp, States
  <1> HIDE DEF m
  <1>3. Like(Arm(m, "pair"), n) /\ Arm(m, "pair").state = "Pairing"
    BY <1>2, ArmKeeps DEF Like, LikeWithUdp, Timers
  <1>4. QED BY <1>2, <1>3 DEF Rejected, c, m

\* onUdpHandshakeReady leaves the media and the transport alone.
LEMMA HandshakeReadyKeeps ==
    ASSUME NEW n \in NodeType
    PROVE  LET m == HandshakeReady(n) IN Like(m, n) /\ (m = n \/ m.state = "Pairing")
  <1> DEFINE f == [n EXCEPT !.fired = TRUE]
             u == UpdateRobotTelemetryLifecycle(f)
  <1>1. Like(f, n)
    BY DEF Like, LikeWithUdp, NodeType
  <1> HIDE DEF f
  <1>2. Like(u, n)
    BY <1>1, TelemetryKeeps DEF Like, LikeWithUdp
  <1> HIDE DEF u
  <1>3. Like(EnterPairingState(u), n) /\ EnterPairingState(u).state = "Pairing"
    BY <1>2, EnterPairingKeeps DEF Like, LikeWithUdp
  <1>4. Like(n, n)
    BY DEF Like, LikeWithUdp
  <1>5. HandshakeReady(n) \in {n, EnterPairingState(u)}
    BY DEF HandshakeReady, f, u
  <1>6. QED BY <1>3, <1>4, <1>5

\* A new registration changes the media in nothing and binds a new transport.
LEMMA OnGrpcRegisteredBinds ==
    ASSUME NEW n \in NodeType, NEW ok
    PROVE  LET m == OnGrpcRegistered(n, ok)
           IN  /\ Like(m, n) \/ LikeWithUdp(m, n, n.epoch)
               /\ m.state = "Registered"
  <1> DEFINE s == SetState(n, "Registered")
             c == Cancel(s, {"neg", "pair", "setup"})
             r == [c EXCEPT !.manifest = FALSE]
  <1>1. Like(s, n) /\ s.state = "Registered"
    BY SetStateKeeps DEF States
  <1> HIDE DEF s
  <1>2. Like(c, n) /\ c.state = "Registered"
    BY <1>1, CancelKeeps DEF Like, LikeWithUdp
  <1> HIDE DEF c
  <1>3. Like(r, n) /\ r.state = "Registered"
    BY <1>2 DEF Like, LikeWithUdp, NodeType
  <1> HIDE DEF r
  <1>4. LET m == CompleteRegisteredSetup(r, ok)
        IN  /\ Like(m, r) \/ (r.registered /\ LikeWithUdp(m, r, r.epoch))
            /\ m.state = r.state
    BY <1>3, CompleteRegisteredSetupBinds DEF Like, LikeWithUdp
  <1>5. QED BY <1>3, <1>4 DEF OnGrpcRegistered, Like, LikeWithUdp, s, c, r

\* onHeartbeat unregisters and leaves the transport to the end of the teardown.
LEMMA OnGrpcHeartbeatFailKeeps ==
    ASSUME NEW n \in NodeType
    PROVE  LET m == OnGrpcHeartbeatFail(n)
           IN  /\ m \in NodeType
               /\ ~m.registered /\ m.epoch = n.epoch /\ m.udp = n.udp
               /\ m.video = n.video /\ m.sps = n.sps /\ m.cfg = n.cfg
               /\ m.state = "Connecting"
  <1> DEFINE r == [n EXCEPT !.registered = FALSE, !.hb = 0, !.stream = 0, !.manifest = FALSE]
             c == Cancel(r, {"setup"})
  <1>1. /\ r \in NodeType
        /\ ~r.registered /\ r.epoch = n.epoch /\ r.udp = n.udp
        /\ r.video = n.video /\ r.sps = n.sps /\ r.cfg = n.cfg
    BY Zero DEF NodeType
  <1> HIDE DEF r
  <1>2. Like(c, r)
    BY <1>1, CancelKeeps
  <1> HIDE DEF c
  <1>3. Like(TeardownBegin(c, "Connecting"), c) /\ TeardownBegin(c, "Connecting").state = "Connecting"
    BY <1>2, TeardownBeginKeeps DEF Like, LikeWithUdp, States
  <1>4. QED BY <1>1, <1>2, <1>3 DEF OnGrpcHeartbeatFail, Like, LikeWithUdp, r, c

-----------------------------------------------------------------------------
(***************************************************************************)
(* The inductive invariant.  A transport is missing whenever a             *)
(* registration may begin, which is what binds it to the registration; and *)
(* while the encoder thread negotiates, the video it belongs to runs,      *)
(* because the executor joins the thread before it forgets the video.      *)
(***************************************************************************)

Invariant ==
    /\ TypeOK
    /\ ~node.registered => node.epoch < MaxEpoch
    /\ UdpBoundToSession
    /\ ~node.registered => node.udp = 0 \/ ex = "Connecting"
    /\ ex = "Connecting" => ~node.registered
    /\ VideoCoherent(node)
    /\ vt # "idle" => node.video /\ node.sps
    /\ NegotiatingHasRetry

\* The initial state satisfies the invariant.
LEMMA InitInvariant == Init => Invariant
  <1> SUFFICES ASSUME Init PROVE Invariant OBVIOUS
  <1>1. node \in NodeType
    BY Zero DEF Init, NodeType, States
  <1>2. TypeOK
    BY <1>1, SessionConstants DEF SessionConstants, Init, TypeOK
  <1>3. node.epoch < MaxEpoch
    BY SessionConstants DEF SessionConstants, Init
  <1>4. QED
    BY <1>2, <1>3 DEF Init, Invariant, UdpBoundToSession, VideoCoherent, NegotiatingHasRetry

\* Every step preserves the invariant.
LEMMA NextInvariant == Invariant /\ [Next]_vars => Invariant'
  <1> SUFFICES ASSUME Invariant, [Next]_vars PROVE Invariant'
    OBVIOUS
  <1> USE DEF VideoCoherent, HasRetry
  <1>0. /\ node \in NodeType /\ queue \in Seq(Work) /\ Len(queue) <= MaxQueue
        /\ node.epoch \in Nat /\ node.hb \in Nat
    BY DEF Invariant, TypeOK, NodeType, Epochs
  \* What a step that leaves the queue alone has to show.
  <1>q. ASSUME UNCHANGED queue, node' \in NodeType,
               ex' \in {"idle", "drain", "Connecting", "Registered", "Pairing", "restart"},
               vt' \in {"idle", "publish", "audio", "run", "set", "start"}
        PROVE  TypeOK'
    BY <1>q DEF Invariant, TypeOK
  \* What a step that keeps the registration and the transport has to show.
  <1>k. ASSUME TypeOK',
               node'.registered = node.registered,
               node'.epoch = node.epoch,
               node'.udp = node.udp,
               ex' = ex \/ "Connecting" \notin {ex, ex'},
               VideoCoherent(node'),
               vt' # "idle" => node'.video /\ node'.sps,
               NegotiatingHasRetry'
        PROVE  Invariant'
    BY <1>k DEF Invariant, UdpBoundToSession
  \* What a step that also keeps the video has to show.
  <1>l. ASSUME TypeOK',
               Like(node', node),
               ex' = ex \/ "Connecting" \notin {ex, ex'},
               vt' = vt,
               HasRetry(node') \/ (node'.state = node.state
                                    /\ ("neg" \in node.timers => "neg" \in node'.timers))
        PROVE  Invariant'
    <2>1. VideoCoherent(node') /\ (vt' # "idle" => node'.video /\ node'.sps)
      BY <1>l DEF Like, LikeWithUdp, Invariant
    <2>2. NegotiatingHasRetry'
      BY <1>l DEF Like, LikeWithUdp, Invariant, NegotiatingHasRetry
    <2>3. QED BY <1>k, <1>l, <2>1, <2>2 DEF Like, LikeWithUdp
  \* The executor takes an item of the work queue.
  <1>t. ASSUME NEW op, TakeWork(op), node' \in NodeType,
               ex' \in {"idle", "drain", "Registered", "Pairing"}
        PROVE  /\ TypeOK'
               /\ Head(queue) \in Work
               /\ Head(queue).op = op
               /\ "Connecting" \notin {ex, ex'}
               /\ vt' = vt
    <2>1. queue # <<>> /\ queue' = Tail(queue) /\ vt' = vt
      BY <1>t DEF TakeWork
    <2>2. Head(queue) \in Work /\ queue' \in Seq(Work) /\ Len(queue') <= MaxQueue
      BY <1>0, <2>1, SessionConstants DEF SessionConstants
    <2>3. QED BY <1>t, <2>1, <2>2 DEF TakeWork, Invariant, TypeOK
  <1>1. CASE TryRegister
    <2>1. PICK ok \in SUBSET {"manifest", "udpStart"} :
             node' = OnGrpcRegistered(
                       [node EXCEPT !.registered = TRUE, !.epoch = @ + 1, !.hb = 0], ok)
      BY <1>1 DEF TryRegister
    <2> DEFINE n == [node EXCEPT !.registered = TRUE, !.epoch = @ + 1, !.hb = 0]
    <2>2. node.epoch + 1 \in Epochs
      BY <1>0, <1>1, SessionConstants DEF SessionConstants, Invariant, TryRegister, Epochs
    <2>3. n \in NodeType
      BY <1>0, <2>2, Zero DEF NodeType
    <2>4. /\ n.registered /\ n.epoch = node.epoch + 1 /\ n.udp = node.udp
          /\ n.video = node.video /\ n.sps = node.sps /\ n.cfg = node.cfg
      BY <1>0 DEF NodeType
    <2>5. node.udp = 0
      BY <1>1 DEF TryRegister, Free, Invariant
    <2> HIDE DEF n
    <2>6. /\ Like(node', n) \/ LikeWithUdp(node', n, n.epoch)
          /\ node'.state = "Registered"
      BY <2>1, <2>3, OnGrpcRegisteredBinds DEF n
    <2>7. TypeOK'
      BY <1>1, <1>q, <2>6 DEF TryRegister, Like, LikeWithUdp, Invariant, TypeOK
    <2>8. QED
      BY <1>1, <2>4, <2>5, <2>6, <2>7
      DEF TryRegister, Free, Like, LikeWithUdp, Invariant, UdpBoundToSession, NegotiatingHasRetry
  <1>2. CASE RegisteredSetupRetryTimer
    <2>1. PICK ok \in SUBSET {"manifest", "udpStart"} : node' = CompleteRegisteredSetup(node, ok)
      BY <1>2 DEF RegisteredSetupRetryTimer
    <2>2. /\ Like(node', node) \/ (node.registered /\ LikeWithUdp(node', node, node.epoch))
          /\ node'.state = node.state
          /\ "neg" \in node'.timers <=> "neg" \in node.timers
      BY <1>0, <2>1, CompleteRegisteredSetupBinds
    <2>3. TypeOK'
      BY <1>2, <1>q, <2>2 DEF RegisteredSetupRetryTimer, Like, LikeWithUdp, Invariant, TypeOK
    <2>4. QED
      BY <1>2, <2>2, <2>3
      DEF RegisteredSetupRetryTimer, Free, Like, LikeWithUdp, Invariant, UdpBoundToSession,
          NegotiatingHasRetry
  <1>3. CASE HeartbeatOk
    <2>1. Like(node', node) /\ node'.state = node.state /\ node'.timers = node.timers
      BY <1>0, <1>3, Zero DEF HeartbeatOk, Like, LikeWithUdp, NodeType
    <2>2. TypeOK'
      BY <1>3, <1>q, <2>1 DEF HeartbeatOk, Like, LikeWithUdp, Invariant, TypeOK
    <2>3. QED BY <1>3, <1>l, <2>1, <2>2 DEF HeartbeatOk
  <1>4. CASE HeartbeatTransportFailure
    <2>1. node.hb + 1 \in 0 .. HeartbeatLimit - 1
      BY <1>0, <1>4, SessionConstants DEF SessionConstants, HeartbeatTransportFailure
    <2>2. Like(node', node) /\ node'.state = node.state /\ node'.timers = node.timers
      BY <1>0, <1>4, <2>1 DEF HeartbeatTransportFailure, Like, LikeWithUdp, NodeType
    <2>3. TypeOK'
      BY <1>4, <1>q, <2>2 DEF HeartbeatTransportFailure, Like, LikeWithUdp, Invariant, TypeOK
    <2>4. QED BY <1>4, <1>l, <2>2, <2>3 DEF HeartbeatTransportFailure
  <1>5. CASE HeartbeatFail
    <2>1. /\ node' \in NodeType
          /\ ~node'.registered /\ node'.epoch = node.epoch /\ node'.udp = node.udp
          /\ node'.video = node.video /\ node'.sps = node.sps /\ node'.cfg = node.cfg
          /\ node'.state = "Connecting"
      BY <1>0, <1>5, OnGrpcHeartbeatFailKeeps DEF HeartbeatFail
    <2>2. TypeOK'
      BY <1>5, <1>q, <2>1 DEF HeartbeatFail, Invariant, TypeOK
    <2>3. QED
      BY <1>5, <2>1, <2>2
      DEF HeartbeatFail, Invariant, UdpBoundToSession, NegotiatingHasRetry
  \* The handlers of the work queue.
  <1>6. ASSUME NEW op, TakeWork(op), op \in PairOps, NEW ok,
               node' = Paired(node, Head(queue).peer, ok), ex' = AfterItem
        PROVE  Invariant'
    <2>1. Head(queue) \in Work /\ Head(queue).op = op
      BY <1>0, <1>6 DEF TakeWork
    <2>2. Head(queue).peer \in Peers
      BY <1>6, <2>1 DEF Work, PairOps
    <2>3. /\ node' \in NodeType
          /\ node'.registered = node.registered /\ node'.epoch = node.epoch
          /\ node'.udp = node.udp
          /\ node.video => node'.video
          /\ node'.sps = node.sps
          /\ VideoCoherent(node')
          /\ HasRetry(node')
      BY <1>0, <1>6, <2>2, PairedKeeps DEF Invariant
    <2>4. TypeOK' /\ "Connecting" \notin {ex, ex'} /\ vt' = vt
      BY <1>6, <1>t, <2>3 DEF AfterItem
    <2>5. (vt' # "idle" => node'.video /\ node'.sps) /\ NegotiatingHasRetry'
      BY <2>3, <2>4 DEF Invariant, NegotiatingHasRetry
    <2>6. QED BY <1>k, <2>3, <2>4, <2>5
  <1>7. CASE HandleRequest
    <2>1. PICK ok \in SUBSET ({"accept"} \cup MediaCalls) :
             node' = IF "accept" \in ok THEN Paired(node, Head(queue).peer, ok) ELSE node
      BY <1>7 DEF HandleRequest
    <2>2. CASE "accept" \in ok
      BY <1>6, <1>7, <2>1, <2>2 DEF HandleRequest, PairOps
    <2>3. CASE "accept" \notin ok
      <3>1. Like(node', node) /\ node' = node
        BY <1>0, <2>1, <2>3 DEF Like, LikeWithUdp
      <3>2. TypeOK' /\ "Connecting" \notin {ex, ex'} /\ vt' = vt
        BY <1>0, <1>7, <1>t, <3>1 DEF HandleRequest, AfterItem
      <3>3. QED BY <1>l, <3>1, <3>2
    <2>4. QED BY <2>2, <2>3
  <1>8. CASE HandleAccept
    BY <1>6, <1>8 DEF HandleAccept, PairOps
  <1>9. CASE HandleReject
    <2>1. Like(node', node) /\ node'.state = "Pairing"
      BY <1>0, <1>9, RejectedKeeps DEF HandleReject
    <2>2. TypeOK' /\ "Connecting" \notin {ex, ex'} /\ vt' = vt
      BY <1>9, <1>t, <2>1 DEF HandleReject, AfterItem, Like, LikeWithUdp
    <2>3. QED BY <1>l, <2>1, <2>2
  <1>10. CASE HandleUnpair
    <2>1. Like(ClearPeer(node, Head(queue).peer), node)
      BY <1>0, ClearPeerKeeps
    <2>2. Like(node', node) /\ node'.state = "Pairing"
      BY <1>10, <2>1, TeardownBeginKeeps DEF HandleUnpair, States, Like, LikeWithUdp
    <2>3. TypeOK' /\ "Connecting" \notin {ex, ex'} /\ vt' = vt
      BY <1>10, <1>t, <2>2 DEF HandleUnpair, Like, LikeWithUdp
    <2>4. QED BY <1>l, <2>2, <2>3
  <1>11. CASE HandleHelloRequest
    <2>1. /\ Like(node', node) /\ node'.state = node.state
          /\ node'.timers \in {node.timers, node.timers \cup {"handshake"}}
      BY <1>0, <1>11, ResetSessionKeeps DEF HandleHelloRequest
    <2>2. TypeOK' /\ "Connecting" \notin {ex, ex'} /\ vt' = vt
      BY <1>11, <1>t, <2>1 DEF HandleHelloRequest, AfterItem, Like, LikeWithUdp
    <2>3. QED BY <1>l, <2>1, <2>2
  <1>12. CASE HandleStreamEnd
    <2>1. Like(node', node) /\ node'.state = "Registered"
      BY <1>0, <1>12, TeardownBeginKeeps DEF HandleStreamEnd, States
    <2>2. TypeOK' /\ "Connecting" \notin {ex, ex'} /\ vt' = vt
      BY <1>12, <1>t, <2>1 DEF HandleStreamEnd, Like, LikeWithUdp
    <2>3. QED BY <1>l, <2>1, <2>2
  <1>13. CASE HandleUdpPeerLost
    <2>1. /\ Like(node', node)
          /\ \/ node'.state = "Pairing"
             \/ node'.state = node.state /\ node'.timers = node.timers
      BY <1>0, <1>13, TeardownBeginKeeps, TelemetryKeeps DEF HandleUdpPeerLost, States
    <2>2. TypeOK' /\ "Connecting" \notin {ex, ex'} /\ vt' = vt
      BY <1>13, <1>t, <2>1 DEF HandleUdpPeerLost, AfterItem, Like, LikeWithUdp
    <2>3. QED BY <1>l, <2>1, <2>2
  <1>14. CASE FinishTeardown
    <2>1. /\ node' \in NodeType
          /\ node'.registered = node.registered /\ node'.epoch = node.epoch
          /\ node'.udp = IF ex = "Connecting" THEN 0 ELSE node.udp
          /\ ~node'.video /\ ~node'.sps /\ node'.cfg = 0
      BY <1>0, <1>14, TeardownEndResets DEF FinishTeardown
    <2>2. TypeOK'
      BY <1>14, <1>q, <2>1 DEF FinishTeardown, Invariant, TypeOK
    <2>3. QED
      BY <1>14, <2>1, <2>2
      DEF FinishTeardown, Invariant, UdpBoundToSession, NegotiatingHasRetry
  <1>15. CASE PairingRetryTimer
    <2>1. Like(node', node) /\ node'.state = node.state /\ node'.timers = node.timers \ {"pair"}
      BY <1>0, <1>15, CancelKeeps DEF PairingRetryTimer
    <2>2. TypeOK'
      BY <1>15, <1>q, <2>1 DEF PairingRetryTimer, Like, LikeWithUdp, Invariant, TypeOK
    <2>3. QED BY <1>15, <1>l, <2>1, <2>2 DEF PairingRetryTimer
  <1>16. CASE NegotiationRetryTimer
    <2>1. CASE node.state # "Negotiating" /\ node' = Cancel(node, {"neg"}) /\ ex' = ex
      <3>1. Like(node', node) /\ HasRetry(node')
        BY <1>0, <2>1, CancelKeeps
      <3>2. TypeOK' /\ vt' = vt
        BY <1>16, <1>q, <2>1, <3>1 DEF NegotiationRetryTimer, Like, LikeWithUdp, Invariant, TypeOK
      <3>3. QED BY <1>l, <2>1, <3>1, <3>2
    <2>2. CASE /\ node.state = "Negotiating" /\ ex' = ex
               /\ \E ok \in SUBSET MediaCalls :
                     node' = IF node.video THEN TryAdvanceNegotiation(node, ok)
                                           ELSE StartVideoAndNegotiate(node, ok)
      <3>1. /\ node' \in NodeType
            /\ node'.registered = node.registered /\ node'.epoch = node.epoch
            /\ node'.udp = node.udp
            /\ node.video => node'.video
            /\ node'.sps = node.sps
            /\ VideoCoherent(node')
            /\ HasRetry(node')
        BY <1>0, <2>2, TryAdvanceNegotiationKeeps, StartVideoKeeps DEF Invariant
      <3>2. TypeOK' /\ vt' = vt
        BY <1>16, <1>q, <2>2, <3>1 DEF NegotiationRetryTimer, Invariant, TypeOK
      <3>3. (vt' # "idle" => node'.video /\ node'.sps) /\ NegotiatingHasRetry'
        BY <3>1, <3>2 DEF Invariant, NegotiatingHasRetry
      <3>4. QED BY <1>k, <2>2, <3>1, <3>2, <3>3
    <2>3. CASE ex' = "restart" /\ node' = node
      <3>1. Like(node', node)
        BY <1>0, <2>3 DEF Like, LikeWithUdp
      <3>2. TypeOK' /\ vt' = vt /\ ex # "Connecting"
        BY <1>0, <1>16, <1>q, <2>3 DEF NegotiationRetryTimer, Free, Invariant, TypeOK
      <3>3. QED BY <1>l, <2>3, <3>1, <3>2
    <2>4. QED BY <1>16, <2>1, <2>2, <2>3 DEF NegotiationRetryTimer
  <1>17. CASE FinishVideoRestart
    <2>1. PICK ok \in SUBSET MediaCalls :
             node' = StartVideoAndNegotiate(StopVideoAndReset(node), ok)
      BY <1>17 DEF FinishVideoRestart
    <2> DEFINE n == StopVideoAndReset(node)
    <2>2. /\ n \in NodeType /\ VideoCoherent(n)
          /\ n.registered = node.registered /\ n.epoch = node.epoch /\ n.udp = node.udp
      BY <1>0, StopVideoResets
    <2> HIDE DEF n
    <2>3. /\ node' \in NodeType
          /\ node'.registered = n.registered /\ node'.epoch = n.epoch /\ node'.udp = n.udp
          /\ VideoCoherent(node') /\ HasRetry(node')
      BY <2>1, <2>2, StartVideoKeeps DEF n
    <2>4. TypeOK' /\ vt' = "idle" /\ "Connecting" \notin {ex, ex'}
      BY <1>17, <1>q, <2>3 DEF FinishVideoRestart
    <2>5. NegotiatingHasRetry'
      BY <2>3 DEF NegotiatingHasRetry
    <2>6. QED BY <1>k, <2>2, <2>3, <2>4, <2>5
  <1>18. CASE HandshakeTimer
    <2> DEFINE c == Cancel(node, {"handshake"})
    <2>1. Like(c, node) /\ c.state = node.state /\ c.timers = node.timers \ {"handshake"}
      BY <1>0, CancelKeeps
    <2>2. c \in NodeType /\ node' = HandshakeReady(c)
      BY <1>18, <2>1 DEF HandshakeTimer, Like, LikeWithUdp
    <2> HIDE DEF c
    <2>3. Like(node', c) /\ (node' = c \/ node'.state = "Pairing")
      BY <2>2, HandshakeReadyKeeps
    <2>4. Like(node', node)
      BY <2>1, <2>3 DEF Like, LikeWithUdp
    <2>5. TypeOK'
      BY <1>18, <1>q, <2>4 DEF HandshakeTimer, Like, LikeWithUdp, Invariant, TypeOK
    <2>6. QED BY <1>18, <1>l, <2>1, <2>3, <2>4, <2>5 DEF HandshakeTimer
  <1>19. CASE TelemetryTimer
    <2>1. Like(node', node) /\ node'.state = node.state /\ node'.timers = node.timers
      BY <1>0, <1>19 DEF TelemetryTimer, Like, LikeWithUdp, NodeType
    <2>2. TypeOK'
      BY <1>19, <1>q, <2>1 DEF TelemetryTimer, Like, LikeWithUdp, Invariant, TypeOK
    <2>3. QED BY <1>19, <1>l, <2>1, <2>2 DEF TelemetryTimer
  <1>20. CASE OnSpsPpsCaptured
    <2>1. /\ node' \in NodeType /\ node'.sps /\ node'.video
          /\ node'.registered = node.registered /\ node'.epoch = node.epoch
          /\ node'.udp = node.udp /\ node'.state = node.state /\ node'.timers = node.timers
      BY <1>0, <1>20 DEF OnSpsPpsCaptured, NodeType
    <2>2. TypeOK' /\ ex' = ex
      BY <1>20, <1>q, <2>1 DEF OnSpsPpsCaptured, Invariant, TypeOK
    <2>3. NegotiatingHasRetry'
      BY <1>20, <2>1 DEF OnSpsPpsCaptured, Invariant, NegotiatingHasRetry
    <2>4. QED BY <1>k, <2>1, <2>2, <2>3
  \* The steps of the encoder thread inside tryAdvanceNegotiation.
  <1>21. ASSUME node' \in NodeType, vt # "idle", vt' # vt,
                vt' \in {"idle", "audio", "run", "set", "start"},
                node'.registered = node.registered, node'.epoch = node.epoch,
                node'.udp = node.udp, node'.video = node.video, node'.sps = node.sps,
                UNCHANGED <<queue, ex>>,
                HasRetry(node') \/ vt' = "set"
                  \/ (vt # "set" /\ node'.state = node.state /\ node'.timers = node.timers)
         PROVE  Invariant'
    <2>1. TypeOK' /\ ex' = ex
      BY <1>21, <1>q DEF Invariant, TypeOK
    <2>2. node'.video /\ node'.sps
      BY <1>21 DEF Invariant
    <2>3. NegotiatingHasRetry'
      BY <1>21, <2>2 DEF Invariant, NegotiatingHasRetry
    <2>4. QED BY <1>21, <1>k, <2>1, <2>2, <2>3
  <1>22. CASE EncoderPublishVideoConfig
    <2>1. CASE node' = PublishVideoConfig(node) /\ vt' = "audio"
      <3>1. /\ node' \in NodeType
            /\ node'.registered = node.registered /\ node'.epoch = node.epoch
            /\ node'.udp = node.udp /\ node'.video = node.video /\ node'.sps = node.sps
            /\ node'.state = node.state /\ node'.timers = node.timers
        BY <1>0, <2>1 DEF PublishVideoConfig, NodeType
      <3>2. QED BY <1>21, <1>22, <2>1, <3>1 DEF EncoderPublishVideoConfig
    <2>2. CASE node' = Arm(node, "neg") /\ vt' = "idle"
      <3>1. Like(node', node) /\ HasRetry(node')
        BY <1>0, <2>2, ArmKeeps DEF Timers
      <3>2. QED BY <1>21, <1>22, <2>2, <3>1 DEF EncoderPublishVideoConfig, Like, LikeWithUdp
    <2>3. QED BY <1>22, <2>1, <2>2 DEF EncoderPublishVideoConfig
  <1>23. CASE EncoderPublishAudioConfig
    <2>1. CASE node' = PublishAudioConfig(node) /\ vt' = "run"
      <3>1. /\ node' \in NodeType
            /\ node'.registered = node.registered /\ node'.epoch = node.epoch
            /\ node'.udp = node.udp /\ node'.video = node.video /\ node'.sps = node.sps
            /\ node'.state = node.state /\ node'.timers = node.timers
        BY <1>0, <2>1 DEF PublishAudioConfig, NodeType
      <3>2. QED BY <1>21, <1>23, <2>1, <3>1 DEF EncoderPublishAudioConfig
    <2>2. CASE node' = Arm(node, "neg") /\ vt' = "idle"
      <3>1. Like(node', node) /\ HasRetry(node')
        BY <1>0, <2>2, ArmKeeps DEF Timers
      <3>2. QED BY <1>21, <1>23, <2>2, <3>1 DEF EncoderPublishAudioConfig, Like, LikeWithUdp
    <2>3. QED BY <1>23, <2>1, <2>2 DEF EncoderPublishAudioConfig
  <1>24. CASE EncoderStopRetryTimer
    <2>1. Like(node', node)
      BY <1>0, <1>24, CancelKeeps DEF EncoderStopRetryTimer
    <2>2. QED BY <1>21, <1>24, <2>1 DEF EncoderStopRetryTimer, Like, LikeWithUdp
  <1>25. CASE EncoderEnterRunning
    <2>1. Like(node', node) /\ HasRetry(node')
      BY <1>0, <1>25, SetStateKeeps DEF EncoderEnterRunning, States
    <2>2. QED BY <1>21, <1>25, <2>1 DEF EncoderEnterRunning, Like, LikeWithUdp
  <1>26. CASE EncoderStartAudio
    <2>1. /\ node' \in NodeType
          /\ node'.registered = node.registered /\ node'.epoch = node.epoch
          /\ node'.udp = node.udp /\ node'.video = node.video /\ node'.sps = node.sps
          /\ node'.state = node.state /\ node'.timers = node.timers
      BY <1>0, <1>26 DEF EncoderStartAudio, AudioStart, NodeType
    <2>2. QED BY <1>21, <1>26, <2>1 DEF EncoderStartAudio
  \* The network: work is posted, the handshake completes or is lost.
  <1>27. ASSUME NEW w \in Work, Post(w), Like(node', node), node'.state = node.state,
                node'.timers = node.timers, UNCHANGED <<ex, vt>>
         PROVE  Invariant'
    <2>1. queue' \in Seq(Work) /\ Len(queue') <= MaxQueue
      BY <1>0, <1>27, SessionConstants DEF SessionConstants, Post
    <2>2. TypeOK'
      BY <1>27, <2>1 DEF Like, LikeWithUdp, Invariant, TypeOK
    <2>3. QED BY <1>27, <1>l, <2>2
  <1>28. CASE OnSignalingEvent
    <2>1. Like(node', node) /\ node' = node
      BY <1>0, <1>28 DEF OnSignalingEvent, Like, LikeWithUdp
    <2>2. QED BY <1>27, <1>28, <2>1 DEF OnSignalingEvent
  <1>29. CASE OnGrpcStreamEnd
    <2>1. Like(node', node) /\ node'.state = node.state /\ node'.timers = node.timers
      BY <1>0, <1>29, Zero DEF OnGrpcStreamEnd, Like, LikeWithUdp, NodeType
    <2>2. [op |-> "STREAM_END"] \in Work
      BY DEF Work
    <2>3. QED BY <1>27, <1>29, <2>1, <2>2 DEF OnGrpcStreamEnd
  <1>30. CASE UdpAck
    <2>1. Like(node', node) /\ node'.state = node.state /\ node'.timers = node.timers
      BY <1>0, <1>30 DEF UdpAck, Like, LikeWithUdp, NodeType
    <2>2. TypeOK'
      BY <1>30, <1>q, <2>1 DEF UdpAck, Like, LikeWithUdp, Invariant, TypeOK
    <2>3. QED BY <1>30, <1>l, <2>1, <2>2 DEF UdpAck
  <1>31. CASE OnUdpPeerLost
    <2>1. Like(node', node) /\ node'.state = node.state /\ node'.timers = node.timers
      BY <1>0, <1>31 DEF OnUdpPeerLost, Like, LikeWithUdp, NodeType
    <2>2. [op |-> "PEER_LOST"] \in Work
      BY DEF Work
    <2>3. QED BY <1>27, <1>31, <2>1, <2>2 DEF OnUdpPeerLost
  <1>32. CASE UNCHANGED vars
    <2>1. Like(node', node) /\ node' = node
      BY <1>0, <1>32 DEF vars, Like, LikeWithUdp
    <2>2. TypeOK'
      BY <1>0, <1>32, <1>q DEF vars, Invariant, TypeOK
    <2>3. QED BY <1>32, <1>l, <2>1, <2>2 DEF vars
  <1>33. QED
    BY <1>1, <1>2, <1>3, <1>4, <1>5, <1>7, <1>8, <1>9, <1>10, <1>11, <1>12, <1>13, <1>14,
       <1>15, <1>16, <1>17, <1>18, <1>19, <1>20, <1>22, <1>23, <1>24, <1>25, <1>26, <1>28,
       <1>29, <1>30, <1>31, <1>32
    DEF Next, Executor, Encoder, Network

\* The invariant holds in every reachable state.
THEOREM SessionInvariant == Spec => []Invariant
  BY InitInvariant, NextInvariant, PTL DEF Spec

\* Type correctness: the node keeps its types and the work queue its bound.
THEOREM TypeCorrect == Spec => []TypeOK
  <1>1. Invariant => TypeOK
    BY DEF Invariant
  <1>2. QED BY <1>1, SessionInvariant, PTL

\* The transport that exists was started with the session id of the current
\* registration: onHeartbeat and teardownActiveSession never let one survive.
THEOREM TransportBoundToSession == Spec => []UdpBoundToSession
  <1>1. Invariant => UdpBoundToSession
    BY DEF Invariant
  <1>2. QED BY <1>1, SessionInvariant, PTL

\* video_config_sent_ describes the encoder that is running, although it is set
\* by two threads and cleared by one.
THEOREM ConfigMatchesVideo == Spec => []ConfigDescribesRunningVideo
  <1>1. Invariant => ConfigDescribesRunningVideo
    BY DEF Invariant, VideoCoherent, ConfigDescribesRunningVideo
  <1>2. QED BY <1>1, SessionInvariant, PTL

\* A negotiation with a running video is never left without its retry timer.
THEOREM NegotiationRetried == Spec => []NegotiatingHasRetry
  <1>1. Invariant => NegotiatingHasRetry
    BY DEF Invariant
  <1>2. QED BY <1>1, SessionInvariant, PTL

-----------------------------------------------------------------------------
(***************************************************************************)
(* The second invariant.  A handler that tears the session down leaves the *)
(* negotiation before it blocks in the join, and no other handler runs     *)
(* until the encoder thread has left tryAdvanceNegotiation: so the thread  *)
(* finds the configurations it has published for as long as the session it *)
(* finishes is negotiating, whoever is negotiating by then.                *)
(***************************************************************************)

\* The handlers that are blocked in the join of a teardown.
Joins == {"Connecting", "Registered", "Pairing"}

\* What holds of the node at any point of a handler.
Loose(n) ==
    /\ n \in NodeType /\ VideoCoherent(n)
    /\ n.ready => n.udp # 0
    /\ n.telemetry => n.registered

Sound(n) == Loose(n) /\ (n.state = "Negotiating" => n.peer # NoPeer)

Negotiated(n) == n.peer # NoPeer /\ n.video /\ n.cfg # 0 /\ n.acfg # 0

\* How far the encoder thread is: what it has published is lost to it only
\* when a teardown waits for it.
EncoderPublished ==
    /\ vt \in {"audio", "run", "set"} => node.cfg # 0
    /\ vt \in {"run", "set"} /\ ex \notin Joins => node.acfg # 0

NegotiationInvariant ==
    /\ Sound(node)
    /\ ex \in Joins => node.state # "Negotiating"
    /\ EncoderPublished
    /\ node.epoch = 0 => Init

-----------------------------------------------------------------------------
(***************************************************************************)
(* The functions that handlers are composed of, one lemma each.            *)
(***************************************************************************)

\* m differs from n only in timers, transport, streams and flags.
Same(m, n) ==
    /\ Loose(m)
    /\ m.state = n.state /\ m.peer = n.peer /\ m.video = n.video
    /\ m.cfg = n.cfg /\ m.acfg = n.acfg
    /\ m.registered = n.registered /\ m.epoch = n.epoch

\* m is n moved to state s.
Moved(m, n, s) ==
    /\ Loose(m) /\ m.state = s
    /\ m.cfg = n.cfg /\ m.acfg = n.acfg
    /\ m.registered = n.registered /\ m.epoch = n.epoch

\* m is sound, forgets no configuration of n, and is Running only if n was or
\* its negotiation is complete.
Follows(m, n) ==
    /\ Sound(m) /\ m.registered = n.registered /\ m.epoch = n.epoch
    /\ n.cfg # 0 => m.cfg # 0
    /\ n.acfg # 0 => m.acfg # 0
    /\ m.state = "Running" => n.state = "Running" \/ Negotiated(m)

\* What leaves the state alone follows.
LEMMA SameFollows ==
    ASSUME NEW n, Sound(n), NEW m, Same(m, n)
    PROVE  Follows(m, n)
  BY DEF Same, Follows, Sound

\* It may come after any other part of a handler.
LEMMA FollowsSame ==
    ASSUME NEW n, NEW m, Follows(m, n), NEW k, Same(k, m)
    PROVE  Follows(k, n)
  BY DEF Same, Follows, Sound, Negotiated

\* A node outside of a negotiation needs no peer.
LEMMA MovedFollows ==
    ASSUME NEW n, NEW m, NEW s \in Joins, Moved(m, n, s)
    PROVE  Follows(m, n)
  BY DEF Moved, Follows, Sound, Joins

\* Arming a timer.
LEMMA ArmSame ==
    ASSUME NEW n, Loose(n), NEW t \in Timers
    PROVE  Same(Arm(n, t), n)
  BY DEF Arm, Same, Loose, VideoCoherent, NodeType

\* Cancelling timers.
LEMMA CancelSame ==
    ASSUME NEW n, Loose(n), NEW ts
    PROVE  Same(Cancel(n, ts), n)
  BY DEF Cancel, Same, Loose, VideoCoherent, NodeType

\* Telemetry is switched on only for a registered node.
LEMMA TelemetrySame ==
    ASSUME NEW n, Loose(n)
    PROVE  Same(UpdateRobotTelemetryLifecycle(n), n)
  BY DEF UpdateRobotTelemetryLifecycle, IsRobotTelemetryOnline, Same, Loose, VideoCoherent,
         NodeType

\* Opening the event stream.
LEMMA StartEventStreamSame ==
    ASSUME NEW n, Loose(n)
    PROVE  Same(StartEventStream(n), n)
  BY DEF StartEventStream, Same, Loose, VideoCoherent, NodeType

\* The manifest.
LEMMA ManifestSame ==
    ASSUME NEW n, Loose(n), NEW b \in BOOLEAN
    PROVE  Same([n EXCEPT !.manifest = b], n)
  BY DEF Same, Loose, VideoCoherent, NodeType

\* The flag that onUdpHandshakeReady has run.
LEMMA FiredSame ==
    ASSUME NEW n, Loose(n), NEW b \in BOOLEAN
    PROVE  Same([n EXCEPT !.fired = b], n)
  BY DEF Same, Loose, VideoCoherent, NodeType

\* A transport begins without a handshake.
LEMMA UdpStartSame ==
    ASSUME NEW n, Loose(n)
    PROVE  Same(UdpStart(n), n)
  BY DEF UdpStart, Arm, Same, Loose, VideoCoherent, NodeType, Timers

\* A transport that ends takes its handshake with it.
LEMMA UdpStopSame ==
    ASSUME NEW n, Loose(n)
    PROVE  Same(UdpStop(n), n)
  BY Zero DEF UdpStop, Cancel, Same, Loose, VideoCoherent, NodeType, Timers

\* resetSession forgets the handshake.
LEMMA ResetSessionSame ==
    ASSUME NEW n, Loose(n)
    PROVE  Same(ResetSession(n), n)
  <1> DEFINE r == [n EXCEPT !.ready = FALSE, !.fired = FALSE]
  <1>1. Same(r, n)
    BY DEF Same, Loose, VideoCoherent, NodeType
  <1> HIDE DEF r
  <1>2. Same(Arm(r, "handshake"), r)
    BY <1>1, ArmSame DEF Same, Timers
  <1>3. Same(n, n)
    BY DEF Same
  <1>4. ResetSession(n) \in {n, Arm(r, "handshake")}
    BY DEF ResetSession, r
  <1>5. QED BY <1>1, <1>2, <1>3, <1>4 DEF Same

\* The uplink.
LEMMA AudioStartSame ==
    ASSUME NEW n, Loose(n), NEW ok
    PROVE  Same(AudioStart(n, ok), n)
  BY DEF AudioStart, Same, Loose, VideoCoherent, NodeType

\* setState.
LEMMA SetStateMoves ==
    ASSUME NEW n, Loose(n), NEW s \in States
    PROVE  Moved(SetState(n, s), n, s) /\ SetState(n, s).peer = n.peer
           /\ SetState(n, s).video = n.video
  BY DEF SetState, Moved, Loose, VideoCoherent, NodeType

\* enterPairingState.
LEMMA EnterPairingMoves ==
    ASSUME NEW n, Loose(n)
    PROVE  Moved(EnterPairingState(n), n, "Pairing")
  <1> DEFINE s == SetState(n, "Pairing")
             m == StartEventStream(s)
  <1>1. Moved(s, n, "Pairing")
    BY SetStateMoves DEF States
  <1> HIDE DEF s
  <1>2. Same(m, s)
    BY <1>1, StartEventStreamSame DEF Moved
  <1> HIDE DEF m
  <1>3. Same(Arm(m, "pair"), m) /\ Same(Cancel(m, {"pair"}), m)
    BY <1>2, ArmSame, CancelSame DEF Same, Timers
  <1>4. EnterPairingState(n) \in {Arm(m, "pair"), Cancel(m, {"pair"})}
    BY DEF EnterPairingState, m, s
  <1>5. QED BY <1>1, <1>2, <1>3, <1>4 DEF Same, Moved

\* completeRegisteredSetup starts a transport at most.
LEMMA CompleteRegisteredSetupSame ==
    ASSUME NEW n, Loose(n), NEW ok
    PROVE  Same(CompleteRegisteredSetup(n, ok), n)
  <1> DEFINE m == [n EXCEPT !.manifest = n.manifest \/ "manifest" \in ok]
             started == IF m.udp = 0 THEN UdpStart(m) ELSE m
             c == Cancel(started, {"setup"})
  <1>1. Same(m, n)
    BY ManifestSame
  <1> HIDE DEF m
  <1>2. Same(started, n)
    BY <1>1, UdpStartSame DEF Same
  <1> HIDE DEF started
  <1>3. Same(c, n)
    BY <1>2, CancelSame DEF Same
  <1> HIDE DEF c
  <1>4. Same(UpdateRobotTelemetryLifecycle(c), n)
    BY <1>3, TelemetrySame DEF Same
  <1>5. Same(Arm(m, "setup"), n)
    BY <1>1, ArmSame DEF Same, Timers
  <1>6. Same(Cancel(n, {"setup"}), n)
    BY CancelSame
  <1>7. CompleteRegisteredSetup(n, ok) \in
          {Cancel(n, {"setup"}), Arm(m, "setup"), UpdateRobotTelemetryLifecycle(c)}
    BY DEF CompleteRegisteredSetup, m, started, c
  <1>8. QED BY <1>4, <1>5, <1>6, <1>7

\* A new registration leaves a negotiation that stale work has begun.
LEMMA OnGrpcRegisteredMoves ==
    ASSUME NEW n, Loose(n), NEW ok
    PROVE  Moved(OnGrpcRegistered(n, ok), n, "Registered")
  <1> DEFINE s == SetState(n, "Registered")
             c == Cancel(s, {"neg", "pair", "setup"})
             m == [c EXCEPT !.manifest = FALSE]
  <1>1. Moved(s, n, "Registered")
    BY SetStateMoves DEF States
  <1> HIDE DEF s
  <1>2. Same(c, s)
    BY <1>1, CancelSame DEF Moved
  <1> HIDE DEF c
  <1>3. Same(m, c)
    BY <1>2, ManifestSame DEF Same
  <1> HIDE DEF m
  <1>4. Same(CompleteRegisteredSetup(m, ok), m)
    BY <1>3, CompleteRegisteredSetupSame DEF Same
  <1>5. QED BY <1>1, <1>2, <1>3, <1>4 DEF OnGrpcRegistered, Same, Moved, s, c, m

\* publishVideoConfig of a node whose parameter sets are cached.
LEMMA PublishVideoFollows ==
    ASSUME NEW n, Sound(n), n.sps, n.epoch # 0
    PROVE  LET m == PublishVideoConfig(n)
           IN  /\ Follows(m, n) /\ m.cfg # 0 /\ m.state = n.state /\ m.peer = n.peer
               /\ m.video = n.video /\ m.acfg = n.acfg
  BY DEF PublishVideoConfig, Follows, Sound, Loose, VideoCoherent, NodeType

\* publishAudioConfig.
LEMMA PublishAudioFollows ==
    ASSUME NEW n, Sound(n), n.epoch # 0
    PROVE  LET m == PublishAudioConfig(n)
           IN  /\ Follows(m, n) /\ m.acfg # 0 /\ m.state = n.state /\ m.peer = n.peer
               /\ m.video = n.video /\ m.cfg = n.cfg
  BY DEF PublishAudioConfig, Follows, Sound, Loose, VideoCoherent, NodeType

\* tryAdvanceNegotiation, run by a handler, ends in Running only when the
\* negotiation is complete.
LEMMA TryAdvanceNegotiationFollows ==
    ASSUME NEW n, Sound(n), n.epoch # 0, NEW ok
    PROVE  Follows(TryAdvanceNegotiation(n, ok), n)
  <1> DEFINE v == PublishVideoConfig(n)
             a == PublishAudioConfig(v)
             r == SetState(a, "Running")
             c == Cancel(r, {"neg"})
  <1>1. Follows(n, n)
    BY DEF Follows
  <1>2. Follows(Arm(n, "neg"), n)
    BY ArmSame, SameFollows DEF Timers, Sound
  <1>3. CASE n.state = "Negotiating" /\ VideoConfigPublished(n, ok)
    <2>1. n.sps /\ n.video /\ n.peer # NoPeer
      BY <1>3 DEF VideoConfigPublished, Sound, Loose, VideoCoherent
    <2>2. /\ Follows(v, n) /\ v.cfg # 0 /\ v.state = "Negotiating" /\ v.peer # NoPeer
          /\ v.video /\ v.epoch # 0
      BY <1>3, <2>1, PublishVideoFollows DEF Follows
    <2> HIDE DEF v
    <2>3. Follows(Arm(v, "neg"), n)
      <3>1. Loose(v)
        BY <2>2 DEF Follows, Sound
      <3>2. Same(Arm(v, "neg"), v)
        BY <3>1, ArmSame DEF Timers
      <3>3. QED BY <2>2, <3>2, FollowsSame
    <2>4. /\ Follows(a, v) /\ a.cfg # 0 /\ a.acfg # 0 /\ a.peer # NoPeer /\ a.video
      BY <2>2, PublishAudioFollows DEF Follows
    <2> HIDE DEF a
    <2>5. Moved(r, a, "Running") /\ Negotiated(r)
      BY <2>4, SetStateMoves DEF Follows, Sound, Moved, Negotiated, States
    <2> HIDE DEF r
    <2>6. Follows(r, n)
      BY <2>2, <2>4, <2>5 DEF Follows, Sound, Moved, Negotiated
    <2>7. Follows(c, n)
      BY <2>6, CancelSame, FollowsSame DEF Follows, Sound
    <2> HIDE DEF c
    <2>8. Follows(AudioStart(c, ok), n)
      BY <2>7, AudioStartSame, FollowsSame DEF Follows, Sound
    <2>9. TryAdvanceNegotiation(n, ok) \in {Arm(v, "neg"), AudioStart(c, ok)}
      BY <1>3 DEF TryAdvanceNegotiation, EnterRunning, v, a, r, c
    <2>10. QED BY <2>3, <2>8, <2>9
  <1>4. CASE ~(n.state = "Negotiating" /\ VideoConfigPublished(n, ok))
    <2>1. TryAdvanceNegotiation(n, ok) \in {n, Arm(n, "neg")}
      BY <1>4 DEF TryAdvanceNegotiation
    <2>2. QED BY <1>1, <1>2, <2>1
  <1>5. QED BY <1>3, <1>4

\* startVideoAndNegotiate starts the video before it negotiates.
LEMMA StartVideoFollows ==
    ASSUME NEW n, Sound(n), n.epoch # 0, NEW ok
    PROVE  /\ Follows(StartVideoAndNegotiate(n, ok), n)
           /\ n.state = "Negotiating" /\ StartVideoAndNegotiate(n, ok).state = "Running" =>
                Negotiated(StartVideoAndNegotiate(n, ok))
  <1> DEFINE v == [n EXCEPT !.video = TRUE]
             m == Arm(v, "neg")
  <1>1. Follows(v, n) /\ v.state = n.state
    BY DEF Follows, Sound, Loose, VideoCoherent, NodeType
  <1> HIDE DEF v
  <1>2. Follows(m, n) /\ m.state = n.state
    BY <1>1, ArmSame, FollowsSame DEF Follows, Sound, Same, Timers
  <1> HIDE DEF m
  <1>3. Follows(TryAdvanceNegotiation(m, ok), m)
    BY <1>2, TryAdvanceNegotiationFollows DEF Follows
  <1>4. Follows(TryAdvanceNegotiation(m, ok), n)
    BY <1>2, <1>3 DEF Follows
  <1>5. Follows(n, n)
    BY DEF Follows
  <1>6. StartVideoAndNegotiate(n, ok) \in {n, m, TryAdvanceNegotiation(m, ok)}
    BY DEF StartVideoAndNegotiate, m, v
  <1>7. Follows(StartVideoAndNegotiate(n, ok), n)
    BY <1>2, <1>4, <1>5, <1>6
  <1>8. QED BY <1>7 DEF Follows

\* The video stops; nothing else does.
LEMMA StopVideoSound ==
    ASSUME NEW n, Loose(n)
    PROVE  LET m == StopVideoAndReset(n)
           IN  /\ Loose(m) /\ m.state = n.state /\ m.peer = n.peer
               /\ m.registered = n.registered /\ m.epoch = n.epoch
  BY Zero DEF StopVideoAndReset, Loose, VideoCoherent, NodeType

\* A pairing begins with a peer, whatever the node did before.
LEMMA PairedFollows ==
    ASSUME NEW n, Sound(n), n.epoch # 0, NEW p \in Peers, NEW ok
    PROVE  Follows(Paired(n, p, ok), n)
  <1> DEFINE q == [n EXCEPT !.peer = p, !.state = "Negotiating"]
             c == Cancel(q, {"pair"})
             m == StartVideoAndNegotiate(c, ok)
  <1>1. p # NoPeer
    BY SessionConstants DEF SessionConstants
  <1>2. Follows(q, n) /\ q.state = "Negotiating"
    BY <1>1 DEF Follows, Sound, Loose, VideoCoherent, NodeType, States
  <1> HIDE DEF q
  <1>3. Follows(c, n) /\ c.state = "Negotiating"
    BY <1>2, CancelSame, FollowsSame DEF Follows, Sound, Same
  <1> HIDE DEF c
  <1>4. Follows(m, c) /\ (m.state = "Running" => Negotiated(m))
    BY <1>3, StartVideoFollows DEF Follows
  <1> HIDE DEF m
  <1>5. Follows(m, n)
    BY <1>3, <1>4 DEF Follows
  <1>6. QED BY <1>5 DEF Paired, m, c, q

\* Forgetting the peer.
LEMMA ClearPeerLoose ==
    ASSUME NEW n, Loose(n), NEW p
    PROVE  Moved(ClearPeer(n, p), n, n.state)
  BY DEF ClearPeer, Loose, Moved, VideoCoherent, NodeType

\* A rejection goes back to Pairing, whichever peer it forgets.
LEMMA RejectedMoves ==
    ASSUME NEW n, Loose(n), NEW p
    PROVE  Moved(Rejected(n, p), n, "Pairing")
  <1> DEFINE c == ClearPeer(n, p)
             m == SetState(c, "Pairing")
  <1>1. Moved(c, n, n.state)
    BY ClearPeerLoose
  <1> HIDE DEF c
  <1>2. Moved(m, c, "Pairing")
    BY <1>1, SetStateMoves DEF Moved, States
  <1> HIDE DEF m
  <1>3. Same(Arm(m, "pair"), m)
    BY <1>2, ArmSame DEF Moved, Timers
  <1>4. Rejected(n, p) \in {m, Arm(m, "pair")}
    BY DEF Rejected, c, m
  <1>5. QED BY <1>1, <1>2, <1>3, <1>4 DEF Same, Moved

\* The first half of a teardown leaves the negotiation and keeps the video and
\* its configuration.
LEMMA TeardownBeginLeaves ==
    ASSUME NEW n, n \in NodeType, VideoCoherent(n), n.ready => n.udp # 0, NEW target \in Joins
    PROVE  LET m == TeardownBegin(n, target)
           IN  /\ Loose(m) /\ m.state = target
               /\ m.cfg = n.cfg /\ m.registered = n.registered /\ m.epoch = n.epoch
  <1> DEFINE t == [n EXCEPT !.state = target, !.telemetry = FALSE, !.peer = NoPeer,
                            !.audio = FALSE, !.acfg = 0]
  <1>1. t \in NodeType
    BY Zero DEF NodeType, States, Joins
  <1>2. /\ Loose(t) /\ t.state = target
        /\ t.cfg = n.cfg /\ t.registered = n.registered /\ t.epoch = n.epoch
    BY <1>1 DEF Loose, VideoCoherent, NodeType
  <1> HIDE DEF t
  <1>3. Same(Cancel(t, {"neg", "pair"}), t)
    BY <1>2, CancelSame
  <1>4. QED BY <1>2, <1>3 DEF TeardownBegin, Same, t

\* A lost registration begins its teardown.
LEMMA HeartbeatFailLeaves ==
    ASSUME NEW n, Loose(n)
    PROVE  LET m == OnGrpcHeartbeatFail(n)
           IN  Loose(m) /\ m.state = "Connecting" /\ m.cfg = n.cfg /\ m.epoch = n.epoch
  <1> DEFINE r == [n EXCEPT !.registered = FALSE, !.hb = 0, !.stream = 0, !.manifest = FALSE]
             c == Cancel(r, {"setup"})
             Lost(x) == /\ x \in NodeType /\ VideoCoherent(x) /\ (x.ready => x.udp # 0)
                        /\ x.cfg = n.cfg /\ x.epoch = n.epoch
  <1>1. Lost(r)
    BY Zero DEF Loose, VideoCoherent, NodeType
  <1> HIDE DEF r
  <1>2. Lost(c)
    BY <1>1 DEF Cancel, VideoCoherent, NodeType
  <1> HIDE DEF c
  <1>3. QED BY <1>2, TeardownBeginLeaves DEF OnGrpcHeartbeatFail, Joins, r, c

\* The second half of a teardown does not begin a negotiation.
LEMMA TeardownEndLeaves ==
    ASSUME NEW n, Loose(n), NEW target \in Joins
    PROVE  LET m == TeardownEnd(n, target)
           IN  /\ Loose(m) /\ m.state \in {n.state, "Pairing"}
               /\ m.registered = n.registered /\ m.epoch = n.epoch
  <1> DEFINE stopped == StopVideoAndReset(n)
             cleared == [stopped EXCEPT !.manifest = FALSE]
             c       == Cancel(cleared, {"setup"})
             reset   == IF target = "Connecting" THEN UdpStop(c) ELSE ResetSession(stopped)
             pairing == IF target = "Pairing" THEN EnterPairingState(reset) ELSE reset
             updated == UpdateRobotTelemetryLifecycle(pairing)
             Out(x)  == /\ Loose(x) /\ x.state \in {n.state, "Pairing"}
                        /\ x.registered = n.registered /\ x.epoch = n.epoch
  <1>1. Out(stopped)
    BY StopVideoSound
  <1> HIDE DEF stopped
  <1>2. Out(cleared)
    BY <1>1, ManifestSame DEF Same
  <1> HIDE DEF cleared
  <1>3. Out(c)
    BY <1>2, CancelSame DEF Same
  <1> HIDE DEF c
  <1>4. Out(reset)
    BY <1>1, <1>3, UdpStopSame, ResetSessionSame DEF Same
  <1> HIDE DEF reset
  <1>5. Out(pairing)
    BY <1>4, EnterPairingMoves DEF Moved
  <1> HIDE DEF pairing
  <1>6. Out(updated)
    BY <1>5, TelemetrySame DEF Same
  <1> HIDE DEF updated
  <1>7. Out(EnterPairingState(updated))
    BY <1>6, EnterPairingMoves DEF Moved
  <1>8. TeardownEnd(n, target) \in {updated, EnterPairingState(updated)}
    BY DEF TeardownEnd, stopped, cleared, c, reset, pairing, updated
  <1>9. QED BY <1>6, <1>7, <1>8

\* onUdpHandshakeReady enters Pairing, once for each handshake.
LEMMA HandshakeReadyFollows ==
    ASSUME NEW n, Sound(n)
    PROVE  Follows(HandshakeReady(n), n)
  <1> DEFINE f == [n EXCEPT !.fired = TRUE]
             u == UpdateRobotTelemetryLifecycle(f)
  <1>1. Same(f, n)
    BY FiredSame DEF Sound
  <1> HIDE DEF f
  <1>2. Same(u, n)
    BY <1>1, TelemetrySame DEF Same
  <1> HIDE DEF u
  <1>3. Moved(EnterPairingState(u), n, "Pairing")
    BY <1>2, EnterPairingMoves DEF Same, Moved
  <1>4. Follows(EnterPairingState(u), n)
    BY <1>3, MovedFollows DEF Joins
  <1>5. Follows(n, n)
    BY DEF Follows
  <1>6. HandshakeReady(n) \in {n, EnterPairingState(u)}
    BY DEF HandshakeReady, f, u
  <1>7. QED BY <1>4, <1>5, <1>6

-----------------------------------------------------------------------------
(***************************************************************************)
(* Every step preserves the second invariant.                              *)
(***************************************************************************)

\* The initial state satisfies the second invariant.
LEMMA InitNegotiation == Init => NegotiationInvariant
  <1> SUFFICES ASSUME Init PROVE NegotiationInvariant OBVIOUS
  <1>1. node \in NodeType
    BY Zero DEF Init, NodeType, States
  <1>2. Sound(node)
    BY <1>1 DEF Init, Sound, Loose, VideoCoherent
  <1>3. EncoderPublished /\ ex \notin Joins
    BY DEF Init, EncoderPublished, Joins
  <1>4. QED BY <1>2, <1>3 DEF NegotiationInvariant

\* Nothing but a registration can happen first: no timer is armed, no thread
\* runs and no work is queued.
LEMMA FirstStepRegisters ==
    ASSUME Init, Next
    PROVE  TryRegister
  <1>1. ~RegisteredSetupRetryTimer /\ ~PairingRetryTimer /\ ~NegotiationRetryTimer
        /\ ~HandshakeTimer
    BY DEF Init, RegisteredSetupRetryTimer, PairingRetryTimer, NegotiationRetryTimer,
           HandshakeTimer
  <1>2. ~HeartbeatOk /\ ~HeartbeatTransportFailure /\ ~HeartbeatFail /\ ~TelemetryTimer
    BY DEF Init, HeartbeatOk, HeartbeatTransportFailure, HeartbeatFail, TelemetryTimer
  <1>3. ~HandleRequest /\ ~HandleAccept /\ ~HandleReject /\ ~HandleUnpair
        /\ ~HandleHelloRequest /\ ~HandleStreamEnd /\ ~HandleUdpPeerLost
    BY DEF Init, HandleRequest, HandleAccept, HandleReject, HandleUnpair, HandleHelloRequest,
           HandleStreamEnd, HandleUdpPeerLost, TakeWork
  <1>4. ~FinishTeardown /\ ~FinishVideoRestart
    BY DEF Init, FinishTeardown, FinishVideoRestart
  <1>5. ~Encoder
    BY DEF Init, Encoder, OnSpsPpsCaptured, EncoderPublishVideoConfig,
           EncoderPublishAudioConfig, EncoderStopRetryTimer, EncoderEnterRunning,
           EncoderStartAudio
  <1>6. ~Network
    BY DEF Init, Network, OnSignalingEvent, OnGrpcStreamEnd, UdpAck, OnUdpPeerLost
  <1>7. QED BY <1>1, <1>2, <1>3, <1>4, <1>5, <1>6 DEF Next, Executor

\* A step that completes a negotiation completes all of it.
CompletesNegotiation ==
    node.state = "Negotiating" /\ node'.state = "Running" => Negotiated(node')

\* Every step preserves the second invariant, and completes a negotiation only
\* with a peer, a video and both configurations.
LEMMA NextNegotiation ==
    ASSUME Invariant, NegotiationInvariant, [Next]_vars
    PROVE  NegotiationInvariant' /\ CompletesNegotiation
  <1> DEFINE Goal == NegotiationInvariant' /\ CompletesNegotiation
  <1>0. /\ node \in NodeType /\ queue \in Seq(Work) /\ Sound(node) /\ Loose(node)
        /\ node.epoch \in Nat /\ node.hb \in Nat
        /\ node.ready => node.udp # 0
        /\ VideoCoherent(node)
    BY DEF Invariant, TypeOK, NegotiationInvariant, Sound, Loose, NodeType, Epochs
  \* A handler that returns, beside whatever step of the encoder thread.
  <1>h. ASSUME Follows(node', node), node.epoch # 0, vt' = vt, ex \notin Joins, ex' \notin Joins
        PROVE  Goal
    <2>1. EncoderPublished'
      BY <1>h DEF NegotiationInvariant, EncoderPublished, Follows
    <2>2. CompletesNegotiation
      BY <1>h DEF Follows, CompletesNegotiation
    <2>3. QED BY <1>h, <2>1, <2>2 DEF NegotiationInvariant, Follows
  \* A step beside whatever handler and whatever step of the encoder thread.
  <1>n. ASSUME Same(node', node), node.epoch # 0, UNCHANGED <<ex, vt>>
        PROVE  Goal
    <2>1. EncoderPublished'
      BY <1>n DEF NegotiationInvariant, EncoderPublished, Same
    <2>2. Sound(node')
      BY <1>0, <1>n DEF Sound, Same
    <2>3. CompletesNegotiation
      BY <1>n DEF Same, CompletesNegotiation
    <2>4. QED BY <1>n, <2>1, <2>2, <2>3 DEF NegotiationInvariant, Same
  \* A handler that begins a teardown.
  <1>b. ASSUME Loose(node'), node'.state \in Joins, node'.cfg = node.cfg,
               node'.epoch = node.epoch, node.epoch # 0, vt' = vt, ex' \in Joins
        PROVE  Goal
    <2>1. EncoderPublished'
      BY <1>b DEF NegotiationInvariant, EncoderPublished
    <2>2. Sound(node') /\ node'.state \notin {"Negotiating", "Running"}
      BY <1>b DEF Sound, Joins
    <2>3. QED BY <1>b, <2>1, <2>2 DEF NegotiationInvariant, CompletesNegotiation
  \* A handler that has joined the encoder thread.
  <1>j. ASSUME Sound(node'), node'.epoch = node.epoch, node.epoch # 0, vt' = "idle",
               ex' \notin Joins, CompletesNegotiation
        PROVE  Goal
    BY <1>j DEF NegotiationInvariant, EncoderPublished
  <1>f. Free => ex \notin Joins
    BY DEF Free, Joins
  <1>t. ASSUME NEW op, TakeWork(op)
        PROVE  /\ vt' = vt /\ ex \notin Joins /\ AfterItem \notin Joins
               /\ Head(queue) \in Work /\ Head(queue).op = op
    <2>1. vt' = vt /\ queue # <<>> /\ Head(queue).op = op /\ ex \in {"idle", "drain"}
      BY <1>t DEF TakeWork
    <2>2. Head(queue) \in Work
      BY <1>0, <2>1
    <2>3. QED BY <2>1, <2>2 DEF AfterItem, Joins
  <1>1. CASE TryRegister
    <2>1. PICK ok \in SUBSET {"manifest", "udpStart"} :
             node' = OnGrpcRegistered(
                       [node EXCEPT !.registered = TRUE, !.epoch = @ + 1, !.hb = 0], ok)
      BY <1>1 DEF TryRegister
    <2> DEFINE n == [node EXCEPT !.registered = TRUE, !.epoch = @ + 1, !.hb = 0]
    <2>2. node.epoch + 1 \in Epochs /\ node.epoch + 1 # 0
      BY <1>0, <1>1, SessionConstants DEF SessionConstants, Invariant, TryRegister, Epochs
    <2>3. vt' = vt /\ ex' = ex /\ ex \notin Joins
      BY <1>1, <1>f DEF TryRegister
    <2>4. /\ Loose(n) /\ n.cfg = node.cfg /\ n.acfg = node.acfg /\ n.epoch # 0
      BY <1>0, <2>2, Zero DEF Loose, VideoCoherent, NodeType
    <2> HIDE DEF n
    <2>5. Moved(node', n, "Registered")
      BY <2>1, <2>4, OnGrpcRegisteredMoves DEF n
    <2>6. EncoderPublished'
      BY <2>3, <2>4, <2>5 DEF NegotiationInvariant, EncoderPublished, Moved
    <2>7. CompletesNegotiation /\ Sound(node')
      BY <2>5 DEF CompletesNegotiation, Moved, Sound
    <2>8. QED BY <2>3, <2>4, <2>5, <2>6, <2>7 DEF NegotiationInvariant, Moved
  <1>2. CASE UNCHANGED vars
    <2>1. /\ node' = node /\ ex' = ex /\ vt' = vt /\ queue' = queue
      BY <1>2 DEF vars
    <2>2. EncoderPublished' /\ Sound(node')
      BY <1>0, <2>1 DEF NegotiationInvariant, EncoderPublished
    <2>3. node'.epoch = 0 => Init'
      BY <2>1 DEF NegotiationInvariant, Init
    <2>4. QED BY <2>1, <2>2, <2>3 DEF NegotiationInvariant, CompletesNegotiation
  \* Every other step has a registration before it.
  <1>3. ASSUME Next, ~TryRegister PROVE node.epoch # 0
    BY <1>3, FirstStepRegisters DEF NegotiationInvariant
  <1>4. CASE Next /\ ~TryRegister
    <2>0. node.epoch # 0
      BY <1>3, <1>4
    <2>1. CASE RegisteredSetupRetryTimer
      <3>1. Same(node', node)
        BY <1>0, <2>1, CompleteRegisteredSetupSame DEF RegisteredSetupRetryTimer
      <3>2. QED BY <1>n, <2>0, <2>1, <3>1 DEF RegisteredSetupRetryTimer
    <2>2. CASE HeartbeatOk
      <3>1. Same(node', node)
        BY <1>0, <2>2, Zero DEF HeartbeatOk, Same, Loose, VideoCoherent, NodeType
      <3>2. QED BY <1>n, <2>0, <2>2, <3>1 DEF HeartbeatOk
    <2>3. CASE HeartbeatTransportFailure
      <3>1. node.hb + 1 \in 0 .. HeartbeatLimit - 1
        BY <1>0, <2>3, SessionConstants DEF SessionConstants, HeartbeatTransportFailure
      <3>2. Same(node', node)
        BY <1>0, <2>3, <3>1
        DEF HeartbeatTransportFailure, Same, Loose, VideoCoherent, NodeType
      <3>3. QED BY <1>n, <2>0, <2>3, <3>2 DEF HeartbeatTransportFailure
    <2>4. CASE HeartbeatFail
      <3>1. /\ Loose(node') /\ node'.state = "Connecting" /\ node'.cfg = node.cfg
            /\ node'.epoch = node.epoch
        BY <1>0, <2>4, HeartbeatFailLeaves DEF HeartbeatFail
      <3>2. QED BY <1>b, <2>0, <2>4, <3>1 DEF HeartbeatFail, Joins
    \* The handlers of the work queue.
    <2>5. ASSUME NEW op \in PairOps, TakeWork(op) PROVE Head(queue).peer \in Peers
      BY <1>t, <2>5 DEF Work, PairOps
    <2>6. CASE HandleRequest
      <3>1. Head(queue).peer \in Peers
        BY <2>5, <2>6 DEF HandleRequest, PairOps
      <3>2. Follows(node, node)
        BY <1>0 DEF Follows
      <3>3. Follows(node', node)
        BY <1>0, <2>0, <2>6, <3>1, <3>2, PairedFollows DEF HandleRequest
      <3>4. QED BY <1>h, <1>t, <2>0, <2>6, <3>3 DEF HandleRequest
    <2>7. CASE HandleAccept
      <3>1. Head(queue).peer \in Peers
        BY <2>5, <2>7 DEF HandleAccept, PairOps
      <3>2. Follows(node', node)
        BY <1>0, <2>0, <2>7, <3>1, PairedFollows DEF HandleAccept
      <3>3. QED BY <1>h, <1>t, <2>0, <2>7, <3>2 DEF HandleAccept
    <2>8. CASE HandleReject
      <3>1. Follows(node', node)
        BY <1>0, <2>8, RejectedMoves, MovedFollows DEF HandleReject, Joins
      <3>2. QED BY <1>h, <1>t, <2>0, <2>8, <3>1 DEF HandleReject
    <2>9. CASE HandleUnpair
      <3> DEFINE c == ClearPeer(node, Head(queue).peer)
      <3>1. Moved(c, node, node.state)
        BY <1>0, ClearPeerLoose
      <3> HIDE DEF c
      <3>2. /\ Loose(TeardownBegin(c, "Pairing")) /\ TeardownBegin(c, "Pairing").state = "Pairing"
            /\ TeardownBegin(c, "Pairing").cfg = node.cfg
            /\ TeardownBegin(c, "Pairing").epoch = node.epoch
        BY <3>1, TeardownBeginLeaves DEF Moved, Loose, Joins
      <3>3. QED BY <1>b, <1>t, <2>0, <2>9, <3>2 DEF HandleUnpair, Joins, c
    <2>10. CASE HandleHelloRequest
      <3>1. Follows(node', node)
        BY <1>0, <2>10, ResetSessionSame, SameFollows DEF HandleHelloRequest
      <3>2. QED BY <1>h, <1>t, <2>0, <2>10, <3>1 DEF HandleHelloRequest
    <2>11. CASE HandleStreamEnd
      <3>1. /\ Loose(node') /\ node'.state = "Registered" /\ node'.cfg = node.cfg
            /\ node'.epoch = node.epoch
        BY <1>0, <2>11, TeardownBeginLeaves DEF HandleStreamEnd, Joins
      <3>2. QED BY <1>b, <1>t, <2>0, <2>11, <3>1 DEF HandleStreamEnd, Joins
    <2>12. CASE HandleUdpPeerLost
      <3>1. CASE node' = TeardownBegin(node, "Pairing") /\ ex' = "Pairing"
        <4>1. /\ Loose(node') /\ node'.state = "Pairing" /\ node'.cfg = node.cfg
              /\ node'.epoch = node.epoch
          BY <1>0, <3>1, TeardownBeginLeaves DEF Joins
        <4>2. QED BY <1>b, <1>t, <2>0, <2>12, <3>1, <4>1 DEF HandleUdpPeerLost, Joins
      <3>2. CASE node' = UpdateRobotTelemetryLifecycle(node) /\ ex' = AfterItem
        <4>1. Follows(node', node)
          BY <1>0, <3>2, TelemetrySame, SameFollows
        <4>2. QED BY <1>h, <1>t, <2>0, <2>12, <3>2, <4>1 DEF HandleUdpPeerLost
      <3>3. QED BY <2>12, <3>1, <3>2 DEF HandleUdpPeerLost
    \* The handlers that have joined the encoder thread.
    <2>13. CASE FinishTeardown
      <3>1. /\ vt' = "idle" /\ ex' \notin Joins /\ ex \in Joins /\ node' = TeardownEnd(node, ex)
            /\ node.state # "Negotiating"
        BY <2>13 DEF FinishTeardown, Joins, NegotiationInvariant
      <3>2. /\ Loose(node') /\ node'.state \in {node.state, "Pairing"}
            /\ node'.epoch = node.epoch
        BY <1>0, <3>1, TeardownEndLeaves
      <3>3. Sound(node') /\ CompletesNegotiation
        BY <3>1, <3>2 DEF Sound, CompletesNegotiation
      <3>4. QED BY <1>j, <2>0, <3>1, <3>2, <3>3
    <2>14. CASE FinishVideoRestart
      <3>1. PICK ok \in SUBSET MediaCalls :
               node' = StartVideoAndNegotiate(StopVideoAndReset(node), ok)
        BY <2>14 DEF FinishVideoRestart
      <3> DEFINE n == StopVideoAndReset(node)
      <3>2. Sound(n) /\ n.state = node.state /\ n.epoch = node.epoch
        BY <1>0, StopVideoSound DEF Sound
      <3> HIDE DEF n
      <3>3. Follows(node', n)
        BY <2>0, <3>1, <3>2, StartVideoFollows DEF n
      <3>4. Sound(node') /\ node'.epoch = node.epoch /\ CompletesNegotiation
        BY <3>2, <3>3 DEF Follows, CompletesNegotiation
      <3>5. vt' = "idle" /\ ex' \notin Joins
        BY <2>14 DEF FinishVideoRestart, Joins
      <3>6. QED BY <1>j, <2>0, <3>4, <3>5
    \* The timers.
    <2>15. CASE PairingRetryTimer
      <3>1. Same(node', node)
        BY <1>0, <2>15, CancelSame DEF PairingRetryTimer
      <3>2. QED BY <1>n, <2>0, <2>15, <3>1 DEF PairingRetryTimer
    <2>16. CASE NegotiationRetryTimer
      <3>1. /\ ex \notin Joins /\ ex' \notin Joins /\ vt' = vt
        BY <2>16, <1>f DEF NegotiationRetryTimer, Joins
      <3>2. Follows(node, node)
        BY <1>0 DEF Follows
      <3>3. Follows(Cancel(node, {"neg"}), node)
        BY <1>0, CancelSame, SameFollows
      <3>4. \A ok : /\ Follows(TryAdvanceNegotiation(node, ok), node)
                    /\ Follows(StartVideoAndNegotiate(node, ok), node)
        BY <1>0, <2>0, TryAdvanceNegotiationFollows, StartVideoFollows
      <3>5. Follows(node', node)
        BY <2>16, <3>2, <3>3, <3>4 DEF NegotiationRetryTimer
      <3>6. QED BY <1>h, <2>0, <3>1, <3>5
    <2>17. CASE HandshakeTimer
      <3> DEFINE c == Cancel(node, {"handshake"})
      <3>1. Same(c, node) /\ Sound(c)
        BY <1>0, CancelSame DEF Same, Sound
      <3> HIDE DEF c
      <3>2. Follows(HandshakeReady(c), c)
        BY <3>1, HandshakeReadyFollows
      <3>3. Follows(HandshakeReady(c), node)
        BY <3>1, <3>2 DEF Follows, Same
      <3>4. QED BY <1>f, <1>h, <2>0, <2>17, <3>3 DEF HandshakeTimer, c
    <2>18. CASE TelemetryTimer
      <3>1. Same(node', node)
        BY <1>0, <2>18 DEF TelemetryTimer, Same, Loose, VideoCoherent, NodeType
      <3>2. QED BY <1>n, <2>0, <2>18, <3>1 DEF TelemetryTimer
    \* The steps of the encoder thread, beside whatever handler.
    <2>19. CASE OnSpsPpsCaptured
      <3>1. Same(node', node)
        BY <1>0, <2>19 DEF OnSpsPpsCaptured, Same, Loose, VideoCoherent, NodeType
      <3>2. vt' \in {"publish", "idle"} /\ ex' = ex
        BY <2>19 DEF OnSpsPpsCaptured
      <3>3. EncoderPublished'
        BY <3>2 DEF EncoderPublished
      <3>4. Sound(node') /\ CompletesNegotiation
        BY <1>0, <3>1 DEF Sound, Same, CompletesNegotiation
      <3>5. QED BY <2>0, <3>1, <3>2, <3>3, <3>4 DEF NegotiationInvariant, Same
    <2>20. ASSUME Follows(node', node), node'.state = node.state, ex' = ex, EncoderPublished'
           PROVE  Goal
      BY <2>0, <2>20 DEF NegotiationInvariant, Follows, CompletesNegotiation
    <2>21. CASE EncoderPublishVideoConfig
      <3>1. ex' = ex /\ node.sps
        BY <2>21 DEF EncoderPublishVideoConfig, Invariant
      <3>2. CASE node' = PublishVideoConfig(node) /\ vt' = "audio"
        <4>1. Follows(node', node) /\ node'.cfg # 0 /\ node'.state = node.state
          BY <1>0, <2>0, <3>1, <3>2, PublishVideoFollows
        <4>2. EncoderPublished'
          BY <3>2, <4>1 DEF EncoderPublished
        <4>3. QED BY <2>20, <3>1, <4>1, <4>2
      <3>3. CASE node' = Arm(node, "neg") /\ vt' = "idle"
        <4>1. Follows(node', node) /\ node'.state = node.state
          BY <1>0, <3>3, ArmSame, SameFollows DEF Timers, Same
        <4>2. QED BY <2>20, <3>1, <3>3, <4>1 DEF EncoderPublished
      <3>4. QED BY <2>21, <3>2, <3>3 DEF EncoderPublishVideoConfig
    <2>22. CASE EncoderPublishAudioConfig
      <3>1. ex' = ex /\ node.cfg # 0
        BY <2>22 DEF EncoderPublishAudioConfig, NegotiationInvariant, EncoderPublished
      <3>2. CASE node' = PublishAudioConfig(node) /\ vt' = "run"
        <4>1. /\ Follows(node', node) /\ node'.acfg # 0 /\ node'.cfg # 0
              /\ node'.state = node.state
          BY <1>0, <2>0, <3>1, <3>2, PublishAudioFollows
        <4>2. EncoderPublished'
          BY <4>1 DEF EncoderPublished
        <4>3. QED BY <2>20, <3>1, <4>1, <4>2
      <3>3. CASE node' = Arm(node, "neg") /\ vt' = "idle"
        <4>1. Follows(node', node) /\ node'.state = node.state
          BY <1>0, <3>3, ArmSame, SameFollows DEF Timers, Same
        <4>2. QED BY <2>20, <3>1, <3>3, <4>1 DEF EncoderPublished
      <3>4. QED BY <2>22, <3>2, <3>3 DEF EncoderPublishAudioConfig
    <2>23. CASE EncoderStopRetryTimer
      <3>1. vt = "run" /\ vt' = "set" /\ ex' = ex
        BY <2>23 DEF EncoderStopRetryTimer
      <3>2. Same(node', node)
        BY <1>0, <2>23, CancelSame DEF EncoderStopRetryTimer
      <3>3. EncoderPublished'
        BY <3>1, <3>2 DEF NegotiationInvariant, EncoderPublished, Same
      <3>4. QED BY <1>0, <2>20, <3>1, <3>2, <3>3, SameFollows DEF Same
    <2>24. CASE EncoderEnterRunning
      <3>1. /\ vt = "set" /\ vt' = "start" /\ ex' = ex /\ node.video
        BY <2>24 DEF EncoderEnterRunning, Invariant
      <3>2. /\ Moved(node', node, "Running") /\ node'.peer = node.peer
            /\ node'.video = node.video
        BY <1>0, <2>24, SetStateMoves DEF EncoderEnterRunning, States
      <3>3. CompletesNegotiation
        BY <1>0, <3>1, <3>2
        DEF CompletesNegotiation, Negotiated, Moved, Sound, NegotiationInvariant,
            EncoderPublished
      <3>4. EncoderPublished' /\ Sound(node')
        BY <3>1, <3>2 DEF EncoderPublished, Sound, Moved
      <3>5. QED BY <2>0, <3>1, <3>2, <3>3, <3>4 DEF NegotiationInvariant, Moved
    <2>25. CASE EncoderStartAudio
      <3>1. vt' = "idle" /\ ex' = ex
        BY <2>25 DEF EncoderStartAudio
      <3>2. Same(node', node)
        BY <1>0, <2>25, AudioStartSame DEF EncoderStartAudio
      <3>3. QED BY <1>0, <2>20, <3>1, <3>2, SameFollows DEF Same, EncoderPublished
    \* The network, beside whatever handler and step of the encoder thread.
    <2>26. CASE Network
      <3>1. Same(node', node)
        BY <1>0, <2>26, Zero
        DEF Network, OnSignalingEvent, OnGrpcStreamEnd, UdpAck, OnUdpPeerLost, Same, Loose,
            VideoCoherent, NodeType
      <3>2. UNCHANGED <<ex, vt>>
        BY <2>26 DEF Network, OnSignalingEvent, OnGrpcStreamEnd, UdpAck, OnUdpPeerLost
      <3>3. QED BY <1>n, <2>0, <3>1, <3>2
    <2>27. QED
      BY <1>4, <2>1, <2>2, <2>3, <2>4, <2>6, <2>7, <2>8, <2>9, <2>10, <2>11, <2>12, <2>13,
         <2>14, <2>15, <2>16, <2>17, <2>18, <2>19, <2>21, <2>22, <2>23, <2>24, <2>25, <2>26
      DEF Next, Executor, Encoder
  <1>5. QED BY <1>1, <1>2, <1>4

\* The second invariant holds in every reachable state.
THEOREM SessionNegotiation == Spec => []NegotiationInvariant
  <1>1. Invariant /\ NegotiationInvariant /\ [Next]_vars => NegotiationInvariant'
    BY NextNegotiation
  <1>2. QED BY <1>1, InitNegotiation, SessionInvariant, PTL DEF Spec

\* A negotiation becomes Running only with a peer, a running video and both
\* configurations published, on the executor or on the encoder thread, which
\* does not read the state again after its calls.
THEOREM NegotiationCompletes == Spec => RunningEnteredNegotiated
  <1>1. Invariant /\ NegotiationInvariant /\ [Next]_vars =>
          [node.state = "Negotiating" /\ node'.state = "Running" =>
              node'.peer # NoPeer /\ node'.video /\ node'.cfg # 0 /\ node'.acfg # 0]_vars
    BY NextNegotiation DEF CompletesNegotiation, Negotiated
  <1>2. QED BY <1>1, SessionNegotiation, SessionInvariant, PTL DEF Spec, RunningEnteredNegotiated

\* A node that lost its registration has neither transport nor handshake nor
\* telemetry, although stale work may pair it and start its video again.
THEOREM UnregisteredIsSilent == Spec => []UnregisteredSendsNothing
  <1>1. Invariant /\ NegotiationInvariant => UnregisteredSendsNothing
    BY DEF Invariant, NegotiationInvariant, Sound, Loose, UnregisteredSendsNothing
  <1>2. QED BY <1>1, SessionNegotiation, SessionInvariant, PTL

\* The transport is destroyed nowhere but at the end of the teardown of a lost
\* registration.
LEMMA TransportStopsInTeardown ==
    ASSUME Invariant, [Next]_vars, node.udp # 0, node'.udp = 0
    PROVE  FinishTeardown /\ ex = "Connecting"
  <1>0. node \in NodeType /\ VideoCoherent(node) /\ queue \in Seq(Work)
    BY DEF Invariant, TypeOK
  <1>1. CASE TryRegister
    BY <1>1 DEF TryRegister, Free, Invariant
  <1>2. CASE RegisteredSetupRetryTimer
    <2>1. \/ Like(node', node)
          \/ node.registered /\ LikeWithUdp(node', node, node.epoch)
      BY <1>0, <1>2, CompleteRegisteredSetupBinds DEF RegisteredSetupRetryTimer
    <2>2. QED BY <2>1 DEF Like, LikeWithUdp, Invariant, UdpBoundToSession
  <1>3. CASE HeartbeatOk \/ HeartbeatTransportFailure
    BY <1>0, <1>3 DEF HeartbeatOk, HeartbeatTransportFailure, NodeType
  <1>4. CASE HeartbeatFail
    BY <1>0, <1>4, OnGrpcHeartbeatFailKeeps DEF HeartbeatFail
  <1>5. ASSUME NEW op \in PairOps, TakeWork(op) PROVE Head(queue).peer \in Peers
    <2>1. Head(queue) \in Work /\ Head(queue).op \in PairOps
      BY <1>0, <1>5 DEF TakeWork
    <2>2. QED BY <2>1 DEF Work, PairOps
  <1>6. CASE HandleRequest
    BY <1>0, <1>5, <1>6, PairedKeeps DEF HandleRequest, PairOps
  <1>7. CASE HandleAccept
    BY <1>0, <1>5, <1>7, PairedKeeps DEF HandleAccept, PairOps
  <1>8. CASE HandleReject
    BY <1>0, <1>8, RejectedKeeps DEF HandleReject, Like, LikeWithUdp
  <1>9. CASE HandleUnpair
    <2>1. Like(ClearPeer(node, Head(queue).peer), node)
      BY <1>0, ClearPeerKeeps
    <2>2. QED BY <1>9, <2>1, TeardownBeginKeeps DEF HandleUnpair, States, Like, LikeWithUdp
  <1>10. CASE HandleHelloRequest
    BY <1>0, <1>10, ResetSessionKeeps DEF HandleHelloRequest, Like, LikeWithUdp
  <1>11. CASE HandleStreamEnd
    BY <1>0, <1>11, TeardownBeginKeeps DEF HandleStreamEnd, States, Like, LikeWithUdp
  <1>12. CASE HandleUdpPeerLost
    BY <1>0, <1>12, TeardownBeginKeeps, TelemetryKeeps
    DEF HandleUdpPeerLost, States, Like, LikeWithUdp
  <1>13. CASE FinishTeardown
    BY <1>0, <1>13, TeardownEndResets DEF FinishTeardown
  <1>14. CASE PairingRetryTimer
    BY <1>0, <1>14, CancelKeeps DEF PairingRetryTimer, Like, LikeWithUdp
  <1>15. CASE NegotiationRetryTimer
    BY <1>0, <1>15, CancelKeeps, TryAdvanceNegotiationKeeps, StartVideoKeeps
    DEF NegotiationRetryTimer, Like, LikeWithUdp
  <1>16. CASE FinishVideoRestart
    <2> DEFINE n == StopVideoAndReset(node)
    <2>1. n \in NodeType /\ VideoCoherent(n) /\ n.udp = node.udp
      BY <1>0, StopVideoResets DEF VideoCoherent
    <2> HIDE DEF n
    <2>2. QED BY <1>16, <2>1, StartVideoKeeps DEF FinishVideoRestart, n
  <1>17. CASE HandshakeTimer
    <2> DEFINE c == Cancel(node, {"handshake"})
    <2>1. Like(c, node)
      BY <1>0, CancelKeeps
    <2> HIDE DEF c
    <2>2. Like(HandshakeReady(c), c)
      BY <2>1, HandshakeReadyKeeps DEF Like, LikeWithUdp
    <2>3. QED BY <1>17, <2>1, <2>2 DEF HandshakeTimer, Like, LikeWithUdp, c
  <1>18. CASE TelemetryTimer \/ OnSpsPpsCaptured
    BY <1>0, <1>18 DEF TelemetryTimer, OnSpsPpsCaptured, NodeType
  <1>19. CASE EncoderPublishVideoConfig \/ EncoderPublishAudioConfig
    BY <1>0, <1>19
    DEF EncoderPublishVideoConfig, EncoderPublishAudioConfig, PublishVideoConfig,
        PublishAudioConfig, Arm, NodeType
  <1>20. CASE EncoderStopRetryTimer \/ EncoderEnterRunning \/ EncoderStartAudio
    BY <1>0, <1>20
    DEF EncoderStopRetryTimer, EncoderEnterRunning, EncoderStartAudio, Cancel, SetState,
        AudioStart, NodeType
  <1>21. CASE Network \/ UNCHANGED vars
    BY <1>0, <1>21
    DEF Network, OnSignalingEvent, OnGrpcStreamEnd, UdpAck, OnUdpPeerLost, vars, NodeType
  <1>22. QED
    BY <1>1, <1>2, <1>3, <1>4, <1>6, <1>7, <1>8, <1>9, <1>10, <1>11, <1>12, <1>13, <1>14,
       <1>15, <1>16, <1>17, <1>18, <1>19, <1>20, <1>21
    DEF Next, Executor, Encoder

\* The transport is destroyed only when stopVideo has joined the encoder thread,
\* whatever step of tryAdvanceNegotiation the teardown overlapped.
THEOREM TransportOutlivesEncoder == Spec => EncoderStopsBeforeTransport
  <1>1. ASSUME Invariant, [Next]_vars, node.udp # 0, node'.udp = 0
        PROVE  vt = "idle" /\ ~node'.video /\ ~node'.sps
    <2>1. FinishTeardown /\ ex = "Connecting"
      BY <1>1, TransportStopsInTeardown
    <2>2. node \in NodeType /\ VideoCoherent(node)
      BY <1>1 DEF Invariant, TypeOK
    <2>3. QED BY <2>1, <2>2, TeardownEndResets DEF FinishTeardown
  <1>2. Invariant /\ [Next]_vars =>
          [node.udp # 0 /\ node'.udp = 0 => vt = "idle" /\ ~node'.video /\ ~node'.sps]_vars
    BY <1>1
  <1>3. QED BY <1>2, SessionInvariant, PTL DEF Spec, EncoderStopsBeforeTransport
=============================================================================
