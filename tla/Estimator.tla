----------------------------- MODULE Estimator -----------------------------
(***************************************************************************)
(* The bandwidth-delay estimator, src/src/mux/estimator.c, and the running *)
(* minimum and maximum of csnippets algo/wndfilter.c it is built on.  Data *)
(* received or acknowledged starts a PING; the PONG that answers exactly   *)
(* that PING ends the probe and yields the round-trip time, the bandwidth  *)
(* of both directions and their windows.  A PONG can be late, lost or      *)
(* belong to an abandoned probe.                                           *)
(*                                                                         *)
(* Numbers are scaled: Second clock units to the second, and integers of   *)
(* the two widths end at MaxInt and SizeMax.  log keeps the RTT samples of *)
(* the last window, got the bytes since the probe began.                   *)
(***************************************************************************)
EXTENDS Integers, Sequences, FiniteSetsExt

CONSTANTS Second, MaxInt, SizeMax, WndMin, WndMax, FeedbackFloor,
          RttWindow, BwWindow, StableRounds, GrowthFactor,
          ProbeTimeout, StartupInterval, RateLimit,
          Adds,       \* the <<direction, bytes>> traffic may bring
          MaxTime, MaxSample

VARIABLE est

Least(a, b) == IF a < b THEN a ELSE b
Most(a, b) == IF a > b THEN a ELSE b

-----------------------------------------------------------------------------
(* wndfilter.c.  sign is 1 for the running minimum, -1 for the maximum.    *)
Sample(t, v) == [t |-> t, v |-> v]
FilterReset(val) == [ready |-> TRUE, s |-> <<val, val, val>>]
Shift(s, val) == <<s[2], s[3], val>>

SubwinUpdate(s, wnd, val) ==
    IF val.t - s[1].t > wnd
    THEN IF val.t - s[2].t > wnd THEN Shift(Shift(s, val), val) ELSE Shift(s, val)
    ELSE IF s[2].t = s[1].t /\ val.t - s[1].t > wnd \div 4 THEN <<s[1], val, val>>
    ELSE IF s[3].t = s[2].t /\ val.t - s[1].t > wnd \div 2 THEN <<s[1], s[2], val>>
    ELSE s

Better(sign, a, b) == sign * a.v <= sign * b.v

(* Defect: a filter whose choices have all expired is not started afresh.  *)
FilterUpdateKeepsOld(sign, f, wnd, val) ==
    IF ~f.ready \/ Better(sign, val, f.s[1]) THEN FilterReset(val)
    ELSE [f EXCEPT !.s = SubwinUpdate(IF Better(sign, val, @[2]) THEN <<@[1], val, val>>
                                      ELSE IF Better(sign, val, @[3]) THEN <<@[1], @[2], val>> ELSE @, wnd, val)]

FilterUpdate(sign, f, wnd, val) ==
    IF ~f.ready \/ Better(sign, val, f.s[1]) \/ val.t - f.s[3].t > wnd THEN FilterReset(val)
    ELSE [f EXCEPT !.s = SubwinUpdate(IF Better(sign, val, @[2]) THEN <<@[1], val, val>>
                                      ELSE IF Better(sign, val, @[3]) THEN <<@[1], @[2], val>> ELSE @, wnd, val)]
FilterGet(f) == f.s[1].v

-----------------------------------------------------------------------------
(* One direction.                                                          *)
Grow(eff) == IF eff > WndMax \div GrowthFactor THEN WndMax ELSE eff * GrowthFactor

PhaseStartup(d, demand) ==
    IF FilterGet(d.bw) = 0 THEN d
    ELSE IF demand \div 2 > d.eff \/ demand > d.eff - demand \div 2
         THEN [d EXCEPT !.eff = Grow(@), !.stable = 0]
    ELSE [d EXCEPT !.stable = @ + 1, !.phase = IF d.stable + 1 < StableRounds THEN @ ELSE "track"]

PhaseTrack(d) ==
    IF d.eff # 0 /\ d.bdp > d.eff THEN [d EXCEPT !.phase = "startup", !.stable = 0]
    ELSE [d EXCEPT !.eff = Least(d.bdp + d.bdp \div 4, SizeMax)]

Phase(d, demand) == IF d.phase = "startup" THEN PhaseStartup(d, demand) ELSE PhaseTrack(d)

BdpToSize(bw, rttMin) == Least((bw * rttMin) \div Second, SizeMax)
SampleClamped(d) == Least(d.sample, Least(MaxInt \div Second, SizeMax))

(* Defect: the bandwidth sample is not clamped for its later product.      *)
BwSampleUnclamped(d, rtt) == (SampleClamped(d) * Second) \div rtt
BwSample(d, rtt) == Least((SampleClamped(d) * Second) \div rtt, MaxInt \div FeedbackFloor)

WithBw(d, bw, rttMin, now) ==
    LET f == FilterUpdate(-1, d.bw, BwWindow, Sample(now, bw))
    IN  Phase([d EXCEPT !.bw = f, !.bdp = BdpToSize(FilterGet(f), rttMin)], BdpToSize(bw, rttMin))
CalcDir(d, rtt, rttMin, now) == WithBw(d, BwSample(d, rtt), rttMin, now)

WindowFloor(bw) == Least(Most(WndMin, (bw * FeedbackFloor) \div Second), WndMax)
WindowSize(d) == Most(Least(d.eff, WndMax), WindowFloor(FilterGet(d.bw)))

-----------------------------------------------------------------------------
(* The probe cycle.                                                        *)
ResetSamples(e) == [e EXCEPT !.rx.sample = 0, !.tx.sample = 0, !.flight = FALSE]
MinInterval(e) == IF "startup" \in {e.rx.phase, e.tx.phase} THEN StartupInterval ELSE RateLimit

SendPing(e, dir, bytes) ==
    [e EXCEPT !.last = e.now, !.flight = TRUE, ![dir].sample = bytes, !.pings = @ \cup {e.now},
              !.got = [[d \in {"rx", "tx"} |-> 0] EXCEPT ![dir] = bytes]]

StartProbe(e, dir, bytes, oom) ==
    IF (e.last # 0 /\ e.now - e.last < MinInterval(e)) \/ oom THEN e ELSE SendPing(e, dir, bytes)

(* Defect: an unanswered probe is waited for without limit.                *)
RunProbeCycleWaits(e, dir, bytes, oom) ==
    IF e.flight THEN [e EXCEPT ![dir].sample = @ + bytes, !.got[dir] = @ + bytes]
    ELSE StartProbe(e, dir, bytes, oom)

RunProbeCycle(e, dir, bytes, oom) ==
    IF e.flight /\ e.now - e.last < ProbeTimeout THEN [e EXCEPT ![dir].sample = @ + bytes, !.got[dir] = @ + bytes]
    ELSE StartProbe(IF e.flight THEN ResetSamples(e) ELSE e, dir, bytes, oom)

(* mux_estimator_add and mux_estimator_add_acked.                          *)
Add == \E add \in Adds, oom \in BOOLEAN :
    /\ est[add[1]].sample + add[2] <= MaxSample
    /\ est' = [RunProbeCycle(est, add[1], add[2], oom) EXCEPT !.did = IF oom THEN "oom" ELSE "add"]

Recent(e, rtt) == {m \in e.log : e.now - m.t <= RttWindow} \cup {[t |-> e.now, v |-> rtt, from |-> e.last]}
Measured(e, rtt, f) ==
    [e EXCEPT !.rtt = f, !.rx = CalcDir(@, rtt, FilterGet(f), e.now), !.tx = CalcDir(@, rtt, FilterGet(f), e.now),
              !.log = Recent(e, rtt)]
Ended(e) == [ResetSamples(e) EXCEPT !.last = e.now, !.did = "pong"]

(* Defect: any PONG ends the probe that is in flight.                      *)
CalculateAnyPong(e, sent) ==
    IF ~e.flight \/ e.now = sent THEN e
    ELSE Ended(Measured(e, e.now - sent, FilterUpdate(1, e.rtt, RttWindow, Sample(e.now, e.now - sent))))

Calculate(e, sent) ==
    IF ~e.flight \/ sent # e.last THEN e
    ELSE IF e.now - sent <= 0 THEN Ended(e)
    ELSE Ended(Measured(e, e.now - sent, FilterUpdate(1, e.rtt, RttWindow, Sample(e.now, e.now - sent))))

Pong == \E sent \in est.pings : est' = Calculate([est EXCEPT !.pings = @ \ {sent}, !.did = "none"], sent)

Suspend == est.pings # {} /\ est' = [ResetSamples(est) EXCEPT !.pings = {}, !.did = "none"]
Tick == est.now < MaxTime /\ est' = [est EXCEPT !.now = @ + 1, !.did = "none"]

Direction(seed) ==
    [sample |-> 0, bw |-> [ready |-> FALSE, s |-> <<Sample(0, 0), Sample(0, 0), Sample(0, 0)>>],
     bdp |-> 0, eff |-> Most(seed, WndMin), phase |-> "startup", stable |-> 0]

Init(Seeds) == \E seed \in Seeds :
    est = [now |-> 1, last |-> 0, flight |-> FALSE, rx |-> Direction(seed), tx |-> Direction(seed),
           rtt |-> [ready |-> FALSE, s |-> <<Sample(0, 0), Sample(0, 0), Sample(0, 0)>>],
           pings |-> {}, log |-> {}, got |-> [d \in {"rx", "tx"} |-> 0], did |-> "none"]

Next == Add \/ Pong \/ Suspend \/ Tick

-----------------------------------------------------------------------------
(* A measurement pairs the time of one probe with the bytes of the same    *)
(* probe: a late PONG never ends a newer probe, and no sample outlives the *)
(* probe it was counted for.                                               *)
ProbesPaired ==
    /\ \A m \in est.log : m.t - m.v = m.from
    /\ \A d \in {"rx", "tx"} : est[d].sample = IF est.flight THEN est.got[d] ELSE 0

(* The running minimum is the value of a sample inside the window and not  *)
(* above the newest one; its choices are in order of age and of quality.   *)
FilterTracks ==
    est.log # {} =>
      LET s == est.rtt.s
          newest == CHOOSE m \in est.log : \A n \in est.log : n.t <= m.t
      IN  /\ \E m \in est.log : m.t = s[1].t /\ m.v = s[1].v
          /\ s[1].v <= newest.v /\ newest.t - s[1].t <= RttWindow
          /\ s[1].t <= s[2].t /\ s[2].t <= s[3].t /\ s[1].v <= s[2].v /\ s[2].v <= s[3].v

(* Traffic always finds the probe gate open again: after it, a probe not   *)
(* older than the limit is in flight, or the rate limit applies.           *)
GateReopens ==
    est.did = "add" => \/ est.flight /\ est.now - est.last < ProbeTimeout
                       \/ ~est.flight /\ est.now - est.last < MinInterval(est)

(* Products stay inside the integer they are formed in, windows inside the *)
(* protocol's, and the multiplicative growth never starts from zero.       *)
NumbersFit ==
    \A d \in {"rx", "tx"} :
      /\ SampleClamped(est[d]) * Second <= MaxInt
      /\ FilterGet(est[d].bw) * FeedbackFloor <= MaxInt
      /\ WindowSize(est[d]) \in WndMin .. WndMax
      /\ est[d].phase = "startup" => est[d].eff > 0
=============================================================================
