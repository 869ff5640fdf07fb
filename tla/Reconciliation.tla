--------------------------- MODULE Reconciliation ---------------------------
(***************************************************************************)
(* How far Auto may believe fw-fanctrl: the poller thread that asks it     *)
(* (src/sensors/poller.rs, src/fanctrl/client.rs), the sampler that merges *)
(* the answers into its 1 Hz sample, and the replica of the embedded       *)
(* controller's averages that the controller scores the answers against    *)
(* (src/sensors/ec.rs, the first part of on_auto_sample_v4).               *)
(*                                                                         *)
(* Times are counted in samples.  A temperature is only what a comparison  *)
(* says of it: a view carries whether its maximum is the one that was      *)
(* read, and whether its moving average is the replica's, is not, or is no *)
(* usable number.  The history of the maximum is the number of samples it  *)
(* holds; those of the device groups score nothing and are left out.       *)
(***************************************************************************)
EXTENDS Integers

CONSTANTS
  SpeedPeriod, AllPeriod,  \* SPEED_PERIOD, ALL_PERIOD
  SpeedStale, AllStale,    \* SPEED_STALE_AFTER, ALL_STALE_AFTER
  PollMax,                 \* the longest round trip: the deadline of a read is looked at between reads
  Prompt,                  \* the timeouts of one round trip: one that takes longer is slow
  Behind,                  \* how far the model lets the poller fall behind its due times
  SkipGap,                 \* RECONCILIATION_SKIP_GAP_S
  Strikes,                 \* the three strikes of the replica
  Widths                   \* the moving-average intervals of the strategies

ASSUME ReconciliationAssumption ==
  /\ {SpeedPeriod, AllPeriod, SpeedStale, AllStale, SkipGap, Strikes} \cup Widths \subseteq Nat \ {0}
  /\ Prompt \in Nat \ {0} /\ PollMax \in Nat /\ Prompt <= PollMax /\ Behind \in Nat
  /\ \E w \in Widths : \A v \in Widths : v <= w

\* A late poll catches up: a prompt socket answers within the period of the speed, the long period has
\* room for what its long answer sets back, and a stamp outlives a period and two round trips.
ASSUME PaceAssumption ==
  /\ SpeedPeriod > Prompt /\ AllPeriod >= Prompt * (Prompt + 1)
  /\ SpeedStale > SpeedPeriod + 2 * Prompt /\ AllStale >= AllPeriod + 2 * Prompt

VARIABLES
  world,    \* how fw-fanctrl and the machine behave
  poller,   \* the poller thread and its due times, from now; slow, for the property: a round trip
            \* has been, and the poller has not been idle with nothing due since
  feed,     \* the published snapshot, with the age of its stamps
  auto,     \* the replica and view_initialised of the Auto session
  views     \* answers in a row with one verdict, and the commands that failed last

vars == <<world, poller, feed, auto, views>>

None == "none"
Commands == {"All", "Speed"}
Worlds == {"agrees", "differs", "short answers", "rough"}
Low(a, b) == IF a < b THEN a ELSE b
WidestOf == CHOOSE w \in Widths : \A v \in Widths : v <= w
View == [max : BOOLEAN, ma : {"match", "miss", None}, width : Widths]
NoView == [max |-> FALSE, ma |-> None, width |-> 0]
Replica == [width : Widths, raw : 0..WidestOf, seeded : BOOLEAN, ready : BOOLEAN,
            ever : BOOLEAN, mismatch : BOOLEAN, differ : 0..Strikes, agree : 0..Strikes, maFail : 0..(Strikes - 1)]

TypeOK ==
  /\ world \in Worlds
  /\ poller \in [at : {"idle"} \cup Commands, waited : 0..PollMax, asked : 0..(2 * PollMax),
                 all : (-Behind)..AllPeriod, speed : (-Behind)..SpeedPeriod, slow : BOOLEAN]
  /\ feed \in [view : {NoView} \cup View, seen : BOOLEAN, absent : BOOLEAN,
               allAge : 0..AllStale, speedAge : 0..SpeedStale]
  /\ auto \in [replica : Replica, initialised : BOOLEAN]
  /\ views \in [scored : BOOLEAN, max : BOOLEAN, n : 0..Strikes, reset : BOOLEAN, failed : SUBSET Commands]

\* EcReplica::new in a new AutoState.
NewSession ==
  [initialised |-> FALSE,
   replica |-> [width |-> WidestOf, raw |-> 0, seeded |-> FALSE, ready |-> FALSE,
                ever |-> FALSE, mismatch |-> FALSE, differ |-> 0, agree |-> 0, maFail |-> 0]]

Init ==
  /\ world = "rough"
  /\ poller = [at |-> "idle", waited |-> 0, asked |-> 0, all |-> 0, speed |-> 0, slow |-> FALSE]
  /\ feed = [view |-> NoView, seen |-> TRUE, absent |-> FALSE, allAge |-> AllStale, speedAge |-> SpeedStale]
  /\ auto = NewSession
  /\ views = [scored |-> TRUE, max |-> TRUE, n |-> 0, reset |-> TRUE, failed |-> {}]
-----------------------------------------------------------------------------
(* The poller thread.                                                      *)

\* FanctrlPoller::tick: whatever is due as of the instant the tick began, the long answer first.
Asks ==
  /\ poller.at = "idle"
  /\ poller.all <= 0 \/ poller.speed <= 0
  /\ poller' = [poller EXCEPT !.at = IF poller.all <= 0 THEN "All" ELSE "Speed", !.waited = 0, !.asked = 0]
  /\ UNCHANGED <<world, feed, auto, views>>

\* The rest of the tick after one command: its due time moves by one period from the last.
NextDue ==
  LET speedToo == poller.at = "All" /\ poller.speed + poller.asked <= 0
  IN [poller EXCEPT !.at = IF speedToo THEN "Speed" ELSE "idle", !.waited = 0,
                    !.asked = IF speedToo THEN poller.asked ELSE 0,
                    !.all = IF poller.at = "All" THEN @ + AllPeriod ELSE @,
                    !.speed = IF poller.at = "Speed" THEN @ + SpeedPeriod ELSE @]

\* Mutation: a short answer renews both stamps.
ShortAnswerForBoth(f) ==
  IF f.view = NoView THEN f
  ELSE [f EXCEPT !.absent = FALSE, !.speedAge = Low(poller.asked, SpeedStale), !.allAge = Low(poller.asked, AllStale)]

\* Mutation: a short answer renews the speed alone.
ShortAnswerUnstamped(f) == [f EXCEPT !.absent = FALSE]

\* A short answer renews the speed and its stamp; without a view there is nothing to renew.
ShortAnswer(f) ==
  [f EXCEPT !.absent = FALSE, !.speedAge = IF f.view = NoView THEN @ ELSE Low(poller.asked, SpeedStale)]

\* A long answer replaces the view; both stamps are the instant the tick began.
LongAnswer(f, view) ==
  [view |-> view, seen |-> FALSE, absent |-> FALSE,
   allAge |-> Low(poller.asked, AllStale), speedAge |-> Low(poller.asked, SpeedStale)]

\* What fw-fanctrl says: in a steady world it is of one mind about the maximum.
Said == {v \in View : /\ world = "agrees" => v.max /\ v.ma # None
                      /\ world = "differs" => ~v.max}

\* UnixFanctrlClient::poll on an answer, and publish.
Answered ==
  /\ \/ poller.at = "Speed" /\ feed' = ShortAnswer(feed)
     \/ poller.at = "All" /\ world # "short answers" /\ \E v \in Said : feed' = LongAnswer(feed, v)
  /\ views' = [views EXCEPT !.failed = @ \ {poller.at}, !.scored = @ /\ poller.at # "All"]
  /\ poller' = NextDue
  /\ UNCHANGED <<world, auto>>

\* A refused connection marks the socket absent; a timeout or an answer that does not parse says it is there.
Failed ==
  /\ \/ poller.at # "idle" /\ world = "rough"
     \/ poller.at = "All" /\ world = "short answers"
  /\ \E refused \in {FALSE, world = "rough"} : feed' = [feed EXCEPT !.absent = refused]
  /\ views' = [views EXCEPT !.failed = @ \cup {poller.at}]
  /\ poller' = NextDue
  /\ UNCHANGED <<world, auto>>
-----------------------------------------------------------------------------
(* The sampler.                                                            *)

\* compute_freshness.
Fresh == /\ ~feed.absent /\ feed.view # NoView
         /\ feed.speedAge < SpeedStale /\ feed.allAge < AllStale

\* A second passes: no round trip outlives the longest, and what is due has been asked.
TimeMayPass ==
  IF poller.at = "idle" THEN poller.all > 0 /\ poller.speed > 0
  ELSE poller.waited < PollMax /\ world = "rough" /\ poller.all > -Behind /\ poller.speed > -Behind

SecondPasses ==
  /\ poller' = [poller EXCEPT !.all = @ - 1, !.speed = @ - 1,
                              !.waited = IF poller.at = "idle" THEN 0 ELSE @ + 1,
                              !.asked = IF poller.at = "idle" THEN 0 ELSE @ + 1,
                              !.slow = poller.at # "idle" /\ (@ \/ poller.waited + 1 > Prompt)]
  /\ feed' = [feed EXCEPT !.seen = TRUE, !.allAge = Low(@ + 1, AllStale), !.speedAge = Low(@ + 1, SpeedStale)]
-----------------------------------------------------------------------------
(* The replica.                                                            *)

Usable(ma) == ma # None

\* reset_histories.
Seeded(r, ma) ==
  [r EXCEPT !.raw = IF Usable(ma) THEN 1 ELSE 0, !.seeded = Usable(ma), !.ready = Usable(ma)]

\* EcReplica::reset.
Reset(r, ma) == [Seeded(r, ma) EXCEPT !.ever = FALSE, !.mismatch = FALSE, !.differ = 0, !.agree = 0, !.maFail = 0]

\* reseed_histories: without a usable seed, a full window and a score must earn the trust again.
Reseeded(r, ma) == [Seeded(r, ma) EXCEPT !.ever = @ /\ Usable(ma)]

\* Boxcar::set_interval: a history at least as long as the new window is a full one.
Resized(r, width) ==
  [r EXCEPT !.width = width, !.raw = Low(@, width), !.seeded = @ \/ r.raw >= width]

\* tick: the mean that is compared is the one before this sample is appended.
Appended(r, read) ==
  LET raw == IF read THEN Low(r.raw + 1, r.width) ELSE r.raw
  IN [r EXCEPT !.ready = r.seeded, !.raw = raw, !.seeded = @ \/ (read /\ raw >= r.width)]

\* Mutation: one match more than the count can hold.
ComparedBeyond(r, matches) ==
  IF matches THEN [r EXCEPT !.differ = 0, !.agree = Low(@ + 1, Strikes)]
  ELSE LET differ == Low(r.differ + 1, Strikes)
       IN [r EXCEPT !.differ = differ, !.agree = 0, !.mismatch = @ \/ differ >= Strikes]

\* The maxima: three mismatches in a row latch, three matches in a row clear.
Compared(r, matches) ==
  IF matches
  THEN LET agree == Low(r.agree + 1, Strikes)
           clears == r.mismatch /\ agree >= Strikes
       IN [r EXCEPT !.differ = 0, !.agree = IF clears THEN 0 ELSE agree, !.mismatch = @ /\ ~clears]
  ELSE LET differ == Low(r.differ + 1, Strikes)
       IN [r EXCEPT !.differ = differ, !.agree = 0, !.mismatch = @ \/ differ >= Strikes]

\* The averages: three misses in a row ask for a new seed.
MaFails(r, ma) == IF ma = "match" THEN 0 ELSE r.maFail + 1

\* score_reconciliation on a comparison, and the reseed it asks the controller for.
Scored(r, view, matches) ==
  IF ~r.ready THEN r
  ELSE LET next == [Compared([r EXCEPT !.ever = TRUE], matches) EXCEPT
                      !.maFail = IF MaFails(r, view.ma) >= Strikes THEN 0 ELSE MaFails(r, view.ma)]
       IN IF (r.mismatch /\ ~next.mismatch) \/ MaFails(r, view.ma) >= Strikes
          THEN Reseeded(next, view.ma) ELSE next

Trusted(r) == r.ever /\ ~r.mismatch
-----------------------------------------------------------------------------
(* The Auto session.                                                       *)

\* What a sample brings beside the feed; only a rough world resumes, climbs or loses the sensors.
SteadyInput == [resumed |-> FALSE, rising |-> FALSE, read |-> TRUE, sensed |-> TRUE]
RoughInputs == {i \in [resumed : BOOLEAN, rising : BOOLEAN, read : BOOLEAN, sensed : BOOLEAN] :
                  (i.read => i.sensed) /\ (i.resumed => ~i.rising)}
Inputs == IF world = "rough" THEN RoughInputs ELSE {SteadyInput}

SocketMa == feed.view.ma

\* Mutation: every new view starts the replica over.
PreparedAnew(a, i) ==
  LET resized == IF feed.view # NoView THEN Resized(a.replica, feed.view.width) ELSE a.replica
      first == i.resumed \/ (~feed.seen /\ Fresh)
  IN [initialised |-> a.initialised \/ first,
      replica |-> Appended(IF first THEN Reset(resized, SocketMa) ELSE resized, i.read)]

\* The resume, the interval of a new view, and the seed of the first fresh one.
Prepared(a, i) ==
  LET resumed == IF i.resumed THEN Reset(a.replica, SocketMa) ELSE a.replica
      resized == IF feed.view # NoView /\ (~feed.seen \/ ~a.initialised)
                 THEN Resized(resumed, feed.view.width) ELSE resumed
      first == ~a.initialised /\ Fresh
  IN [initialised |-> a.initialised \/ first,
      replica |-> Appended(IF first THEN Reset(resized, SocketMa) ELSE resized, i.read)]

\* Mutation: the cached view is compared with every sample.
FairOfCached(i) == Fresh /\ i.sensed /\ ~i.rising /\ feed.allAge < SkipGap

\* A comparison is fair with a view that is new and fresh, and read close to the sample on a flat stretch.
Fair(i) == Fresh /\ ~feed.seen /\ i.sensed /\ ~i.rising /\ feed.allAge < SkipGap

\* Without the maximum among the sensors that were read, nothing matches.
Matches(i) == i.read /\ feed.view.max

\* The verdicts on distinct views in a row since the replica last started over, for the properties.
Forgotten == [views EXCEPT !.n = 0, !.reset = TRUE]
Witnessed(v, matches) ==
  IF v.scored THEN v
  ELSE [v EXCEPT !.scored = TRUE, !.max = matches, !.n = IF v.max = matches THEN Low(@ + 1, Strikes) ELSE 1]

\* on_auto_sample_v4, to where the trust is settled.
AutoSample ==
  /\ TimeMayPass
  /\ \E i \in Inputs :
       LET ready == Prepared(auto, i)
           seen == IF i.resumed THEN Forgotten ELSE [views EXCEPT !.reset = FALSE]
       IN /\ auto' = IF Fair(i) THEN [ready EXCEPT !.replica = Scored(@, feed.view, Matches(i))] ELSE ready
          /\ views' = IF Fair(i) /\ ready.replica.ready THEN Witnessed(seen, Matches(i)) ELSE seen
  /\ SecondPasses
  /\ UNCHANGED world

\* The target source is Released: the replica starts over without a seed.
ReleasedSample ==
  /\ TimeMayPass /\ world = "rough"
  /\ auto' = [initialised |-> FALSE, replica |-> Reset(Prepared(auto, [resumed |-> FALSE, read |-> TRUE]).replica, None)]
  /\ SecondPasses
  /\ views' = Forgotten
  /\ UNCHANGED world

\* reseed_auto_after_calibration: the held sample seeds from a fresh view and compares nothing.
HeldSample ==
  /\ TimeMayPass /\ world = "rough"
  /\ auto' = [initialised |-> Fresh,
              replica |-> IF Fresh THEN Reset(Resized(auto.replica, feed.view.width), SocketMa)
                          ELSE Reset(auto.replica, None)]
  /\ SecondPasses
  /\ views' = Forgotten
  /\ UNCHANGED world

\* A sample of another mode, or one that a handler keeps from the session.
OtherSample ==
  /\ TimeMayPass /\ world = "rough"
  /\ SecondPasses
  /\ UNCHANGED <<world, auto, views>>

\* SetAuto.
Engages ==
  /\ world = "rough"
  /\ auto' = NewSession
  /\ views' = Forgotten
  /\ UNCHANGED <<world, poller, feed>>

\* A rough world may do whatever any other does, so it turns for good, and between two round trips.
WorldTurns ==
  /\ world = "rough" /\ poller.at = "idle" /\ ~poller.slow
  /\ world' \in Worlds
  /\ UNCHANGED <<poller, feed, auto, views>>

Next == \/ Asks \/ Answered \/ Failed
        \/ AutoSample \/ ReleasedSample \/ HeldSample \/ OtherSample \/ Engages \/ WorldTurns

Spec == Init /\ [][Next]_vars

\* The poller's thread wakes, its round trips end, and the sampler runs: in a steady world one of them can at a time.
FairSpec == Spec /\ WF_vars(Asks \/ Answered \/ Failed \/ AutoSample)
-----------------------------------------------------------------------------
(* Properties.                                                             *)

\* A view that exists goes stale only behind a failed poll, or before the poller has caught up with a round trip
\* that outlasted its timeouts: a socket that is slow within its timeouts is not taken for a lost one, whatever
\* backlog its round trips leave (the stamps and the deadline of client.rs, the due times of poller.rs).
StaleMeansFailure ==
  /\ TypeOK
  /\ feed.view # NoView /\ ~Fresh => views.failed # {} \/ poller.slow

\* A mismatch is latched, and cleared other than by a reset, by as many answers of fw-fanctrl in a row that disagree,
\* or agree, as there are strikes; one answer is never counted again on the samples between two polls.
VerdictsTakeViews ==
  [][LET before == auto.replica
         after == auto'.replica
     IN /\ after.mismatch /\ ~before.mismatch => views'.n >= Strikes /\ ~views'.max
        /\ before.mismatch /\ ~after.mismatch /\ ~views'.reset => views'.n >= Strikes /\ views'.max]_vars

\* The strengthening for both.  Due times are counted from the instant a tick began.
Ticking ==
  /\ poller.at = "idle" => poller.asked = 0 /\ poller.waited = 0
  /\ poller.at = "All" =>
       poller.asked = poller.waited /\ poller.all + poller.asked <= 0 /\ poller.speed + poller.asked <= SpeedPeriod
  /\ poller.at = "Speed" => poller.asked <= PollMax + poller.waited /\ poller.speed + poller.asked <= 0

\* What a prompt round trip has set the speed back, the ones until the next long answer make up for
\* again, so that the speed is never overdue when that is due.
Paced ==
  LET all == poller.all + poller.asked
      speed == poller.speed + poller.asked
      caughtUp == Prompt * speed + all >= 0
  IN  ~poller.slow =>
        /\ poller.waited <= Prompt
        /\ poller.at = "idle" => caughtUp /\ all > -Prompt /\ speed > -Prompt
        /\ poller.at = "All" => caughtUp /\ all > -Prompt /\ speed >= 0
        /\ poller.at = "Speed" =>
             \/ poller.asked = poller.waited /\ caughtUp /\ all > 0 /\ speed > -Prompt
             \/ poller.asked <= Prompt + poller.waited /\ all = AllPeriod /\ speed = 0

\* A stamp is as old as its command is overdue, and a period older, unless the last one failed.
Stamped ==
  /\ feed.absent => views.failed # {}
  /\ feed.view # NoView /\ "All" \notin views.failed => feed.allAge <= AllPeriod - poller.all
  /\ feed.view # NoView /\ "Speed" \notin views.failed => feed.speedAge <= SpeedPeriod - poller.speed

\* The strikes of the replica are verdicts on as many distinct views.
Counted ==
  LET r == auto.replica
  IN  /\ r.differ > 0 => ~views.max /\ r.differ <= views.n
      /\ r.agree > 0 => views.max /\ r.agree <= views.n
      /\ ~auto.initialised => ~r.mismatch
      /\ ~feed.seen => ~views.scored

IInv == StaleMeansFailure /\ Ticking /\ Paced /\ Stamped /\ Counted

\* Once fw-fanctrl answers and agrees for good, Auto comes to trust it for good, through whatever resets, reseeds and
\* half filled windows the past left behind.
TrustReturns == <>[](world = "agrees") => <>[]Trusted(auto.replica)

\* Once it answers and disagrees for good, Auto stops trusting it for good.
TrustEnds == <>[](world = "differs") => <>[]~Trusted(auto.replica)

\* A socket that goes on telling the speed and nothing else does not keep an old curve fresh: the view has two stamps.
OldCurveGoesStale == <>[](world = "short answers") => <>[]~Fresh
=============================================================================
