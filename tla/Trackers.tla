-------------------------------- MODULE Trackers --------------------------------
(***************************************************************************)
(* The GPS trackers of delivery_service: the points they send, and the     *)
(* staff who bind them to vehicles.                                        *)
(*                                                                         *)
(* A tracker cannot log in: /gps/ingest looks its number up, registers an  *)
(* unknown one by itself up to a ceiling, checks the credential that the   *)
(* row asks for (a TOTP code before a token before nothing) and keeps the  *)
(* point.  The row is read WITHOUT a lock; from its answer to the first    *)
(* write the handler does not wait, so what it decides on and what the     *)
(* memory of the process counts (rate limits, wrong codes) is one step,    *)
(* and the transaction that writes is another.  The staff's requests read, *)
(* look whether the vehicle is free, and write in a later step too.        *)
(*                                                                         *)
(* A message that does not parse is answered and forgotten, and the        *)
(* coordinates and the mark of the last contact are left out; a point is   *)
(* the time the tracker claims and what it says to prove itself: nothing,  *)
(* something wrong (a guess, a secret that was replaced), or a secret.     *)
(***************************************************************************)
EXTENDS Integers, Sequences, FiniteSets

CONSTANTS
    Numbers,      \* numbers that are burnt into trackers
    Vehicles,     \* vehicles that are not archived at first
    GpsRequests,  \* requests that may be in progress at once
    NoVehicle,
    MaxAuto,      \* gps_max_auto_devices
    MinInterval,  \* gps_min_interval_sec
    MaxEntries,   \* what a RateLimiter remembers: 5000 in the code
    MaxWrong,     \* gps_totp_max_failures
    WrongWindow,  \* gps_totp_failure_window_sec
    Skew,         \* MAX_CLOCK_SKEW_SEC
    Retention,    \* gps_retention_days
    Claims,       \* times a tracker may claim; -1 is none
    MaxTime,      \* bound: the clock
    MaxIssued,    \* bound: rows and secrets that are ever made
    MaxGpsReqs    \* bound: requests that are ever begun

ASSUME TrackersAssumption ==
    /\ IsFiniteSet(Numbers)
    /\ NoVehicle \notin Vehicles /\ "kept" \notin Vehicles \cup {NoVehicle}
    /\ {MaxAuto, MinInterval, MaxWrong, WrongWindow, Skew, Retention} \subseteq Nat
    /\ {MaxTime, MaxIssued, MaxGpsReqs} \subseteq Nat /\ Claims \subseteq Nat \cup {-1}
    /\ MaxEntries \in Nat \ {0}

VARIABLES
    trackers,   \* the gps_devices table, by number
    garage,     \* the vehicles that are not archived
    points,     \* the gps_positions table: which points it has, and how many of each
    lastPoint,  \* _rate_limiter: when it last let a device pass
    wrong,      \* _totp_throttle: when a device was last given wrong codes
    gps,        \* what each request has read and means to do
    gpsClock,
    issuedIds,  \* how many rows and secrets were made
    begunGps,   \* how many requests were begun
    abreast,    \* history: registrations that counted before another was written
    twiceBound, \* history: vehicles that were free when it was checked and not when they were bound
    forgotten   \* history: devices whose last point was forgotten too early

gpsVars == <<trackers, garage, points, lastPoint, wrong, gps, gpsClock, issuedIds, begunGps,
             abreast, twiceBound, forgotten>>

Missing  == [id |-> 0]
NoSecret == 0
Resting  == [step |-> "none"]
Ids      == 1..MaxIssued

\* The row; since is history: when its secrets were changed.
TrackerRow == [id: Ids, auto: BOOLEAN, active: BOOLEAN, totp: 0..MaxIssued, token: 0..MaxIssued,
               vehicle: Vehicles \cup {NoVehicle}, since: 0..MaxTime]

\* What a message may carry to prove its sender, beside a code or the token of a secret.
Nothing == 0
Wrong   == -1

TrackersInit ==
    /\ trackers = [n \in Numbers |-> Missing]
    /\ garage = Vehicles
    /\ points = [p \in {} |-> 0]
    /\ lastPoint = [d \in {} |-> 0]
    /\ wrong = [d \in Ids |-> << >>]
    /\ gps = [q \in GpsRequests |-> Resting]
    /\ gpsClock = 0 /\ issuedIds = 0 /\ begunGps = 0
    /\ abreast = 0 /\ twiceBound = {} /\ forgotten = {}

Registered(n) == trackers[n] # Missing
Autos         == {n \in Numbers : Registered(n) /\ trackers[n].auto}
BoundTo(v)    == {n \in Numbers : Registered(n) /\ trackers[n].vehicle = v}
NumberOf(id)  == {n \in Numbers : trackers[n].id = id}
Awaiting(q, step) == gps[q] # Resting /\ gps[q].step = step

Ask(q) == /\ gps[q] = Resting
          /\ begunGps < MaxGpsReqs
          /\ begunGps' = begunGps + 1

-----------------------------------------------------------------------------
(* The memory of the process *)

\* RateLimiter.allow.
MayPass(d) == d \in DOMAIN lastPoint => gpsClock - lastPoint[d] >= MinInterval

\* The half of a full limiter that was let pass longest ago.
Evicted(d) ==
    LET longerAgo(a, b) == lastPoint[a] < lastPoint[b] \/ (lastPoint[a] = lastPoint[b] /\ a < b)
        before(b) == {a \in DOMAIN lastPoint : longerAgo(a, b)}
    IN IF Cardinality(DOMAIN lastPoint) >= MaxEntries /\ d \notin DOMAIN lastPoint
       THEN {b \in DOMAIN lastPoint : Cardinality(before(b)) < MaxEntries \div 2}
       ELSE {}

Passed(d) ==
    LET kept == (DOMAIN lastPoint \ Evicted(d)) \cup {d} IN
    /\ lastPoint' = [x \in kept |-> IF x = d THEN gpsClock ELSE lastPoint[x]]
    /\ forgotten' = forgotten \cup {x \in Evicted(d) : gpsClock - lastPoint[x] < MinInterval}

\* FailureThrottle: the wrong codes in the window that ends now.  Those before it are dropped
\* whenever the code looks, which nobody sees; that a full throttle forgets devices is left out.
Recent(d) == {i \in DOMAIN wrong[d] : gpsClock - wrong[d][i] < WrongWindow}

\* Mutant: one more wrong code than the limit.
TooManyLate(d) == Cardinality(Recent(d)) > MaxWrong
TooMany(d)     == Cardinality(Recent(d)) >= MaxWrong

-----------------------------------------------------------------------------
(* A point arrives *)

\* _build_point and ingest_point: a clock that is far off is not believed.
RecordedAt(claimed) ==
    IF claimed = -1 \/ claimed - gpsClock > Skew \/ gpsClock - claimed > Skew
    THEN gpsClock ELSE claimed

\* Mutant: the token does where the row asks for a code.
ProvedEither(row, proof) ==
    (row.totp # NoSecret \/ row.token # NoSecret) =>
        /\ proof \in {row.totp, row.token} \ {NoSecret}
        /\ row.totp # NoSecret => ~TooMany(row.id)

\* _authenticate: the code is asked for before the token.
Proved(row, proof) ==
    IF row.totp # NoSecret THEN proof = row.totp /\ ~TooMany(row.id)
    ELSE row.token # NoSecret => proof = row.token

\* A message without a code is refused too, and not counted.
WrongCode(row, proof) == row.totp # NoSecret /\ ~TooMany(row.id) /\ proof = Wrong

\* ingest_point once the row is known, up to its commit: what will be written.
Decide(q, n, row) ==
    \E claimed \in Claims, proof \in {Nothing, Wrong, row.totp, row.token} :
        /\ wrong' = IF WrongCode(row, proof) THEN [wrong EXCEPT ![row.id] = Append(@, gpsClock)]
                    ELSE wrong
        /\ IF Proved(row, proof) /\ row.active /\ MayPass(row.id)
           THEN /\ Passed(row.id)
                /\ gps' = [gps EXCEPT ![q] =
                      [step |-> "store", number |-> n, id |-> row.id,
                       point |-> [device |-> row.id, vehicle |-> row.vehicle, at |-> RecordedAt(claimed),
                                  passed |-> gpsClock, proof |-> proof]]]
           ELSE gps' = [gps EXCEPT ![q] = Resting] /\ UNCHANGED <<lastPoint, forgotten>>

\* ingest, and _resolve_device up to the answer of its first query.
Ingest(q, n) ==
    /\ Ask(q)
    /\ IF Registered(n)
       THEN Decide(q, n, trackers[n])
       ELSE /\ gps' = [gps EXCEPT ![q] = [step |-> "count", number |-> n]]
            /\ UNCHANGED <<wrong, lastPoint, forgotten>>
    /\ UNCHANGED <<trackers, garage, points, gpsClock, issuedIds, abreast, twiceBound>>

\* Mutant: the ceiling is compared as if the new device did not count.
BelowCeilingOneMore == Cardinality(Autos) <= MaxAuto
BelowCeiling == Cardinality(Autos) < MaxAuto

\* _resolve_device, the ceiling; the limit on registrations of one address may refuse before.
CountAutos(q) ==
    /\ Awaiting(q, "count")
    /\ \/ /\ BelowCeiling
          /\ gps' = [gps EXCEPT ![q].step = "register"]
       \/ gps' = [gps EXCEPT ![q] = Resting]
    /\ UNCHANGED <<trackers, garage, points, lastPoint, wrong, gpsClock, issuedIds, begunGps,
                   abreast, twiceBound, forgotten>>

\* _resolve_device, the insert, and on: a second message of the same tracker meets the unique
\* index and takes the row that is there.
Register(q) ==
    LET n == gps[q].number
        row == [id |-> issuedIds + 1, auto |-> TRUE, active |-> TRUE, totp |-> NoSecret,
                token |-> NoSecret, vehicle |-> NoVehicle, since |-> gpsClock]
    IN /\ Awaiting(q, "register")
       /\ IF Registered(n)
          THEN /\ Decide(q, n, trackers[n])
               /\ UNCHANGED <<trackers, issuedIds, abreast>>
          ELSE /\ issuedIds < MaxIssued
               /\ trackers' = [trackers EXCEPT ![n] = row]
               /\ issuedIds' = issuedIds + 1
               /\ Decide(q, n, row)
               /\ abreast' = IF BelowCeiling THEN abreast ELSE abreast + 1
    /\ UNCHANGED <<garage, points, gpsClock, begunGps, twiceBound>>

\* Mutant: the point goes to the row of its number, whichever that is by now.
StillThereByNumber(q) == Registered(gps[q].number)

\* The UPDATE of a row that was deleted fails, and with it the transaction.
StillThere(q) == trackers[gps[q].number].id = gps[q].id

OneMore(point) ==
    [p \in DOMAIN points \cup {point} |->
        (IF p \in DOMAIN points THEN points[p] ELSE 0) + (IF p = point THEN 1 ELSE 0)]

\* ingest_point, the commit.
StorePoint(q) ==
    /\ Awaiting(q, "store") /\ StillThere(q)
    /\ points' = OneMore(gps[q].point)
    /\ gps' = [gps EXCEPT ![q] = Resting]
    /\ UNCHANGED <<trackers, garage, lastPoint, wrong, gpsClock, issuedIds, begunGps, abreast,
                   twiceBound, forgotten>>

\* A request ends with nothing written: its row is gone, or its connection is.
GpsFails(q) ==
    /\ gps[q] # Resting
    /\ gps' = [gps EXCEPT ![q] = Resting]
    /\ UNCHANGED <<trackers, garage, points, lastPoint, wrong, gpsClock, issuedIds, begunGps,
                   abreast, twiceBound, forgotten>>

-----------------------------------------------------------------------------
(* The staff *)

\* Mutant: only the vehicle is looked for.
VehicleFreeFor(v, n) == v = NoVehicle \/ v \in garage

\* _assert_vehicle_free: with two trackers on a vehicle the query fails for ever.
VehicleFree(v, n) == v = NoVehicle \/ (v \in garage /\ BoundTo(v) \subseteq {n})

\* create_device, update_device: what is read and checked.  A request says which vehicle to bind
\* ("kept" when it does not speak of it), and whether to issue or drop a secret or to switch the
\* tracker on or off, or that it is one of theirs.
BindBegin(q, n, v, change) ==
    /\ Ask(q)
    /\ v # "kept" => VehicleFree(v, n)
    /\ ~Registered(n) => change \in {"kept", "totp", "token"}
    /\ gps' = [gps EXCEPT ![q] = [step |-> "bind", number |-> n, id |-> trackers[n].id, vehicle |-> v,
                                  change |-> change, free |-> BoundTo(v) \subseteq {n}]]
    /\ UNCHANGED <<trackers, garage, points, lastPoint, wrong, gpsClock, issuedIds, abreast,
                   twiceBound, forgotten>>

Issues(q) == gps[q].change \in {"totp", "token"}

\* Of the row only what was changed is written; the new secret is one that no firmware holds yet.
Changed(row, q, no) ==
    LET change == gps[q].change IN
    [row EXCEPT !.vehicle = IF gps[q].vehicle = "kept" THEN @ ELSE gps[q].vehicle,
                !.totp    = IF change = "totp" THEN no ELSE IF change = "drop" THEN NoSecret ELSE @,
                !.token   = IF change = "token" THEN no ELSE IF change = "drop" THEN NoSecret ELSE @,
                !.active  = IF change = "switch" THEN ~@ ELSE @,
                !.auto    = @ /\ change # "confirm",
                !.since   = IF Issues(q) \/ change = "drop" THEN gpsClock ELSE @]

\* create_device, update_device: the write.  A number that was taken meanwhile, and a row that
\* was deleted, fail.
BindCommit(q) ==
    LET n == gps[q].number
        new == [id |-> issuedIds + 1, auto |-> FALSE, active |-> TRUE, totp |-> NoSecret, token |-> NoSecret,
                vehicle |-> NoVehicle, since |-> gpsClock]
        next == IF gps[q].id = 0 THEN issuedIds + 1 ELSE issuedIds
        no == next + 1
    IN /\ Awaiting(q, "bind") /\ StillThere(q)
       /\ (IF Issues(q) THEN no ELSE next) <= MaxIssued
       /\ trackers' = [trackers EXCEPT ![n] = Changed(IF gps[q].id = 0 THEN new ELSE @, q, no)]
       /\ issuedIds' = IF Issues(q) THEN no ELSE next
       /\ twiceBound' = IF gps[q].vehicle \in Vehicles /\ gps[q].free /\ ~(BoundTo(gps[q].vehicle) \subseteq {n})
                        THEN twiceBound \cup {gps[q].vehicle} ELSE twiceBound
       /\ gps' = [gps EXCEPT ![q] = Resting]
       /\ UNCHANGED <<garage, points, lastPoint, wrong, gpsClock, begunGps, abreast, forgotten>>

\* Mutant: the points of the device stay.
WithoutPointsNone(id) == points

\* The cascade of gps_positions.device_id.
WithoutPoints(id) == [p \in {r \in DOMAIN points : r.device # id} |-> points[p]]

\* delete_device.
DeleteTracker(n) ==
    /\ Registered(n)
    /\ points' = WithoutPoints(trackers[n].id)
    /\ trackers' = [trackers EXCEPT ![n] = Missing]
    /\ UNCHANGED <<garage, lastPoint, wrong, gps, gpsClock, issuedIds, begunGps, abreast,
                   twiceBound, forgotten>>

\* archive_vehicle: the tracker stays bound.
ArchiveVehicle(v) ==
    /\ v \in garage
    /\ garage' = garage \ {v}
    /\ UNCHANGED <<trackers, points, lastPoint, wrong, gps, gpsClock, issuedIds, begunGps,
                   abreast, twiceBound, forgotten>>

-----------------------------------------------------------------------------
(* The process *)

\* purge_old_positions.
PurgePoints ==
    LET kept == {p \in DOMAIN points : p.at >= gpsClock - Retention} IN
    /\ kept # DOMAIN points
    /\ points' = [p \in kept |-> points[p]]
    /\ UNCHANGED <<trackers, garage, lastPoint, wrong, gps, gpsClock, issuedIds, begunGps,
                   abreast, twiceBound, forgotten>>

\* The limits live in the memory of the one process.
RestartGps ==
    /\ gps' = [q \in GpsRequests |-> Resting]
    /\ lastPoint' = [d \in {} |-> 0]
    /\ wrong' = [d \in Ids |-> << >>]
    /\ forgotten' = forgotten \cup {d \in DOMAIN lastPoint : gpsClock - lastPoint[d] < MinInterval}
    /\ UNCHANGED <<trackers, garage, points, gpsClock, issuedIds, begunGps, abreast, twiceBound>>

GpsTick ==
    /\ gpsClock < MaxTime
    /\ gpsClock' = gpsClock + 1
    /\ UNCHANGED <<trackers, garage, points, lastPoint, wrong, gps, issuedIds, begunGps,
                   abreast, twiceBound, forgotten>>

TrackersNext ==
    \/ \E q \in GpsRequests, n \in Numbers :
          \/ Ingest(q, n)
          \/ \E v \in Vehicles \cup {NoVehicle} : BindBegin(q, n, v, "kept")
          \/ \E change \in {"totp", "token", "drop", "switch", "confirm"} : BindBegin(q, n, "kept", change)
    \/ \E q \in GpsRequests :
          CountAutos(q) \/ Register(q) \/ StorePoint(q) \/ BindCommit(q) \/ GpsFails(q)
    \/ \E n \in Numbers : DeleteTracker(n)
    \/ \E v \in Vehicles : ArchiveVehicle(v)
    \/ PurgePoints \/ RestartGps \/ GpsTick

TrackersSpec == TrackersInit /\ [][TrackersNext]_gpsVars

-----------------------------------------------------------------------------
(* What is true of the trackers under every interleaving *)

Point == [device: Ids, vehicle: Vehicles \cup {NoVehicle}, at: Nat, passed: 0..MaxTime, proof: Wrong..MaxIssued]

\* Every tracker and every point is of its type, and has an id of its own.
TrackersTypeOK ==
    /\ \A n \in Numbers : Registered(n) => trackers[n] \in TrackerRow /\ NumberOf(trackers[n].id) = {n}
    /\ DOMAIN points \subseteq Point /\ \A p \in DOMAIN points : points[p] \in Nat \ {0}
    /\ garage \subseteq Vehicles

\* gps_positions: no point outlives its tracker, though the tracker may be deleted while a point
\* that it has proved is on its way.
PointsHaveTracker == \A p \in DOMAIN points : NumberOf(p.device) # {}

\* update_device: "a new secret turns the old one off at once".  A point that was let pass after
\* the tracker's secrets were changed has proved the one that the tracker has now.
SecretsCutOff ==
    \A n \in Numbers : \A p \in DOMAIN points :
        p.device = trackers[n].id /\ p.passed > trackers[n].since =>
            /\ trackers[n].totp # NoSecret => p.proof = trackers[n].totp
            /\ trackers[n].totp = NoSecret /\ trackers[n].token # NoSecret =>
                   p.proof = trackers[n].token

\* RateLimiter, FailureThrottle: points of a tracker keep their distance and wrong codes their
\* number, although the requests overlap; a tracker that the limiter forgot too early, full or
\* with the process, is let pass again.
Apart(p, r) == p.passed - r.passed >= MinInterval \/ r.passed - p.passed >= MinInterval
TrackersLimited ==
    /\ \A p, r \in DOMAIN points :
          p.device = r.device /\ p.device \notin forgotten /\ (p = r => points[p] > 1) => Apart(p, r)
    /\ \A d \in Ids : Cardinality(Recent(d)) <= MaxWrong

\* _resolve_device: trackers register themselves up to the ceiling, but for those that were
\* counted together.
CeilingHolds == Cardinality(Autos) <= MaxAuto + abreast

\* _assert_vehicle_free: a vehicle has one tracker, unless two requests bound it at a time.
OneTrackerEach == \A v \in Vehicles \ twiceBound : Cardinality(BoundTo(v)) <= 1
=============================================================================
