--------------------------- MODULE SettingsProofs ---------------------------
(***************************************************************************)
(* Proofs about Settings, for any tunnels, terminals, command lines and    *)
(* numbers of commands: what a tunnel runs with is left of one command     *)
(* given for it, and the command printed for it gives it again.            *)
(*                                                                         *)
(* FromOneCommand speaks of the map of the daemon alone.  Settings also    *)
(* wait in goroutines that are going to start a tunnel and in the list of  *)
(* a takeover, so the invariant follows them there: as long as no start    *)
(* came between, those goroutines too hold what was asked for last.        *)
(***************************************************************************)
EXTENDS Settings, TLAPS

Kept == {"host", "target", "password"}

\* Settings with the fields Kept of those that somebody gave, the set given.
Remembers(given, settings) ==
  \E asked \in given : \A f \in Kept : asked[f] = settings[f]

\* A Config that may run: what is left of one of the commands given, of the last
\* one if sure.
Given(given, last, sure, config, from) ==
  \E asked \in given :
    /\ LeftOf(asked, config, from)
    /\ from # "takeover" /\ sure => asked = last

\* What a tunnel may run with now.
MayRun(k, config, from) == Given(accepted[k], latest[k], k \notin overtaken, config, from)

Functions ==
  /\ worker = [k \in Tunnels |-> worker[k]]
  /\ term = [c \in Clis |-> term[c]]
  /\ \A c \in Clis : DOMAIN term[c] = {"pc", "list", "export"}
  /\ accepted = [k \in Tunnels |-> accepted[k]]
  /\ latest = [k \in Tunnels |-> latest[k]]

WorkersGiven == \A k \in Tunnels : Running(k) => MayRun(k, worker[k].config, worker[k].from)

HandsGiven == \A h \in hands : h.tunnel \in Tunnels /\ MayRun(h.tunnel, h.config, h.from)

ListsGiven ==
  \A c \in Clis : term[c].pc \in {"confirm", "migrate"} =>
    \A k \in term[c].list : k \in Tunnels /\ Remembers(accepted[k], term[c].export[k])

Inv == Functions /\ WorkersGiven /\ HandsGiven /\ ListsGiven

-----------------------------------------------------------------------------
(* The way of the settings *)

\* buildStartParams and configFromStartParams between them lose compression and
\* change nothing else of what was asked for.
LEMMA StartLeaves ==
  ASSUME NEW line
  PROVE  LeftOf(Asked(LoadConfig(line)),
                ConfigFromStartParams(BuildStartParams(LoadConfig(line))), "start")
<1> DEFINE loaded == LoadConfig(line)
           params == BuildStartParams(loaded)
           config == ConfigFromStartParams(params)
<1>1. /\ params.host = loaded.host /\ params.target = loaded.target
      /\ params.password = loaded.password /\ params.identity = loaded.identity
      /\ params.delay = loaded.delay /\ params.lifetime = loaded.lifetime
      /\ params.proto = loaded.proto /\ params.transport = loaded.transport
  BY DEF BuildStartParams, Carried
<1>2. NormalizeProto(loaded.proto) = loaded.proto
  BY DEF LoadConfig, NormalizeProto
<1>3. /\ config.host = loaded.host /\ config.target = loaded.target
      /\ config.password = loaded.password /\ config.identity = loaded.identity
      /\ config.delay = (IF loaded.delay <= 0 THEN DefaultDelay ELSE loaded.delay)
      /\ config.lifetime = loaded.lifetime /\ config.proto = loaded.proto
      /\ config.transport = NormalizeTransport(loaded.transport)
      /\ config.compress = FALSE
  BY <1>1, <1>2 DEF ConfigFromStartParams
<1> HIDE DEF config, loaded
<1>4. ASSUME NEW f \in Carried
      PROVE  config[f] = Asked(loaded)[f]
  <2>1. CASE f = "delay"
    BY <1>3, <2>1 DEF Asked, Fields, Carried
  <2>2. CASE f = "transport"
    BY <1>3, <2>2 DEF Asked, Fields, Carried
  <2>3. CASE f \in Carried \ {"delay", "transport"}
    <3>1. Asked(loaded)[f] = loaded[f]
      BY <2>3 DEF Asked, Fields
    <3> QED
      BY <1>3, <2>3, <3>1 DEF Carried
  <2> QED
    BY <1>4, <2>1, <2>2, <2>3
<1>5. Lost("start") = {"compress"}
  BY DEF Lost, Fields, Carried
<1>6. Fallback["compress"] = FALSE
  BY DEF Fallback
<1>7. LeftOf(Asked(loaded), config, "start")
  BY <1>3, <1>4, <1>5, <1>6 DEF LeftOf, Fields
<1> QED
  BY <1>7 DEF config, loaded

LEMMA LostNotKept ==
  /\ \A from : Kept \cap Lost(from) = {}
  /\ Kept \subseteq Fields
  /\ Lost("takeover") = Fields \ Kept
<1>1. DOMAIN Fallback = {"identity", "delay", "lifetime", "proto", "transport", "compress"}
  BY DEF Fallback
<1> QED
  BY <1>1 DEF Lost, Kept, Fields, Carried

\* The takeover keeps the host, the target and the password, and sets the rest to
\* the fallback.
LEMMA TakeoverFallsBack ==
  ASSUME NEW exported, NEW f \in Fields \ Kept
  PROVE  ConfigFromStartParams(MigratedConfig(exported))[f] = Fallback[f]
<1> DEFINE params == MigratedConfig(exported)
           config == ConfigFromStartParams(params)
<1>1. /\ params.identity = "" /\ params.delay = 0 /\ params.lifetime = 0
      /\ params.proto = "" /\ params.transport = ""
  BY DEF MigratedConfig
<1> HIDE DEF params
<1>2. /\ config.identity = params.identity
      /\ config.delay = (IF params.delay <= 0 THEN DefaultDelay ELSE params.delay)
      /\ config.lifetime = params.lifetime
      /\ config.proto = NormalizeProto(params.proto)
      /\ config.transport = NormalizeTransport(params.transport)
      /\ config.compress = FALSE
  BY DEF ConfigFromStartParams
<1> HIDE DEF config
<1>3. NormalizeProto("") = "tcp" /\ NormalizeTransport("") = "auto" /\ 0 <= 0
  BY DEF NormalizeProto, NormalizeTransport
<1>4. /\ config.identity = "" /\ config.delay = DefaultDelay /\ config.lifetime = 0
      /\ config.proto = "tcp" /\ config.transport = "auto" /\ config.compress = FALSE
  BY <1>1, <1>2, <1>3
<1>5. /\ Fallback.identity = "" /\ Fallback.delay = DefaultDelay /\ Fallback.lifetime = 0
      /\ Fallback.proto = "tcp" /\ Fallback.transport = "auto" /\ Fallback.compress = FALSE
  BY DEF Fallback
<1>6. f \in {"identity", "delay", "lifetime", "proto", "transport", "compress"}
  BY DEF Kept, Fields, Carried
<1>7. config[f] = Fallback[f]
  BY <1>4, <1>5, <1>6
<1> QED
  BY <1>7 DEF config, params

LEMMA TakeoverKeeps ==
  ASSUME NEW exported, NEW f \in Kept
  PROVE  ConfigFromStartParams(MigratedConfig(exported))[f] = exported[f]
<1> DEFINE params == MigratedConfig(exported)
           config == ConfigFromStartParams(params)
<1>1. params.host = exported.host /\ params.target = exported.target
      /\ params.password = exported.password
  BY DEF MigratedConfig
<1> HIDE DEF params
<1>2. config.host = params.host /\ config.target = params.target
      /\ config.password = params.password
  BY DEF ConfigFromStartParams
<1> HIDE DEF config
<1>3. config[f] = exported[f]
  BY <1>1, <1>2 DEF Kept
<1> QED
  BY <1>3 DEF config, params

LEMMA ExportKeeps ==
  ASSUME NEW config, NEW f \in Kept
  PROVE  ExportOf(config)[f] = config[f]
BY DEF ExportOf, Kept

\* What runs can be exported.
LEMMA GivenRemembers ==
  ASSUME NEW given, NEW last, NEW sure, NEW config, NEW from,
         Given(given, last, sure, config, from)
  PROVE  Remembers(given, config)
BY LostNotKept DEF Given, LeftOf, Remembers

\* More settings may be given, none is taken back.
LEMMA GivenStays ==
  ASSUME NEW given, NEW more, given \subseteq more, NEW settings, Remembers(given, settings)
  PROVE  Remembers(more, settings)
BY DEF Remembers

-----------------------------------------------------------------------------
(* The steps *)

LEMMA InvInit == Init => Inv
BY DEF Init, Inv, Functions, WorkersGiven, HandsGiven, ListsGiven, Running, Idle

LEMMA InvImplies == Inv => FromOneCommand
BY DEF Inv, WorkersGiven, MayRun, Given, FromOneCommand

\* Tunnels that stop, and nothing else.
LEMMA StopsKeepWorkers ==
  ASSUME Inv, NEW S,
         worker' = [k \in Tunnels |-> IF k \in S THEN None ELSE worker[k]],
         UNCHANGED <<accepted, latest, overtaken>>
  PROVE  WorkersGiven' /\ worker' = [k \in Tunnels |-> worker'[k]]
BY DEF Inv, WorkersGiven, MayRun, Running

\* Where a terminal goes but for takeovers: no list of a takeover grows.
Moves(c, new) ==
  /\ term' = [term EXCEPT ![c] = new] /\ DOMAIN new = {"pc", "list", "export"}
  /\ \/ new.pc \notin {"confirm", "migrate"}
     \/ /\ term[c].pc \in {"confirm", "migrate"}
        /\ new.list \subseteq term[c].list /\ new.export = term[c].export

TermFacts ==
  /\ ListsGiven /\ term = [c \in Clis |-> term[c]]
  /\ \A c \in Clis : DOMAIN term[c] = {"pc", "list", "export"}

LEMMA MovesKeepLists ==
  ASSUME Inv, UNCHANGED accepted, NEW c \in Clis, NEW new, Moves(c, new)
  PROVE  TermFacts'
<1>1. term'[c] = new /\ \A o \in Clis \ {c} : term'[o] = term[o]
  BY DEF Inv, Functions, Moves
<1>2. term' = [o \in Clis |-> term'[o]]
  BY DEF Inv, Functions, Moves
<1>3. \A o \in Clis : DOMAIN term'[o] = {"pc", "list", "export"}
  BY <1>1 DEF Inv, Functions, Moves
<1>4. ListsGiven'
  BY <1>1 DEF Inv, ListsGiven, Moves
<1> QED
  BY <1>2, <1>3, <1>4 DEF TermFacts

LEMMA GoMoves ==
  ASSUME Inv, NEW c \in Clis, NEW pc, Go(c, pc),
         pc \notin {"confirm", "migrate"} \/ term[c].pc \in {"confirm", "migrate"}
  PROVE  Moves(c, [term[c] EXCEPT !.pc = pc])
BY DEF Inv, Functions, Go, Moves

LEMMA TermStays == ASSUME Inv, UNCHANGED <<term, accepted>> PROVE TermFacts'
BY DEF Inv, Functions, ListsGiven, TermFacts

LEMMA WorkersStay ==
  ASSUME Inv, UNCHANGED <<worker, accepted, latest, overtaken>>
  PROVE  WorkersGiven' /\ worker' = [k \in Tunnels |-> worker'[k]]
BY DEF Inv, Functions, WorkersGiven, MayRun, Running

\* The parts of the invariant, put together.
LEMMA Together ==
  ASSUME Inv, UNCHANGED <<accepted, latest>>, TermFacts', HandsGiven',
         WorkersGiven', worker' = [k \in Tunnels |-> worker'[k]]
  PROVE  Inv'
BY DEF Inv, Functions, TermFacts

LEMMA HandsStay ==
  ASSUME Inv, UNCHANGED <<accepted, latest, overtaken>>, hands' \subseteq hands
  PROVE  HandsGiven'
BY DEF Inv, HandsGiven, MayRun

\* A goroutine takes the Config of a running tunnel.
LEMMA HandTakes ==
  ASSUME Inv, UNCHANGED <<accepted, latest, overtaken>>, NEW k \in Tunnels, Running(k), NEW by,
         hands' = hands \cup {[tunnel |-> k, config |-> worker[k].config,
                               from |-> worker[k].from, by |-> by]}
  PROVE  HandsGiven'
<1>1. MayRun(k, worker[k].config, worker[k].from)
  BY DEF Inv, WorkersGiven
<1> QED
  BY <1>1 DEF Inv, HandsGiven, MayRun

LEMMA RestartingKeeps ==
  ASSUME Inv, UNCHANGED <<accepted, latest, overtaken>>, NEW k \in Tunnels, NEW by,
         Restarting(k, by)
  PROVE  HandsGiven' /\ WorkersGiven' /\ worker' = [o \in Tunnels |-> worker'[o]]
<1>1. HandsGiven'
  BY HandTakes DEF Restarting
<1>2. worker' = [o \in Tunnels |-> IF o \in {k} THEN None ELSE worker[o]]
  BY DEF Restarting, Inv, Functions
<1> QED
  BY <1>1, <1>2, StopsKeepWorkers

\* startWorker with a Config that the tunnel may run with.
LEMMA StartKeepsWorkers ==
  ASSUME Inv, UNCHANGED <<accepted, latest, overtaken>>, NEW k \in Tunnels, NEW config, NEW from,
         StartWorker(k, config, from), MayRun(k, config, from)
  PROVE  WorkersGiven' /\ worker' = [o \in Tunnels |-> worker'[o]]
<1>1. worker' = [o \in Tunnels |-> worker'[o]]
  BY DEF StartWorker, Inv, Functions
<1>2. worker'[k].config = config /\ worker'[k].from = from
      /\ \A o \in Tunnels \ {k} : worker'[o] = worker[o]
  BY DEF StartWorker, Inv, Functions
<1> QED
  BY <1>1, <1>2 DEF Inv, WorkersGiven, MayRun, Running

-----------------------------------------------------------------------------
(* The actions *)

LEMMA StartInv ==
  ASSUME Inv, NEW c \in Clis, NEW k \in Tunnels, NEW line \in Lines, Start(c, k, line)
  PROVE  Inv'
<1> DEFINE config == ConfigFromStartParams(BuildStartParams(LoadConfig(line)))
           asked == Asked(LoadConfig(line))
<1>1. LeftOf(asked, config, "start")
  BY StartLeaves
<1>2. /\ StartWorker(k, config, "start")
      /\ accepted' = [accepted EXCEPT ![k] = @ \cup {asked}]
      /\ latest' = [latest EXCEPT ![k] = asked]
      /\ overtaken' = IF \E h \in hands : h.tunnel = k THEN overtaken \cup {k}
                                                      ELSE overtaken \ {k}
      /\ UNCHANGED <<hands, term>>
  BY DEF Start
<1> HIDE DEF config, asked
<1>3. accepted'[k] = accepted[k] \cup {asked}
      /\ \A o \in Tunnels \ {k} : accepted'[o] = accepted[o]
  BY <1>2 DEF Inv, Functions
<1>4. latest'[k] = asked /\ \A o \in Tunnels \ {k} : latest'[o] = latest[o]
  BY <1>2 DEF Inv, Functions
<1>5. worker'[k].config = config /\ worker'[k].from = "start"
      /\ \A o \in Tunnels \ {k} : worker'[o] = worker[o]
  BY <1>2 DEF StartWorker, Inv, Functions
<1>6. Functions'
  BY <1>2 DEF StartWorker, Inv, Functions
<1>7. \A o \in Tunnels \ {k} : o \in overtaken' <=> o \in overtaken
  BY <1>2
<1>8. WorkersGiven'
  <2>1. Given(accepted'[k], latest'[k], k \notin overtaken', config, "start")
    BY <1>1, <1>3, <1>4 DEF Given
  <2>2. ASSUME NEW o \in Tunnels \ {k}, worker[o] # None
        PROVE  Given(accepted'[o], latest'[o], o \notin overtaken', worker[o].config,
                     worker[o].from)
    BY <1>3, <1>4, <1>7, <2>2 DEF Inv, WorkersGiven, MayRun, Running
  <2> QED
    BY <1>5, <2>1, <2>2 DEF WorkersGiven, Running, MayRun
<1>9. \A o \in Tunnels : accepted[o] \subseteq accepted'[o]
  BY <1>3
<1>10. HandsGiven'
  <2> SUFFICES ASSUME NEW h \in hands
               PROVE  /\ h.tunnel \in Tunnels
                      /\ Given(accepted'[h.tunnel], latest'[h.tunnel],
                               h.tunnel \notin overtaken', h.config, h.from)
    BY <1>2 DEF HandsGiven, MayRun
  <2>1. h.tunnel \in Tunnels
        /\ Given(accepted[h.tunnel], latest[h.tunnel], h.tunnel \notin overtaken,
                 h.config, h.from)
    BY DEF Inv, HandsGiven, MayRun
  <2>2. CASE h.tunnel = k
    <3>1. k \in overtaken'
      BY <1>2, <2>2
    <3>2. Given(accepted'[k], latest'[k], FALSE, h.config, h.from)
      BY <1>9, <2>1, <2>2 DEF Given
    <3> QED
      BY <2>1, <2>2, <3>1, <3>2
  <2>3. CASE h.tunnel # k
    BY <1>3, <1>4, <1>7, <2>1, <2>3
  <2> QED
    BY <2>2, <2>3
<1>11. ListsGiven'
  <2> SUFFICES ASSUME NEW o \in Clis, term[o].pc \in {"confirm", "migrate"},
                      NEW t \in term[o].list
               PROVE  t \in Tunnels /\ Remembers(accepted'[t], term[o].export[t])
    BY <1>2 DEF ListsGiven
  <2>1. t \in Tunnels /\ Remembers(accepted[t], term[o].export[t])
    BY DEF Inv, ListsGiven
  <2>2. accepted[t] \subseteq accepted'[t]
    BY <1>9, <2>1
  <2> QED
    BY <2>1, <2>2, GivenStays
<1> QED
  BY <1>6, <1>8, <1>10, <1>11 DEF Inv

LEMMA StopInv ==
  ASSUME Inv, NEW c \in Clis, NEW S, Stop(c, S)
  PROVE  Inv'
<1>1. UNCHANGED <<hands, term, accepted, latest, overtaken>>
  BY DEF Stop
<1>2. worker' = [k \in Tunnels |-> IF k \in S THEN None ELSE worker[k]]
  BY DEF Stop
<1> QED
  BY <1>1, <1>2, StopsKeepWorkers, HandsStay, TermStays, Together

LEMMA RestartInv ==
  ASSUME Inv, NEW c \in Clis, NEW k \in Tunnels, Restart(c, k)
  PROVE  Inv'
<1>1. UNCHANGED <<accepted, latest, overtaken>> /\ Restarting(k, c) /\ Go(c, "pause")
  BY DEF Restart, hist
<1>2. TermFacts'
  BY <1>1, GoMoves, MovesKeepLists
<1> QED
  BY <1>1, <1>2, RestartingKeeps, Together

LEMMA TickInv ==
  ASSUME Inv, NEW k \in Tunnels, LifetimeOver(k) \/ Revive(k)
  PROVE  Inv'
<1>1. UNCHANGED <<accepted, latest, overtaken, term>>
  BY DEF LifetimeOver, Revive, hist
<1>2. CASE LifetimeOver(k)
  <2>1. Restarting(k, "tick")
    BY <1>2 DEF LifetimeOver
  <2> QED
    BY <1>1, <2>1, RestartingKeeps, TermStays, Together
<1>3. CASE Revive(k)
  <2>1. HandsGiven'
    BY <1>1, <1>3, HandTakes DEF Revive
  <2>2. UNCHANGED worker
    BY <1>3 DEF Revive
  <2> QED
    BY <1>1, <2>1, <2>2, WorkersStay, TermStays, Together
<1> QED
  BY <1>2, <1>3

LEMMA HandStartsInv ==
  ASSUME Inv, NEW h \in hands, HandStarts(h)
  PROVE  Inv'
<1>1. h.tunnel \in Tunnels /\ MayRun(h.tunnel, h.config, h.from)
  BY DEF Inv, HandsGiven
<1>2. /\ StartWorker(h.tunnel, h.config, h.from) /\ hands' = hands \ {h}
      /\ UNCHANGED <<accepted, latest, overtaken>>
  BY DEF HandStarts, hist
<1>3. WorkersGiven' /\ worker' = [o \in Tunnels |-> worker'[o]]
  BY <1>1, <1>2, StartKeepsWorkers
<1>4. HandsGiven'
  BY <1>2, HandsStay
<1>5. CASE h.by \in Clis
  <2>1. PICK pc \in {"all", "idle"} : Go(h.by, pc)
    BY <1>5 DEF HandStarts
  <2>2. TermFacts'
    BY <1>2, <1>5, <2>1, GoMoves, MovesKeepLists
  <2> QED
    BY <1>2, <1>3, <1>4, <2>2, Together
<1>6. CASE h.by \notin Clis
  BY <1>2, <1>3, <1>4, <1>6, TermStays, Together DEF HandStarts
<1> QED
  BY <1>5, <1>6

LEMMA RestartNextInv ==
  ASSUME Inv, NEW c \in Clis, NEW k \in Tunnels, RestartNext(c, k)
  PROVE  Inv'
<1>1. UNCHANGED <<accepted, latest, overtaken>>
  BY DEF RestartNext, hist
<1> DEFINE new == [term[c] EXCEPT !.list = @ \ {k},
                                  !.pc = IF up /\ Running(k) THEN "allpause" ELSE "all"]
<1>2. Moves(c, new)
  BY DEF RestartNext, Moves, Inv, Functions
<1>3. TermFacts'
  BY <1>1, <1>2, MovesKeepLists
<1>4. CASE Restarting(k, c)
  BY <1>1, <1>3, <1>4, RestartingKeeps, Together
<1>5. CASE UNCHANGED <<worker, hands>>
  BY <1>1, <1>3, <1>5, WorkersStay, HandsStay, Together
<1> QED
  BY <1>4, <1>5 DEF RestartNext

\* The steps of a terminal that leave the daemon alone.
LEMMA TerminalInv ==
  ASSUME Inv, NEW c \in Clis,
         RestartAll(c) \/ RestartAllDone(c) \/ Broken(c) \/ Declined(c) \/ MigrateDone(c)
  PROVE  Inv'
<1>1. UNCHANGED <<worker, hands, accepted, latest, overtaken>>
  BY DEF RestartAll, RestartAllDone, Broken, Declined, MigrateDone, hist
<1>2. TermFacts'
  <2>1. CASE RestartAll(c)
    <3> DEFINE new == [term[c] EXCEPT !.pc = "all", !.list = {k \in Tunnels : Running(k)}]
    <3>1. Moves(c, new)
      BY <2>1 DEF RestartAll, Moves, Inv, Functions
    <3> QED
      BY <1>1, <3>1, MovesKeepLists
  <2>2. CASE RestartAllDone(c) \/ Broken(c)
    <3>1. PICK pc \in {"all", "idle"} : Go(c, pc)
      BY <2>2 DEF RestartAllDone, Broken
    <3> QED
      BY <1>1, <3>1, GoMoves, MovesKeepLists
  <2>3. CASE Declined(c) \/ MigrateDone(c)
    <3>1. Moves(c, Idle)
      BY <2>3 DEF Declined, MigrateDone, Moves, Idle
    <3> QED
      BY <1>1, <3>1, MovesKeepLists
  <2> QED
    BY <2>1, <2>2, <2>3
<1> QED
  BY <1>1, <1>2, WorkersStay, HandsStay, Together

LEMMA ExportInv ==
  ASSUME Inv, NEW c \in Clis, Export(c)
  PROVE  Inv'
<1> DEFINE S == {k \in Tunnels : Running(k)}
           export == [k \in S |-> ExportOf(worker[k].config)]
           new == [pc |-> "confirm", list |-> S, export |-> export]
<1>1. UNCHANGED <<worker, hands, accepted, latest, overtaken>>
  BY DEF Export, hist
<1>2. term' = [term EXCEPT ![c] = new]
  BY DEF Export
<1>3. ASSUME NEW k \in S
      PROVE  k \in Tunnels /\ Remembers(accepted[k], export[k])
  <2>1. Given(accepted[k], latest[k], k \notin overtaken, worker[k].config, worker[k].from)
    BY DEF Inv, WorkersGiven, MayRun
  <2>2. Remembers(accepted[k], worker[k].config)
    BY <2>1, GivenRemembers
  <2>3. export[k] = ExportOf(worker[k].config)
    OBVIOUS
  <2> HIDE DEF export
  <2>4. \A f \in Kept : export[k][f] = worker[k].config[f]
    BY <2>3, ExportKeeps
  <2> QED
    BY <2>2, <2>4 DEF Remembers
<1>4. DOMAIN new = {"pc", "list", "export"} /\ new.list = S /\ new.export = export
  OBVIOUS
<1> HIDE DEF new, S, export
<1>5. term'[c] = new /\ \A o \in Clis \ {c} : term'[o] = term[o]
  BY <1>2 DEF Inv, Functions
<1>6. term' = [o \in Clis |-> term'[o]]
  BY <1>2 DEF Inv, Functions
<1>7. \A o \in Clis : DOMAIN term'[o] = {"pc", "list", "export"}
  BY <1>4, <1>5 DEF Inv, Functions
<1>8. ListsGiven'
  <2> SUFFICES ASSUME NEW o \in Clis, term'[o].pc \in {"confirm", "migrate"},
                      NEW k \in term'[o].list
               PROVE  k \in Tunnels /\ Remembers(accepted[k], term'[o].export[k])
    BY <1>1 DEF ListsGiven
  <2>1. CASE o = c
    BY <1>3, <1>4, <1>5, <2>1
  <2>2. CASE o # c
    BY <1>5, <2>2 DEF Inv, ListsGiven
  <2> QED
    BY <2>1, <2>2
<1>9. TermFacts'
  BY <1>6, <1>7, <1>8 DEF TermFacts
<1> QED
  BY <1>1, <1>9, WorkersStay, HandsStay, Together

LEMMA KillInv ==
  ASSUME Inv, NEW c \in Clis, Kill(c)
  PROVE  Inv'
<1>1. UNCHANGED <<accepted, latest, overtaken>> /\ hands' = {}
  BY DEF Kill
<1>2. worker' = [k \in Tunnels |-> IF k \in Tunnels THEN None ELSE worker[k]]
  BY DEF Kill
<1>3. term[c].pc = "confirm" /\ Go(c, "migrate")
  BY DEF Kill
<1>4. TermFacts'
  BY <1>1, <1>3, GoMoves, MovesKeepLists
<1> QED
  BY <1>1, <1>2, <1>4, StopsKeepWorkers, HandsStay, Together

LEMMA MigrateInv ==
  ASSUME Inv, NEW c \in Clis, NEW k \in Tunnels, Migrate(c, k)
  PROVE  Inv'
<1> DEFINE exported == term[c].export[k]
           config == ConfigFromStartParams(MigratedConfig(exported))
           new == [term[c] EXCEPT !.list = @ \ {k}]
<1>1. UNCHANGED <<hands, accepted, latest, overtaken>>
  BY DEF Migrate
<1>2. Moves(c, new)
  BY DEF Migrate, Moves, Inv, Functions
<1>3. TermFacts'
  BY <1>1, <1>2, MovesKeepLists
<1>4. CASE up
  <2>1. Remembers(accepted[k], exported)
    BY DEF Migrate, Inv, ListsGiven
  <2>2. \A f \in Kept : config[f] = exported[f]
    BY TakeoverKeeps
  <2>3. \A f \in Fields \ Kept : config[f] = Fallback[f]
    BY TakeoverFallsBack
  <2>4. StartWorker(k, config, "takeover")
    BY <1>4 DEF Migrate
  <2> HIDE DEF config, exported
  <2>5. PICK asked \in accepted[k] : \A f \in Kept : asked[f] = exported[f]
    BY <2>1 DEF Remembers
  <2>6. LeftOf(asked, config, "takeover")
    BY <2>2, <2>3, <2>5, LostNotKept DEF LeftOf
  <2>7. MayRun(k, config, "takeover")
    BY <2>5, <2>6 DEF MayRun, Given
  <2> QED
    BY <1>1, <1>3, <2>4, <2>7, StartKeepsWorkers, HandsStay, Together
<1>5. CASE ~up
  <2>1. UNCHANGED worker
    BY <1>5 DEF Migrate
  <2> QED
    BY <1>1, <1>3, <2>1, WorkersStay, HandsStay, Together
<1> QED
  BY <1>4, <1>5

LEMMA NothingInv ==
  ASSUME Inv, DaemonComesUp \/ UNCHANGED vars
  PROVE  Inv'
<1>1. UNCHANGED <<worker, hands, term, accepted, latest, overtaken>>
  BY DEF DaemonComesUp, vars, hist
<1> QED
  BY <1>1, WorkersStay, HandsStay, TermStays, Together

LEMMA NextInv == Inv /\ [Next]_vars => Inv'
<1> SUFFICES ASSUME Inv, [Next]_vars PROVE Inv'
  OBVIOUS
<1>1. ASSUME NEW c \in Clis, NEW k \in Tunnels, NEW line \in Lines, Start(c, k, line)
      PROVE  Inv'
  BY <1>1, StartInv
<1>2. ASSUME NEW c \in Clis, NEW k \in Tunnels, StopOne(c, k) \/ Restart(c, k)
      PROVE  Inv'
  BY <1>2, StopInv, RestartInv DEF StopOne
<1>3. ASSUME NEW c \in Clis, StopAll(c) PROVE Inv'
  BY <1>3, StopInv DEF StopAll
<1>4. ASSUME NEW c \in Clis, Export(c) \/ Kill(c) PROVE Inv'
  BY <1>4, ExportInv, KillInv
<1>5. ASSUME NEW c \in Clis, RestartAll(c) \/ Declined(c) PROVE Inv'
  BY <1>5, TerminalInv
<1>6. ASSUME NEW c \in Clis, Progress(c) PROVE Inv'
  BY <1>6, TerminalInv, RestartNextInv, MigrateInv DEF Progress
<1>7. ASSUME NEW k \in Tunnels, LifetimeOver(k) \/ Revive(k) PROVE Inv'
  BY <1>7, TickInv
<1>8. ASSUME NEW h \in hands, HandStarts(h) PROVE Inv'
  BY <1>8, HandStartsInv
<1>9. CASE DaemonComesUp \/ UNCHANGED vars
  BY <1>9, NothingInv
<1> QED
  BY <1>1, <1>2, <1>3, <1>4, <1>5, <1>6, <1>7, <1>8, <1>9 DEF Next

-----------------------------------------------------------------------------
(* The theorem *)

\* Each of the nine settings of a running tunnel is that of one command given for it
\* or the fallback of a field its way loses (compression, and six fields after a
\* takeover); the command is the last one, unless an older start was under way when
\* it was given or a takeover brought the tunnel: whatever starts, restarts,
\* lifetimes, revivals and takeovers there are and in whatever order
\* (daemon.go:308, daemon.go:549, main.go:1277).
THEOREM TunnelsRunFromOneCommand == Spec => []FromOneCommand
<1>1. Init => Inv
  BY InvInit
<1>2. Inv /\ [Next]_vars => Inv'
  BY NextInv
<1>3. Inv => FromOneCommand
  BY InvImplies
<1> QED
  BY <1>1, <1>2, <1>3, PTL DEF Spec

-----------------------------------------------------------------------------
(* The printed command.  formatCommandResponse prints "udp" and "both" only,   *)
(* so RerunKeeps rests on what every way into the map has in common: the       *)
(* protocol of a worker's Config is normalized, though a mistyped --proto and  *)
(* an exported tunnel without one come in as they are.                         *)

Protocols == {"tcp", "udp", "both"}

ProtosNormal ==
  /\ \A k \in Tunnels : Running(k) => worker[k].config.proto \in Protocols
  /\ \A h \in hands : h.config.proto \in Protocols

LEMMA CommandKeeps ==
  ASSUME NEW config, config.password # "", config.proto \in Protocols \ {"tcp"},
         NEW f \in {"host", "target", "password", "identity", "proto"}
  PROVE  LoadConfig(CommandOf(config))[f] = config[f]
<1> DEFINE line == CommandOf(config)
           flag == line.flag
           env == line.env
<1>1. line.host = config.host /\ line.target = config.target
  BY DEF CommandOf
<1>2. /\ flag.password = config.password /\ flag.identity = config.identity
      /\ flag.proto = config.proto
  BY DEF CommandOf, Protocols
<1>3. env.identity = Unset /\ env.proto = Unset
  BY DEF CommandOf, NoEnv
<1> HIDE DEF line
<1>4. FlagOrEnv(line, "password", flag.password # "", "") = config.password
  BY <1>2 DEF FlagOrEnv
<1>5. FlagOrEnv(line, "identity", flag.identity # "", "") = config.identity
  BY <1>2, <1>3 DEF FlagOrEnv
<1>6. NormalizeProto(Effective(line, "proto")) = config.proto
  BY <1>2, <1>3 DEF Effective, NormalizeProto, Protocols
<1>7. /\ LoadConfig(line).host = config.host /\ LoadConfig(line).target = config.target
      /\ LoadConfig(line).password = config.password
      /\ LoadConfig(line).identity = config.identity
      /\ LoadConfig(line).proto = config.proto
  BY <1>1, <1>4, <1>5, <1>6 DEF LoadConfig
<1> QED
  BY <1>7 DEF line

LEMMA DaemonNormalizes ==
  ASSUME NEW params
  PROVE  ConfigFromStartParams(params).proto \in Protocols
BY DEF ConfigFromStartParams, NormalizeProto, Protocols

(* A worker starts with a normal protocol, stops, or stays. *)
LEMMA NormalStart ==
  ASSUME Inv, ProtosNormal, NEW k \in Tunnels, NEW config, NEW from,
         StartWorker(k, config, from), config.proto \in Protocols, hands' \subseteq hands
  PROVE  ProtosNormal'
<1>1. worker'[k].config = config /\ \A o \in Tunnels \ {k} : worker'[o] = worker[o]
  BY DEF StartWorker, Inv, Functions
<1> QED
  BY <1>1 DEF ProtosNormal, Running

LEMMA NormalStop ==
  ASSUME ProtosNormal, \A k \in Tunnels : worker'[k] \in {None, worker[k]},
         hands' \subseteq hands
  PROVE  ProtosNormal'
BY DEF ProtosNormal, Running

LEMMA NormalTake ==
  ASSUME ProtosNormal, \A k \in Tunnels : worker'[k] \in {None, worker[k]},
         NEW k \in Tunnels, Running(k), NEW by,
         hands' = hands \cup {[tunnel |-> k, config |-> worker[k].config,
                               from |-> worker[k].from, by |-> by]}
  PROVE  ProtosNormal'
<1>1. worker[k].config.proto \in Protocols
  BY DEF ProtosNormal
<1> QED
  BY <1>1 DEF ProtosNormal, Running

LEMMA NormalRestarting ==
  ASSUME Inv, ProtosNormal, NEW k \in Tunnels, NEW by, Restarting(k, by)
  PROVE  ProtosNormal'
<1>1. \A o \in Tunnels : worker'[o] \in {None, worker[o]}
  BY DEF Restarting, Inv, Functions
<1> QED
  BY <1>1, NormalTake DEF Restarting

LEMMA NormalNext == Inv /\ ProtosNormal /\ [Next]_vars => ProtosNormal'
<1> SUFFICES ASSUME Inv, ProtosNormal, [Next]_vars PROVE ProtosNormal'
  OBVIOUS
<1>1. ASSUME NEW c \in Clis, NEW k \in Tunnels, NEW line \in Lines, Start(c, k, line)
      PROVE  ProtosNormal'
  <2> DEFINE config == ConfigFromStartParams(BuildStartParams(LoadConfig(line)))
  <2>1. config.proto \in Protocols
    BY DaemonNormalizes
  <2>2. StartWorker(k, config, "start") /\ hands' = hands
    BY <1>1 DEF Start
  <2> HIDE DEF config
  <2> QED
    BY <2>1, <2>2, NormalStart
<1>2. ASSUME NEW c \in Clis, NEW S, Stop(c, S) PROVE ProtosNormal'
  BY <1>2, NormalStop DEF Stop
<1>3. ASSUME NEW c \in Clis, NEW k \in Tunnels, Restart(c, k) PROVE ProtosNormal'
  BY <1>3, NormalRestarting DEF Restart
<1>4. ASSUME NEW k \in Tunnels, LifetimeOver(k) \/ Revive(k) PROVE ProtosNormal'
  <2>1. CASE LifetimeOver(k)
    BY <2>1, NormalRestarting DEF LifetimeOver
  <2>2. CASE Revive(k)
    BY <2>2, NormalTake DEF Revive
  <2> QED
    BY <1>4, <2>1, <2>2
<1>5. ASSUME NEW h \in hands, HandStarts(h) PROVE ProtosNormal'
  <2>1. h.tunnel \in Tunnels /\ h.config.proto \in Protocols
    BY DEF Inv, HandsGiven, ProtosNormal
  <2> QED
    BY <1>5, <2>1, NormalStart DEF HandStarts
<1>6. ASSUME NEW c \in Clis, NEW k \in Tunnels, RestartNext(c, k) PROVE ProtosNormal'
  <2>1. CASE up /\ Running(k)
    BY <1>6, <2>1, NormalRestarting DEF RestartNext
  <2>2. CASE ~(up /\ Running(k))
    BY <1>6, <2>2, NormalStop DEF RestartNext
  <2> QED
    BY <2>1, <2>2
<1>7. ASSUME NEW c \in Clis, NEW k \in Tunnels, Migrate(c, k) PROVE ProtosNormal'
  <2> DEFINE config == ConfigFromStartParams(MigratedConfig(term[c].export[k]))
  <2>1. config.proto \in Protocols
    BY DaemonNormalizes
  <2>2. CASE up
    <3>1. StartWorker(k, config, "takeover") /\ hands' = hands
      BY <1>7, <2>2 DEF Migrate
    <3> HIDE DEF config
    <3> QED
      BY <2>1, <3>1, NormalStart
  <2>3. CASE ~up
    BY <1>7, <2>3, NormalStop DEF Migrate
  <2> QED
    BY <2>2, <2>3
<1>8. ASSUME NEW c \in Clis, Kill(c) PROVE ProtosNormal'
  BY <1>8, NormalStop DEF Kill
<1>9. CASE DaemonComesUp \/ UNCHANGED vars
           \/ \E c \in Clis : \/ RestartAll(c) \/ Export(c) \/ Declined(c)
                              \/ RestartAllDone(c) \/ Broken(c) \/ MigrateDone(c)
  <2>1. UNCHANGED <<worker, hands>>
    BY <1>9 DEF DaemonComesUp, vars, RestartAll, Export, Declined, RestartAllDone,
                Broken, MigrateDone
  <2> QED
    BY <2>1, NormalStop
<1> QED
  BY <1>1, <1>2, <1>3, <1>4, <1>5, <1>6, <1>7, <1>8, <1>9
     DEF Next, Progress, StopOne, StopAll

\* The command printed for a running tunnel, read again by the command line's own
\* rules, gives that tunnel's host, target, password, identity and protocol, for
\* every tunnel with a password and not for TCP alone, however it came to run
\* (daemon.go:889-903).
THEOREM PrintedCommandStartsSame == Spec => []RerunKeeps
<1>1. Init => Inv /\ ProtosNormal
  BY InvInit DEF Init, ProtosNormal, Running
<1>2. Inv /\ ProtosNormal /\ [Next]_vars => Inv' /\ ProtosNormal'
  BY NextInv, NormalNext
<1>3. ProtosNormal => RerunKeeps
  BY CommandKeeps DEF ProtosNormal, RerunKeeps
<1> QED
  BY <1>1, <1>2, <1>3, PTL DEF Spec
=============================================================================
