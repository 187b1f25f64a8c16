--------------------------- MODULE StartUpProofs ----------------------------
(***************************************************************************)
(* Proofs about StartUp, for every set of deployments, parameter table,    *)
(* set of mDNS answers and number of retries.  The start-up keeps every    *)
(* property of SlaveResolver, because it implements it.                    *)
(***************************************************************************)
EXTENDS StartUp, SlaveResolverProofs

Label ==
  {"nvs_flash_init", "esp_netif_init", "esp_event_loop_create_default",
   "start_mdns_service", "initialize_mdns", "initialise_mdns",
   "example_connect", "esp_wifi_set_ps", "init_fs", "start_rest_server",
   "master_init", "slave_init", "example_disconnect", "query", "mdns_free",
   "is_time_set", "wait_for_time", "esp_deep_sleep", "running"}

Part == {"mdns", "network", "fs", "web", "modbus"}

\* The types of what StartUp adds to SlaveResolver.
ChipTypes ==
  /\ powered \in Deployments
  /\ at \in [Chip -> Label] /\ up \in [Chip -> SUBSET Part]
  /\ nvs \in [Chip -> {"good", "stale"}]
  /\ timeSet \in BOOLEAN /\ waits \in 0..(RetryCount - 1)

\* What a program has brought up by the time it makes a call.
RtuBrought ==
  /\ at["rtu"] \in {"example_connect", "esp_wifi_set_ps", "slave_init", "running"}
       => "mdns" \in up["rtu"]
  /\ at["rtu"] \in {"esp_wifi_set_ps", "slave_init", "running"}
       => "network" \in up["rtu"]
  /\ at["rtu"] = "running" => "modbus" \in up["rtu"]
  /\ "web" \notin up["rtu"]

MasterBrought ==
  /\ at["master"] \in {"esp_wifi_set_ps", "init_fs", "start_rest_server", "query",
                       "mdns_free", "master_init", "running"}
       => "network" \in up["master"]
  /\ at["master"] \in {"start_rest_server", "query", "mdns_free", "master_init",
                       "running"}
       => "fs" \in up["master"]
  /\ at["master"] \in {"query", "mdns_free", "master_init", "running"}
       => "web" \in up["master"]
  /\ at["master"] = "running" => "modbus" \in up["master"]
  /\ "web" \in up["master"] => {"fs", "network"} \subseteq up["master"]

RestBrought ==
  /\ at["rest"] \in {"example_connect", "init_fs", "start_rest_server", "running"}
       => "mdns" \in up["rest"]
  /\ at["rest"] \in {"init_fs", "start_rest_server", "running"}
       => "network" \in up["rest"]
  /\ at["rest"] \in {"start_rest_server", "running"} => "fs" \in up["rest"]
  /\ at["rest"] = "running" => "web" \in up["rest"]
  /\ "web" \in up["rest"] => {"fs", "network"} \subseteq up["rest"]

\* A clock with the time is offline only where it does not connect any more.
ClockBrought ==
  /\ at["clock"] \in {"wait_for_time", "example_disconnect"}
       => "network" \in up["clock"]
  /\ timeSet /\ "network" \notin up["clock"]
       => at["clock"] \in {"is_time_set", "esp_deep_sleep"}
  /\ "web" \notin up["clock"]

\* The resolver works while init_services queries, and not before.
ResolverInStep ==
  /\ at["master"] = "running" <=> step = "polling"
  /\ at["master"] \in {"mdns_free", "master_init"} <=> step = "done"
  /\ step \in {"walk", "failed"} => at["master"] = "query"

BootInv ==
  /\ ChipTypes
  /\ RtuBrought /\ MasterBrought /\ RestBrought /\ ClockBrought
  /\ ResolverInStep

-----------------------------------------------------------------------------
(* What one step does *)

\* A step of app_main: one chip goes on, and may have brought something up;
\* nothing that is up goes down.
LEMMA BringsEffect ==
  ASSUME ChipTypes, NEW c \in Chip, NEW call, NEW what \in SUBSET Part, NEW next,
         Brings(c, call, what, next)
  PROVE  /\ at[c] = call /\ at'[c] = next /\ up'[c] = up[c] \cup what
         /\ at' = [at EXCEPT ![c] = next]
         /\ up' \in [Chip -> SUBSET Part]
         /\ \A d \in Chip : d # c => at'[d] = at[d] /\ up'[d] = up[d]
         /\ UNCHANGED <<powered, nvs, timeSet, waits>>
  BY DEF Brings, Returns, In, ChipTypes, clock

\* Rebooting a chip that is not in the middle of a query.
LEMMA RebootEffect ==
  ASSUME ChipTypes, NEW c \in Chip, Reboot(c)
  PROVE  /\ at'[c] = First[c] /\ up'[c] = {}
         /\ at' \in [Chip -> Label] /\ up' \in [Chip -> SUBSET Part]
         /\ \A d \in Chip : d # c => at'[d] = at[d] /\ up'[d] = up[d]
         /\ c = "clock" => timeSet' \in {timeSet, FALSE}
         /\ c # "clock" => timeSet' = timeSet
         /\ timeSet' \in BOOLEAN /\ waits' \in 0..(RetryCount - 1)
         /\ UNCHANGED <<powered, nvs>>
         /\ c = "master" => step' = "query" /\ (UNCHANGED resolver \/ Restart)
         /\ c # "master" => UNCHANGED resolver
<1>1. First[c] \in Label
  BY DEF First, Label
<1>2. timeSet' \in BOOLEAN
  BY Zenon DEF Reboot, ChipTypes, clock
<1>3. 0 \in 0..(RetryCount - 1)
  BY RetryAssumption
<1>4. c = "master" => step' = "query" /\ (UNCHANGED resolver \/ Restart)
  BY DEF Reboot, Restart, resolver, vars
<1> QED BY <1>1, <1>2, <1>3, <1>4 DEF Reboot, ChipTypes, clock

\* The calls that bring something up, with what they bring and what follows.
Bringing(c, call, what, next) ==
  /\ c \in Chip /\ what \in SUBSET Part /\ next \in Label
  /\ Brings(c, call, what, next)

LEMMA BringsActions ==
  ASSUME NEW c \in Chip
  PROVE  /\ NetifInit(c) =>
              Bringing(c, "esp_netif_init", {}, "esp_event_loop_create_default")
         /\ EventLoopCreate(c) =>
              Bringing(c, "esp_event_loop_create_default", {}, AfterEventLoop[c])
         /\ ExampleConnect(c) =>
              Bringing(c, "example_connect", {"network"}, AfterConnect[c])
         /\ WifiSetPs(c) => Bringing(c, "esp_wifi_set_ps", {}, AfterSetPs[c])
         /\ InitFs(c) => Bringing(c, "init_fs", {"fs"}, "start_rest_server")
         /\ StartRestServer(c) =>
              Bringing(c, "start_rest_server", {"web"}, AfterRestServer[c])
  BY DEF Chip, Part, Label, Bringing, NetifInit, EventLoopCreate, ExampleConnect,
         WifiSetPs, InitFs, StartRestServer, AfterEventLoop, AfterConnect,
         AfterSetPs, AfterRestServer

LEMMA OwnBringsActions ==
  /\ StartMdnsService =>
       Bringing("rtu", "start_mdns_service", {"mdns"}, "example_connect")
  /\ SlaveInit => Bringing("rtu", "slave_init", {"modbus"}, "running")
  /\ InitialiseMdns =>
       Bringing("rest", "initialise_mdns", {"mdns"}, "example_connect")
  /\ InitializeMdns =>
       Bringing("master", "initialize_mdns", {"mdns"}, "example_connect")
  /\ MasterInit => Bringing("master", "master_init", {"modbus"}, "running")
  BY DEF Chip, Part, Label, Bringing, StartMdnsService, SlaveInit, InitialiseMdns,
         InitializeMdns, MasterInit

\* The four ways a step of BootNext can go.
Bring ==
  \/ \E c \in Chip : NetifInit(c) \/ EventLoopCreate(c) \/ ExampleConnect(c)
                       \/ WifiSetPs(c) \/ InitFs(c) \/ StartRestServer(c)
  \/ StartMdnsService \/ SlaveInit \/ InitialiseMdns \/ InitializeMdns
  \/ MasterInit
Restarts == (\E c \in Chip : Abort(c) \/ Crash(c)) \/ GivesUp
Nvs == \E c \in Chip : NvsFlashInit(c)
Rest == Query \/ QueryEnds \/ MdnsFree \/ IsTimeSet \/ WaitForTime
          \/ ExampleDisconnect \/ Wake \/ SntpAnswers

LEMMA BootCases == BootNext => Bring \/ Restarts \/ Nvs \/ Rest
  BY DEF BootNext, AppMain, RtuAppMain, MasterAppMain, RestAppMain, ClockAppMain,
         RtuInitServices, MasterInitServices, ObtainTime, Common, Bring, Restarts,
         Nvs, Rest, Chip

-----------------------------------------------------------------------------
(* The initial states *)

LEMMA BootInitial == BootInit => BootInv /\ Init
<1> SUFFICES ASSUME BootInit PROVE BootInv
  BY DEF BootInit
<1>1. timeSet \in BOOLEAN
  BY Zenon DEF BootInit
<1>2. ChipTypes
  <2>1. First \in [Chip -> Label] /\ 0 \in 0..(RetryCount - 1)
    BY RetryAssumption DEF First, Label
  <2> QED BY <1>1, <2>1 DEF BootInit, ChipTypes
<1>3. RtuBrought /\ MasterBrought /\ RestBrought /\ ClockBrought
  BY DEF BootInit, First, Chip, RtuBrought, MasterBrought, RestBrought,
         ClockBrought
<1>4. ResolverInStep
  BY DEF BootInit, Init, First, Chip, ResolverInStep
<1> QED BY <1>2, <1>3, <1>4 DEF BootInv

-----------------------------------------------------------------------------
(* Types *)

LEMMA BootTypeStep ==
  ASSUME ChipTypes, BootNext
  PROVE  ChipTypes'
<1>1. ASSUME NEW c \in Chip, NEW call, NEW what, NEW next,
             Bringing(c, call, what, next)
      PROVE  ChipTypes'
  <2>1. c \in Chip /\ what \in SUBSET Part /\ next \in Label
        /\ Brings(c, call, what, next)
    BY <1>1 DEF Bringing
  <2>2. /\ at' = [at EXCEPT ![c] = next] /\ up' \in [Chip -> SUBSET Part]
        /\ UNCHANGED <<powered, nvs, timeSet, waits>>
    BY <2>1, BringsEffect
  <2> QED BY <2>1, <2>2 DEF ChipTypes
<1>2. CASE Bring
  BY <1>1, <1>2, BringsActions, OwnBringsActions DEF Bring, Chip
<1>3. CASE Restarts
  <2>1. PICK c \in Chip : Reboot(c)
    BY <1>3 DEF Restarts, Abort, Crash, GivesUp, Chip
  <2> QED BY <2>1, RebootEffect DEF ChipTypes
<1>4. CASE Nvs
  <2>1. PICK c \in Chip : NvsFlashInit(c)
    BY <1>4 DEF Nvs
  <2> QED BY <2>1 DEF NvsFlashInit, Returns, In, ChipTypes, Label, clock
<1>5. CASE Query
  BY <1>5 DEF Query, ChipTypes, clock
<1>6. CASE QueryEnds
  BY <1>6 DEF QueryEnds, ChipTypes, Label, clock
<1>7. CASE MdnsFree
  BY <1>7 DEF MdnsFree, Returns, In, ChipTypes, Label, clock
<1>8. CASE IsTimeSet
  BY <1>8 DEF IsTimeSet, Returns, In, ChipTypes, Label, clock
<1>9. CASE WaitForTime
  BY <1>9, RetryAssumption DEF WaitForTime, Returns, In, ChipTypes, Label
<1>10. CASE ExampleDisconnect
  BY <1>10 DEF ExampleDisconnect, Returns, In, ChipTypes, Label, clock
<1>11. CASE Wake
  BY <1>11 DEF Wake, Returns, In, ChipTypes, Label, clock
<1>12. CASE SntpAnswers
  <2>1. timeSet' \in BOOLEAN
    BY <1>12, Zenon DEF SntpAnswers
  <2> QED BY <1>12, <2>1 DEF SntpAnswers, ChipTypes
<1> QED
  BY <1>2, <1>3, <1>4, <1>5, <1>6, <1>7, <1>8, <1>9, <1>10, <1>11, <1>12,
     BootCases DEF Rest

-----------------------------------------------------------------------------
(* What has been brought up *)

\* How the step of one chip looks to the others and to the clock.
Effect(c, call, what, next) ==
  /\ at[c] = call /\ at'[c] = next /\ up'[c] = up[c] \cup what
  /\ \A d \in Chip : d # c => at'[d] = at[d] /\ up'[d] = up[d]
  /\ timeSet' = timeSet

LEMMA BringingEffect ==
  ASSUME ChipTypes, NEW c, NEW call, NEW what, NEW next,
         Bringing(c, call, what, next)
  PROVE  c \in Chip /\ Effect(c, call, what, next)
  BY BringsEffect DEF Bringing, Effect

Brought == RtuBrought /\ MasterBrought /\ RestBrought /\ ClockBrought

LEMMA RtuKeeps ==
  ASSUME Brought, NEW call, NEW what, NEW next, Effect("rtu", call, what, next),
         RtuBrought'
  PROVE  Brought'
  BY DEF Effect, Brought, MasterBrought, RestBrought, ClockBrought, Chip

LEMMA MasterKeeps ==
  ASSUME Brought, NEW call, NEW what, NEW next, Effect("master", call, what, next),
         MasterBrought'
  PROVE  Brought'
  BY DEF Effect, Brought, RtuBrought, RestBrought, ClockBrought, Chip

LEMMA RestKeeps ==
  ASSUME Brought, NEW call, NEW what, NEW next, Effect("rest", call, what, next),
         RestBrought'
  PROVE  Brought'
  BY DEF Effect, Brought, RtuBrought, MasterBrought, ClockBrought, Chip

LEMMA ClockKeeps ==
  ASSUME Brought, NEW call, NEW what, NEW next, Effect("clock", call, what, next),
         ClockBrought'
  PROVE  Brought'
  BY DEF Effect, Brought, RtuBrought, MasterBrought, RestBrought, Chip

LEMMA RtuBrings ==
  ASSUME RtuBrought
  PROVE  /\ Effect("rtu", "esp_netif_init", {}, "esp_event_loop_create_default")
              => RtuBrought'
         /\ Effect("rtu", "esp_event_loop_create_default", {},
                   "start_mdns_service") => RtuBrought'
         /\ Effect("rtu", "start_mdns_service", {"mdns"}, "example_connect")
              => RtuBrought'
         /\ Effect("rtu", "example_connect", {"network"}, "esp_wifi_set_ps")
              => RtuBrought'
         /\ Effect("rtu", "esp_wifi_set_ps", {}, "slave_init") => RtuBrought'
         /\ Effect("rtu", "slave_init", {"modbus"}, "running") => RtuBrought'
  BY DEF Effect, RtuBrought

LEMMA MasterBrings ==
  ASSUME MasterBrought
  PROVE  /\ Effect("master", "esp_netif_init", {},
                   "esp_event_loop_create_default") => MasterBrought'
         /\ Effect("master", "esp_event_loop_create_default", {},
                   "initialize_mdns") => MasterBrought'
         /\ Effect("master", "initialize_mdns", {"mdns"}, "example_connect")
              => MasterBrought'
         /\ Effect("master", "example_connect", {"network"}, "esp_wifi_set_ps")
              => MasterBrought'
         /\ Effect("master", "esp_wifi_set_ps", {}, "init_fs") => MasterBrought'
         /\ Effect("master", "init_fs", {"fs"}, "start_rest_server")
              => MasterBrought'
         /\ Effect("master", "start_rest_server", {"web"}, "query")
              => MasterBrought'
         /\ Effect("master", "master_init", {"modbus"}, "running")
              => MasterBrought'
  BY DEF Effect, MasterBrought

LEMMA RestBrings ==
  ASSUME RestBrought
  PROVE  /\ Effect("rest", "esp_netif_init", {}, "esp_event_loop_create_default")
              => RestBrought'
         /\ Effect("rest", "esp_event_loop_create_default", {},
                   "initialise_mdns") => RestBrought'
         /\ Effect("rest", "initialise_mdns", {"mdns"}, "example_connect")
              => RestBrought'
         /\ Effect("rest", "example_connect", {"network"}, "init_fs")
              => RestBrought'
         /\ Effect("rest", "init_fs", {"fs"}, "start_rest_server")
              => RestBrought'
         /\ Effect("rest", "start_rest_server", {"web"}, "running")
              => RestBrought'
  BY DEF Effect, RestBrought

LEMMA ClockBrings ==
  ASSUME ClockBrought
  PROVE  /\ Effect("clock", "esp_netif_init", {},
                   "esp_event_loop_create_default") => ClockBrought'
         /\ Effect("clock", "esp_event_loop_create_default", {},
                   "example_connect") => ClockBrought'
         /\ Effect("clock", "example_connect", {"network"}, "wait_for_time")
              => ClockBrought'
  BY DEF Effect, ClockBrought

LEMMA BringsKeeps ==
  ASSUME ChipTypes, Brought, Bring
  PROVE  Brought'
<1> USE RtuKeeps, MasterKeeps, RestKeeps, ClockKeeps
<1>1. RtuBrought /\ MasterBrought /\ RestBrought /\ ClockBrought
  BY DEF Brought
<1>2. ASSUME NEW c \in Chip, NetifInit(c) PROVE Brought'
  <2>1. Effect(c, "esp_netif_init", {}, "esp_event_loop_create_default")
    BY <1>2, BringsActions, BringingEffect
  <2> QED
    BY <1>1, <2>1, RtuBrings, MasterBrings, RestBrings, ClockBrings DEF Chip
<1>3. ASSUME NEW c \in Chip, EventLoopCreate(c) PROVE Brought'
  <2>1. Effect(c, "esp_event_loop_create_default", {}, AfterEventLoop[c])
    BY <1>3, BringsActions, BringingEffect
  <2> QED
    BY <1>1, <2>1, RtuBrings, MasterBrings, RestBrings, ClockBrings
       DEF Chip, AfterEventLoop
<1>4. ASSUME NEW c \in Chip, ExampleConnect(c) PROVE Brought'
  <2>1. Effect(c, "example_connect", {"network"}, AfterConnect[c])
    BY <1>4, BringsActions, BringingEffect
  <2> QED
    BY <1>1, <2>1, RtuBrings, MasterBrings, RestBrings, ClockBrings
       DEF Chip, AfterConnect
<1>5. ASSUME NEW c \in Chip, WifiSetPs(c) PROVE Brought'
  <2>1. c \in {"rtu", "master"} /\ Effect(c, "esp_wifi_set_ps", {}, AfterSetPs[c])
    BY <1>5, BringsActions, BringingEffect DEF WifiSetPs
  <2> QED BY <1>1, <2>1, RtuBrings, MasterBrings DEF AfterSetPs
<1>6. ASSUME NEW c \in Chip, InitFs(c) PROVE Brought'
  <2>1. /\ c \in {"master", "rest"}
        /\ Effect(c, "init_fs", {"fs"}, "start_rest_server")
    BY <1>6, BringsActions, BringingEffect DEF InitFs
  <2> QED BY <1>1, <2>1, MasterBrings, RestBrings
<1>7. ASSUME NEW c \in Chip, StartRestServer(c) PROVE Brought'
  <2>1. /\ c \in {"master", "rest"}
        /\ Effect(c, "start_rest_server", {"web"}, AfterRestServer[c])
    BY <1>7, BringsActions, BringingEffect DEF StartRestServer
  <2> QED BY <1>1, <2>1, MasterBrings, RestBrings DEF AfterRestServer
<1>8. CASE StartMdnsService
  BY <1>1, <1>8, OwnBringsActions, BringingEffect, RtuBrings
<1>9. CASE SlaveInit
  BY <1>1, <1>9, OwnBringsActions, BringingEffect, RtuBrings
<1>10. CASE InitialiseMdns
  BY <1>1, <1>10, OwnBringsActions, BringingEffect, RestBrings
<1>11. CASE InitializeMdns
  BY <1>1, <1>11, OwnBringsActions, BringingEffect, MasterBrings
<1>12. CASE MasterInit
  BY <1>1, <1>12, OwnBringsActions, BringingEffect, MasterBrings
<1> QED
  BY <1>2, <1>3, <1>4, <1>5, <1>6, <1>7, <1>8, <1>9, <1>10, <1>11, <1>12 DEF Bring
LEMMA RestartsKeep ==
  ASSUME ChipTypes, Brought, Restarts
  PROVE  Brought'
<1>1. PICK c \in Chip : Reboot(c)
  BY DEF Restarts, Abort, Crash, GivesUp, Chip
<1>2. /\ at'[c] = First[c] /\ up'[c] = {}
      /\ \A d \in Chip : d # c => at'[d] = at[d] /\ up'[d] = up[d]
      /\ c # "clock" => timeSet' = timeSet
  BY <1>1, RebootEffect
<1>3. First[c] = IF c = "clock" THEN "is_time_set" ELSE "nvs_flash_init"
  BY DEF First
<1>4. RtuBrought'
  BY <1>2, <1>3 DEF Brought, RtuBrought, Chip
<1>5. MasterBrought'
  BY <1>2, <1>3 DEF Brought, MasterBrought, Chip
<1>6. RestBrought'
  BY <1>2, <1>3 DEF Brought, RestBrought, Chip
<1>7. ClockBrought'
  BY <1>2, <1>3 DEF Brought, ClockBrought, Chip
<1> QED BY <1>4, <1>5, <1>6, <1>7 DEF Brought

LEMMA NvsKeeps ==
  ASSUME ChipTypes, Brought, Nvs
  PROVE  Brought'
<1>1. PICK c \in Chip : NvsFlashInit(c)
  BY DEF Nvs
<1>2. Effect(c, "nvs_flash_init", {}, "esp_netif_init")
  BY <1>1 DEF NvsFlashInit, Returns, In, Effect, ChipTypes, clock
<1>3. CASE c = "rtu"
  BY <1>2, <1>3, RtuKeeps DEF Brought, RtuBrought, Effect
<1>4. CASE c = "master"
  BY <1>2, <1>4, MasterKeeps DEF Brought, MasterBrought, Effect
<1>5. CASE c = "rest"
  BY <1>2, <1>5, RestKeeps DEF Brought, RestBrought, Effect
<1>6. CASE c = "clock"
  BY <1>2, <1>6, ClockKeeps DEF Brought, ClockBrought, Effect
<1> QED BY <1>3, <1>4, <1>5, <1>6 DEF Chip

\* Going on without bringing anything up, or giving something back.
Onward(c, call, lost, next) ==
  /\ at[c] = call /\ at'[c] = next /\ up'[c] = up[c] \ lost
  /\ \A d \in Chip : d # c => at'[d] = at[d] /\ up'[d] = up[d]

LEMMA RestKeepsBrought ==
  ASSUME ChipTypes, Brought, Rest
  PROVE  Brought'
<1>1. CASE Query
  BY <1>1 DEF Query, clock, Brought, RtuBrought, MasterBrought, RestBrought,
              ClockBrought
<1>2. CASE QueryEnds
  <2>1. /\ UNCHANGED <<up, timeSet>>
        /\ at'["master"] \in {at["master"], "mdns_free"} /\ at["master"] = "query"
        /\ \A d \in Chip : d # "master" => at'[d] = at[d]
    BY <1>2 DEF QueryEnds, In, clock, ChipTypes, Chip
  <2>2. MasterBrought'
    BY <2>1 DEF Brought, MasterBrought
  <2>3. RtuBrought' /\ RestBrought' /\ ClockBrought'
    BY <2>1 DEF Brought, RtuBrought, RestBrought, ClockBrought, Chip
  <2> QED BY <2>2, <2>3 DEF Brought
<1>3. CASE MdnsFree
  <2>1. /\ Onward("master", "mdns_free", {"mdns"}, "master_init")
        /\ timeSet' = timeSet
    BY <1>3 DEF MdnsFree, Returns, In, clock, ChipTypes, Onward, Chip
  <2>2. MasterBrought'
    BY <2>1 DEF Onward, Brought, MasterBrought
  <2>3. RtuBrought' /\ RestBrought' /\ ClockBrought'
    BY <2>1 DEF Onward, Brought, RtuBrought, RestBrought, ClockBrought, Chip
  <2> QED BY <2>2, <2>3 DEF Brought
<1>4. ASSUME NEW call, NEW lost, NEW next, Onward("clock", call, lost, next),
             ClockBrought'
      PROVE  Brought'
  BY <1>4 DEF Onward, Brought, RtuBrought, MasterBrought, RestBrought, Chip
<1>5. CASE IsTimeSet
  <2>1. /\ Onward("clock", "is_time_set", {},
                  IF timeSet THEN "esp_deep_sleep" ELSE "nvs_flash_init")
        /\ timeSet' = timeSet
    BY <1>5 DEF IsTimeSet, Returns, In, clock, ChipTypes, Onward, Chip
  <2>2. ClockBrought'
    BY <2>1 DEF Onward, Brought, ClockBrought
  <2> QED BY <1>4, <2>1, <2>2
<1>6. CASE WaitForTime
  <2>1. PICK next \in {"wait_for_time", "example_disconnect"} :
          Onward("clock", "wait_for_time", {}, next)
    BY <1>6 DEF WaitForTime, Returns, In, ChipTypes, Onward, Chip
  <2>2. timeSet' = timeSet
    BY <1>6 DEF WaitForTime
  <2>3. ClockBrought'
    BY <2>1, <2>2 DEF Onward, Brought, ClockBrought
  <2> QED BY <1>4, <2>1, <2>3
<1>7. CASE ExampleDisconnect
  <2>1. /\ Onward("clock", "example_disconnect", {"network"}, "esp_deep_sleep")
        /\ timeSet' = timeSet
    BY <1>7 DEF ExampleDisconnect, Returns, In, clock, ChipTypes, Onward, Chip
  <2>2. ClockBrought'
    BY <2>1 DEF Onward, Brought, ClockBrought
  <2> QED BY <1>4, <2>1, <2>2
<1>8. CASE Wake
  <2>1. /\ Onward("clock", "esp_deep_sleep", up["clock"], "is_time_set")
        /\ timeSet' = timeSet
    BY <1>8 DEF Wake, Returns, In, clock, ChipTypes, Onward, Chip
  <2>2. ClockBrought'
    BY <2>1 DEF Onward, Brought, ClockBrought
  <2> QED BY <1>4, <2>1, <2>2
<1>9. CASE SntpAnswers
  <2>1. /\ at["clock"] \in {"wait_for_time", "example_disconnect"}
        /\ UNCHANGED <<at, up>>
    BY <1>9 DEF SntpAnswers, In
  <2> QED
    BY <2>1 DEF Brought, RtuBrought, MasterBrought, RestBrought, ClockBrought
<1> QED
  BY <1>1, <1>2, <1>3, <1>5, <1>6, <1>7, <1>8, <1>9 DEF Rest

-----------------------------------------------------------------------------
(* What the resolver sees of a step *)

\* A step of another chip, or of the master before the query.
LEMMA BeforeQuery ==
  ASSUME ResolverInStep, NEW c, NEW call, NEW what, NEW next,
         Effect(c, call, what, next), UNCHANGED resolver,
         c \in Chip,
         c = "master" =>
           {call, next} \subseteq
             Label \ {"running", "mdns_free", "master_init"}
           /\ call # "query"
  PROVE  ResolverInStep'
  BY DEF ResolverInStep, Effect, resolver, vars, Chip

LEMMA BringInStep ==
  ASSUME ChipTypes, ResolverInStep, Bring
  PROVE  ResolverInStep' /\ [Next]_vars
<1>1. ASSUME NEW c \in Chip, NetifInit(c) PROVE ResolverInStep' /\ UNCHANGED vars
  <2>1. /\ Effect(c, "esp_netif_init", {}, "esp_event_loop_create_default")
        /\ UNCHANGED resolver
    BY <1>1, BringsActions, BringingEffect DEF NetifInit
  <2> QED BY <2>1, BeforeQuery DEF Label, resolver
<1>2. ASSUME NEW c \in Chip, EventLoopCreate(c)
      PROVE  ResolverInStep' /\ UNCHANGED vars
  <2>1. /\ Effect(c, "esp_event_loop_create_default", {}, AfterEventLoop[c])
        /\ UNCHANGED resolver
    BY <1>2, BringsActions, BringingEffect DEF EventLoopCreate
  <2>2. c = "master" => AfterEventLoop[c] = "initialize_mdns"
    BY DEF AfterEventLoop
  <2> QED BY <2>1, <2>2, BeforeQuery DEF Label, resolver
<1>3. ASSUME NEW c \in Chip, ExampleConnect(c)
      PROVE  ResolverInStep' /\ UNCHANGED vars
  <2>1. /\ Effect(c, "example_connect", {"network"}, AfterConnect[c])
        /\ UNCHANGED resolver
    BY <1>3, BringsActions, BringingEffect DEF ExampleConnect
  <2>2. c = "master" => AfterConnect[c] = "esp_wifi_set_ps"
    BY DEF AfterConnect
  <2> QED BY <2>1, <2>2, BeforeQuery DEF Label, resolver
<1>4. ASSUME NEW c \in Chip, WifiSetPs(c) PROVE ResolverInStep' /\ UNCHANGED vars
  <2>1. /\ Effect(c, "esp_wifi_set_ps", {}, AfterSetPs[c])
        /\ UNCHANGED resolver
    BY <1>4, BringsActions, BringingEffect DEF WifiSetPs
  <2>2. c = "master" => AfterSetPs[c] = "init_fs"
    BY DEF AfterSetPs
  <2> QED BY <2>1, <2>2, BeforeQuery DEF Label, resolver
<1>5. ASSUME NEW c \in Chip, InitFs(c) PROVE ResolverInStep' /\ UNCHANGED vars
  <2>1. Effect(c, "init_fs", {"fs"}, "start_rest_server") /\ UNCHANGED resolver
    BY <1>5, BringsActions, BringingEffect DEF InitFs
  <2> QED BY <2>1, BeforeQuery DEF Label, resolver
<1>6. ASSUME NEW c \in Chip, StartRestServer(c)
      PROVE  ResolverInStep' /\ UNCHANGED vars
  <2>1. /\ Effect(c, "start_rest_server", {"web"}, AfterRestServer[c])
        /\ UNCHANGED resolver
    BY <1>6, BringsActions, BringingEffect DEF StartRestServer
  <2>2. c = "master" => AfterRestServer[c] = "query"
    BY DEF AfterRestServer
  <2> QED BY <2>1, <2>2, BeforeQuery DEF Label, resolver
<1>7. ASSUME NEW c \in Chip, NEW call, NEW what, NEW next,
             Bringing(c, call, what, next), UNCHANGED resolver, c # "master"
      PROVE  ResolverInStep' /\ UNCHANGED vars
  <2>1. Effect(c, call, what, next)
    BY <1>7, BringingEffect
  <2> QED BY <1>7, <2>1, BeforeQuery DEF resolver
<1>8. CASE StartMdnsService
  BY <1>7, <1>8, OwnBringsActions DEF StartMdnsService, Chip
<1>9. CASE SlaveInit
  BY <1>7, <1>9, OwnBringsActions DEF SlaveInit, Chip
<1>10. CASE InitialiseMdns
  BY <1>7, <1>10, OwnBringsActions DEF InitialiseMdns, Chip
<1>11. CASE InitializeMdns
  <2>1. /\ Effect("master", "initialize_mdns", {"mdns"}, "example_connect")
        /\ UNCHANGED resolver
    BY <1>11, OwnBringsActions, BringingEffect DEF InitializeMdns
  <2> QED BY <2>1, BeforeQuery DEF Label, resolver, Chip
<1>12. CASE MasterInit
  <2>1. Effect("master", "master_init", {"modbus"}, "running") /\ MasterStart
    BY <1>12, OwnBringsActions, BringingEffect DEF MasterInit
  <2> QED BY <2>1 DEF Effect, MasterStart, ResolverInStep, Next
<1> QED
  BY <1>1, <1>2, <1>3, <1>4, <1>5, <1>6, <1>8, <1>9, <1>10, <1>11, <1>12
     DEF Bring

LEMMA RestartsInStep ==
  ASSUME ChipTypes, ResolverInStep, Restarts
  PROVE  ResolverInStep' /\ [Next]_vars
<1>1. PICK c \in Chip : Reboot(c)
  BY DEF Restarts, Abort, Crash, GivesUp, Chip
<1>2. /\ at'[c] = First[c]
      /\ \A d \in Chip : d # c => at'[d] = at[d] /\ up'[d] = up[d]
      /\ c = "master" => step' = "query" /\ (UNCHANGED resolver \/ Restart)
      /\ c # "master" => UNCHANGED resolver
  BY <1>1, RebootEffect
<1>3. CASE c = "master"
  <2>1. at'["master"] = "nvs_flash_init"
    BY <1>2, <1>3 DEF First
  <2> QED BY <1>2, <1>3, <2>1 DEF ResolverInStep, Next, resolver
<1>4. CASE c # "master"
  BY <1>2, <1>4 DEF ResolverInStep, resolver, vars, Chip
<1> QED BY <1>3, <1>4

LEMMA RestInStep ==
  ASSUME ChipTypes, ResolverInStep, Nvs \/ Rest
  PROVE  ResolverInStep' /\ [Next]_vars
<1>1. CASE Nvs
  <2>1. PICK c \in Chip : NvsFlashInit(c)
    BY <1>1 DEF Nvs
  <2>2. Effect(c, "nvs_flash_init", {}, "esp_netif_init") /\ UNCHANGED resolver
    BY <2>1 DEF NvsFlashInit, Returns, In, Effect, ChipTypes, clock
  <2> QED BY <2>1, <2>2, BeforeQuery DEF Label, resolver
<1>2. CASE Query
  <2>1. /\ at["master"] = "query" /\ at' = at
        /\ QueryFails \/ (\E a \in Answers : QueryAnswers(a)) \/ Walk
    BY <1>2 DEF Query, In, QueryMisses, QueryFinds
  <2>2. step \in {"query", "walk"} /\ step' \in {"query", "walk"}
    BY <2>1 DEF QueryFails, QueryAnswers, Again, Walk, AlreadyKnown, Unresolved,
                Register, OutOfMemory, EndOfWalk, Walking, Return
  <2>3. Next
    BY <2>1 DEF Next, InitServices
  <2> QED BY <2>1, <2>2, <2>3 DEF ResolverInStep
<1>3. CASE QueryEnds
  <2>1. /\ Resolved /\ at["master"] = "query" /\ step' \in {"done", "failed"}
        /\ at'["master"] = IF step' = "done" THEN "mdns_free" ELSE "query"
    BY <1>3 DEF QueryEnds, In, Resolved, ChipTypes, Chip
  <2> QED BY <2>1 DEF ResolverInStep, Next, InitServices
<1>4. CASE MdnsFree
  <2>1. /\ at["master"] = "mdns_free" /\ at'["master"] = "master_init"
        /\ UNCHANGED vars
    BY <1>4 DEF MdnsFree, Returns, In, ChipTypes, Chip, resolver
  <2> QED BY <2>1 DEF ResolverInStep, vars
<1>5. CASE IsTimeSet \/ WaitForTime \/ ExampleDisconnect \/ Wake \/ SntpAnswers
  <2>1. at'["master"] = at["master"] /\ UNCHANGED vars
    BY <1>5 DEF IsTimeSet, WaitForTime, ExampleDisconnect, Wake, SntpAnswers,
                Returns, ChipTypes, Chip, resolver
  <2> QED BY <2>1 DEF ResolverInStep, vars
<1> QED BY <1>1, <1>2, <1>3, <1>4, <1>5 DEF Rest

-----------------------------------------------------------------------------
(* The start-up *)

LEMMA BootStep ==
  ASSUME BootInv, [BootNext]_bootVars
  PROVE  BootInv' /\ [Next]_vars
<1>1. CASE BootNext
  <2>1. Brought' /\ ChipTypes'
    BY <1>1, BootCases, BringsKeeps, RestartsKeep, NvsKeeps, RestKeepsBrought,
       BootTypeStep DEF BootInv, Brought
  <2>2. ResolverInStep' /\ [Next]_vars
    BY <1>1, BootCases, BringInStep, RestartsInStep, RestInStep DEF BootInv
  <2> QED BY <2>1, <2>2 DEF BootInv, Brought
<1>2. CASE UNCHANGED bootVars
  BY <1>2 DEF bootVars, resolver, vars, clock, BootInv, ChipTypes, RtuBrought,
              MasterBrought, RestBrought, ClockBrought, ResolverInStep
<1> QED BY <1>1, <1>2

\* What each program has brought up, and where the resolver is meanwhile.
THEOREM BootInductive == BootSpec => []BootInv
  BY BootInitial, BootStep, PTL DEF BootSpec

\* The start-up implements the resolver: what app_main does around
\* init_services and master_init, the other programs, failing calls and resets
\* never make the slave table change in a way SlaveResolver does not allow.
THEOREM StartUpImplementsResolver == BootSpec => Spec
  BY BootInitial, BootStep, BootInductive, PTL DEF BootSpec, Spec

\* So a started-up master only ever connects to addresses that were advertised
\* for the right protocol and port.
THEOREM StartedPeersCorrect == BootSpec => []PeersAreEligible
  BY StartUpImplementsResolver, PeersCorrect, PTL

\* All variables keep their types, through any sequence of aborts and resets.
THEOREM StartTypeCorrect == BootSpec => []StartTypeOK
<1>1. BootInv /\ ResolveInv => StartTypeOK
  BY DEF BootInv, ChipTypes, ResolveInv, StartTypeOK, Label, Part, Safe
<1> QED
  BY <1>1, BootInductive, StartUpImplementsResolver, ResolveInductive, PTL

\* No running program misses a part it needs, no browser is served without the
\* file system, and the master runs exactly while its stack polls.
THEOREM WholeOrNothing == BootSpec => []NothingHalfStarted
<1>1. BootInv => NothingHalfStarted
  <2> SUFFICES ASSUME BootInv, NEW c \in powered
               PROVE  /\ Running(c) => Needs[c] \subseteq up[c]
                      /\ "web" \in up[c] => {"fs", "network"} \subseteq up[c]
                      /\ c = "master" => (Running(c) <=> step = "polling")
    BY DEF NothingHalfStarted
  <2>1. c \in Chip
    BY DeploymentAssumption DEF BootInv, ChipTypes
  <2> USE DEF BootInv, Needs, Running
  <2>2. CASE c = "rtu"
    BY <2>2 DEF RtuBrought
  <2>3. CASE c = "master"
    BY <2>3 DEF MasterBrought, ResolverInStep
  <2>4. CASE c = "rest"
    BY <2>4 DEF RestBrought
  <2>5. CASE c = "clock"
    BY <2>5 DEF ClockBrought
  <2> QED BY <2>1, <2>2, <2>3, <2>4, <2>5 DEF Chip
<1> QED BY <1>1, BootInductive, PTL

\* Once the time is set, a clock that is offline stays offline, whatever
\* wake-ups, aborts and resets follow, for as long as the RTC holds the time.
THEOREM ClockStaysQuiet == BootSpec => QuietOnceSet
<1>1. BootInv /\ [BootNext]_bootVars
        => [timeSet /\ "network" \notin up["clock"]
              => "network" \notin up'["clock"]]_bootVars
  <2> SUFFICES ASSUME BootInv, BootNext, timeSet, "network" \notin up["clock"]
               PROVE  "network" \notin up'["clock"]
    BY DEF bootVars
  <2>1. at["clock"] \in {"is_time_set", "esp_deep_sleep"} /\ ChipTypes
    BY DEF BootInv, ClockBrought
  <2>2. CASE Bring
    <3>1. ASSUME NEW c, NEW call, NEW what, NEW next, Bringing(c, call, what, next),
                 call \notin {"is_time_set", "esp_deep_sleep"}
          PROVE  "network" \notin up'["clock"]
      BY <2>1, <3>1, BringingEffect DEF Effect, Chip
    <3> QED BY <2>2, <3>1, BringsActions, OwnBringsActions DEF Bring
  <2>3. CASE Restarts
    <3>1. PICK c \in Chip : Reboot(c)
      BY <2>3 DEF Restarts, Abort, Crash, GivesUp, Chip
    <3> QED BY <2>1, <3>1, RebootEffect DEF Chip
  <2>4. CASE Nvs
    BY <2>1, <2>4 DEF Nvs, NvsFlashInit, Returns
  <2>5. CASE Rest
    BY <2>1, <2>5 DEF Rest, Query, QueryEnds, MdnsFree, IsTimeSet, WaitForTime,
                      ExampleDisconnect, Wake, SntpAnswers, ChipTypes, Chip
  <2> QED BY <2>2, <2>3, <2>4, <2>5, BootCases
<1> QED BY <1>1, BootInductive, PTL DEF BootSpec, QuietOnceSet

\* The tables of the shipped master, one program after the other: whatever
\* failing calls, aborts and resets came before, on the master or on the RTU, a
\* master that runs has each slave in the slot the stack looks for it.
THEOREM RunningMasterKnowsItsSlaves ==
  ASSUME NEW n \in 1..(TableSize - 1), InOrder(n), AllOrNone, NumParams <= NoMem
  PROVE  BootSpec =>
           [](Running("master") /\ res # NoMem =>
                \A a \in Addresses : a <= Len(peers) /\ peers[a].slave = a)
<1>1. Spec => []SlavesInTheirSlots
  BY SlavesFindTheirSlots
<1>2. BootInv /\ SlavesInTheirSlots
        => (Running("master") /\ res # NoMem =>
              \A a \in Addresses : a <= Len(peers) /\ peers[a].slave = a)
  BY DEF BootInv, ResolverInStep, SlavesInTheirSlots, Running
<1> QED BY <1>1, <1>2, StartUpImplementsResolver, BootInductive, PTL

\* A started-up master never writes behind the end of its table, and its stack
\* finds the end of it.
THEOREM StartedTableIsBounded ==
  Cardinality(Addresses) < TableSize /\ BootSpec
    => [](TableStaysInBounds /\ EndIsFound)
  BY StartUpImplementsResolver, TableIsBounded, StackFindsTheEnd, PTL

-----------------------------------------------------------------------------
(* The chains run down *)

\* The calls of each chain, counted from its end.
Rank ==
  [is_time_set |-> 14, nvs_flash_init |-> 13, esp_netif_init |-> 12,
   esp_event_loop_create_default |-> 11, start_mdns_service |-> 10,
   initialize_mdns |-> 10, initialise_mdns |-> 10, example_connect |-> 9,
   esp_wifi_set_ps |-> 8, init_fs |-> 7, start_rest_server |-> 6, query |-> 5,
   mdns_free |-> 4, master_init |-> 3, slave_init |-> 3, wait_for_time |-> 3,
   example_disconnect |-> 2, esp_deep_sleep |-> 1, running |-> 0]

\* One chip gets on, and no other moves: to a later call, or inside a loop of
\* the call it is in, towards the end of the loop.
Nearer(c) ==
  /\ \A d \in Chip : d # c => at'[d] = at[d]
  /\ \/ Rank[at'[c]] < Rank[at[c]]
     \/ /\ c = "master" /\ at'[c] = at[c]
        /\ Remaining' \in Nat /\ Remaining' < Remaining
     \/ c = "clock" /\ at'[c] = at[c] /\ waits' = waits + 1

LEMMA BringsNearer ==
  ASSUME ChipTypes, Bring
  PROVE  \E c \in powered : Nearer(c)
<1>1. ASSUME NEW c, NEW call, NEW what, NEW next, Bringing(c, call, what, next),
             Rank[next] < Rank[call]
      PROVE  \E d \in powered : Nearer(d)
  <2>1. c \in Chip /\ Effect(c, call, what, next)
    BY <1>1, BringingEffect
  <2>2. c \in powered
    BY <1>1 DEF Bringing, Brings, Returns, In
  <2> QED BY <1>1, <2>1, <2>2 DEF Effect, Nearer
<1>2. ASSUME NEW c \in Chip
      PROVE  /\ Rank[AfterEventLoop[c]] < Rank["esp_event_loop_create_default"]
             /\ Rank[AfterConnect[c]] < Rank["example_connect"]
  BY DEF Chip, Rank, AfterEventLoop, AfterConnect
<1>3. /\ Rank["esp_event_loop_create_default"] < Rank["esp_netif_init"]
      /\ Rank["start_rest_server"] < Rank["init_fs"]
      /\ Rank["example_connect"] < Rank["start_mdns_service"]
      /\ Rank["example_connect"] < Rank["initialise_mdns"]
      /\ Rank["example_connect"] < Rank["initialize_mdns"]
      /\ Rank["running"] < Rank["slave_init"]
      /\ Rank["running"] < Rank["master_init"]
  BY DEF Rank
<1>4. ASSUME NEW c \in Chip, WifiSetPs(c)
      PROVE  Rank[AfterSetPs[c]] < Rank["esp_wifi_set_ps"]
  BY <1>4 DEF WifiSetPs, AfterSetPs, Rank
<1>5. ASSUME NEW c \in Chip, StartRestServer(c)
      PROVE  Rank[AfterRestServer[c]] < Rank["start_rest_server"]
  BY <1>5 DEF StartRestServer, AfterRestServer, Rank
<1>6. ASSUME NEW c \in Chip,
             NetifInit(c) \/ EventLoopCreate(c) \/ ExampleConnect(c)
               \/ WifiSetPs(c) \/ InitFs(c) \/ StartRestServer(c)
      PROVE  \E d \in powered : Nearer(d)
  BY <1>1, <1>2, <1>3, <1>4, <1>5, <1>6, BringsActions
<1>7. ASSUME StartMdnsService \/ SlaveInit \/ InitialiseMdns \/ InitializeMdns
               \/ MasterInit
      PROVE  \E d \in powered : Nearer(d)
  BY <1>1, <1>3, <1>7, OwnBringsActions
<1> QED BY <1>6, <1>7 DEF Bring

LEMMA RestNearer ==
  ASSUME ChipTypes, ResolveInv,
         Query \/ QueryEnds \/ MdnsFree \/ IsTimeSet \/ WaitForTime
           \/ ExampleDisconnect
  PROVE  \E c \in powered : Nearer(c)
<1>1. ASSUME NEW c \in Chip, NEW call, NEW next, Returns(c, call, next),
             Rank[next] < Rank[call]
      PROVE  \E d \in powered : Nearer(d)
  <2>1. /\ c \in powered /\ at[c] = call /\ at'[c] = next
        /\ \A d \in Chip : d # c => at'[d] = at[d]
    BY <1>1 DEF Returns, In, ChipTypes
  <2> QED BY <1>1, <2>1 DEF Nearer
<1>2. CASE Query
  <2>1. /\ "master" \in powered /\ at' = at
        /\ QueryFails \/ (\E a \in Answers : QueryAnswers(a)) \/ Walk
    BY <1>2 DEF Query, In, QueryMisses, QueryFinds
  <2>2. InitServices
    BY <2>1 DEF InitServices
  <2> QED BY <2>1, <2>2, RunDownStep DEF Nearer
<1>3. CASE QueryEnds
  <2>1. /\ "master" \in powered /\ at["master"] = "query" /\ Resolved
        /\ at' = at \/ at' = [at EXCEPT !["master"] = "mdns_free"]
    BY <1>3 DEF QueryEnds, In
  <2>2. CASE at' = at
    BY <2>1, <2>2, RunDownStep DEF InitServices, Nearer
  <2>3. CASE at' = [at EXCEPT !["master"] = "mdns_free"]
    <3>1. /\ at'["master"] = "mdns_free"
          /\ \A d \in Chip : d # "master" => at'[d] = at[d]
      BY <2>3 DEF ChipTypes, Chip
    <3> QED BY <2>1, <3>1 DEF Nearer, Rank
  <2> QED BY <2>1, <2>2, <2>3
<1>4. CASE MdnsFree
  <2>1. Rank["master_init"] < Rank["mdns_free"]
    BY DEF Rank
  <2> QED BY <1>1, <1>4, <2>1 DEF MdnsFree, Chip
<1>5. CASE IsTimeSet
  <2>1. /\ Rank["esp_deep_sleep"] < Rank["is_time_set"]
        /\ Rank["nvs_flash_init"] < Rank["is_time_set"]
    BY DEF Rank
  <2> QED BY <1>1, <1>5, <2>1 DEF IsTimeSet, Chip
<1>6. CASE WaitForTime
  <2>1. Rank["example_disconnect"] < Rank["wait_for_time"]
    BY DEF Rank
  <2>2. CASE Returns("clock", "wait_for_time", "example_disconnect")
    BY <1>1, <2>1, <2>2 DEF Chip
  <2>3. CASE Returns("clock", "wait_for_time", "wait_for_time")
             /\ waits' = waits + 1
    <3>1. /\ "clock" \in powered /\ at'["clock"] = at["clock"]
          /\ \A d \in Chip : d # "clock" => at'[d] = at[d]
      BY <2>3 DEF Returns, In, ChipTypes, Chip
    <3> QED BY <2>3, <3>1 DEF Nearer
  <2> QED BY <1>6, <2>2, <2>3 DEF WaitForTime
<1>7. CASE ExampleDisconnect
  <2>1. Rank["esp_deep_sleep"] < Rank["example_disconnect"]
    BY DEF Rank
  <2> QED BY <1>1, <1>7, <2>1 DEF ExampleDisconnect, Chip
<1> QED BY <1>2, <1>3, <1>4, <1>5, <1>6, <1>7

LEMMA NvsNearer ==
  ASSUME ChipTypes, Nvs
  PROVE  \E c \in powered : Nearer(c)
<1>1. PICK c \in Chip : NvsFlashInit(c)
  BY DEF Nvs
<1>2. /\ c \in powered
      /\ at[c] = "nvs_flash_init" /\ at'[c] = "esp_netif_init"
      /\ \A d \in Chip : d # c => at'[d] = at[d]
  BY <1>1 DEF NvsFlashInit, Returns, In, ChipTypes
<1> QED BY <1>2 DEF Nearer, Rank

\* The safety half of SystemComesUp and ClockSleepsAgain: a step that is no
\* restart, wake-up or answer takes one chip nearer to the end of its chain,
\* through the walks and tries of init_services and the waits of obtain_time;
\* so a chain that is not restarted ends.
THEOREM ChainsRunDown ==
  BootSpec => [][~(Restarts \/ Wake \/ SntpAnswers)
                   => \E c \in powered : Nearer(c)]_bootVars
<1>1. BootInv /\ ResolveInv /\ [BootNext]_bootVars
        => [~(Restarts \/ Wake \/ SntpAnswers)
              => \E c \in powered : Nearer(c)]_bootVars
  BY BootCases, BringsNearer, NvsNearer, RestNearer DEF BootInv, Rest
<1>2. Spec => []ResolveInv
  BY ResolveInductive
<1> QED
  BY <1>1, <1>2, StartUpImplementsResolver, BootInductive, PTL DEF BootSpec

-----------------------------------------------------------------------------
(* The servers come up *)

\* A powered chip that waits for no network, runs not yet and has a usable NVS
\* partition can make its next call.  TLAPS cannot look into ENABLED.
Waiting(c) ==
  c \in powered /\ ~Running(c) /\ at[c] # "example_connect"
ServersReady ==
  /\ [](Waiting("rtu") => ENABLED <<RtuAppMain>>_bootVars)
  /\ [](Waiting("rest") /\ nvs["rest"] = "good"
          => ENABLED <<RestAppMain>>_bootVars)

\* A step in which no call fails.
Calm == [~Fault]_bootVars /\ [BootNext]_bootVars

Upto(c, n) == Rank[at[c]] <= n
On(c) == c \in powered
Usable == nvs["rest"] = "good"

LEMMA Ranks ==
  /\ \A l \in Label : Rank[l] \in 0..14
  /\ \A l \in Label : Rank[l] = 0 <=> l = "running"
  /\ \A l \in Label : Rank[l] = 9 <=> l = "example_connect"
  BY DEF Rank, Label

\* The calls of app_main of the RTU and of the REST example end.
LEMMA CallsEnd ==
  ASSUME ChipTypes
  PROVE  /\ RtuAppMain => at'["rtu"] # at["rtu"]
         /\ RestAppMain => at'["rest"] # at["rest"]
<1>1. ASSUME NEW c \in Chip, Common(c) PROVE at'[c] # at[c]
  BY <1>1 DEF Common, NvsFlashInit, NetifInit, EventLoopCreate, Brings, Returns,
              In, ChipTypes, AfterEventLoop, Chip
<1>2. StartMdnsService \/ WifiSetPs("rtu") \/ SlaveInit => at'["rtu"] # at["rtu"]
  BY DEF StartMdnsService, WifiSetPs, SlaveInit, Brings, Returns, In, ChipTypes,
         AfterSetPs, Chip
<1>3. InitialiseMdns \/ InitFs("rest") \/ StartRestServer("rest")
        => at'["rest"] # at["rest"]
  BY DEF InitialiseMdns, InitFs, StartRestServer, Brings, Returns, In, ChipTypes,
         AfterRestServer, Chip
<1> QED BY <1>1, <1>2, <1>3 DEF RtuAppMain, RtuInitServices, RestAppMain, Chip

\* Only nvs_flash_init changes a partition, and for the better.
LEMMA UsableStays ==
  ASSUME ChipTypes, Usable, [BootNext]_bootVars
  PROVE  Usable'
<1>1. ASSUME NEW d, NEW call, NEW what, NEW next, Bringing(d, call, what, next)
      PROVE  UNCHANGED nvs
  BY <1>1 DEF Bringing, Brings
<1>2. CASE Bring
  BY <1>1, <1>2, BringsActions, OwnBringsActions DEF Bring, Usable
<1>3. CASE Nvs
  BY <1>3 DEF Nvs, NvsFlashInit, ChipTypes, Chip, Usable
<1>4. CASE Rest
  BY <1>4 DEF Rest, Query, QueryEnds, MdnsFree, IsTimeSet, WaitForTime,
              ExampleDisconnect, Wake, SntpAnswers, Usable
<1>5. CASE Restarts
  BY <1>5 DEF Restarts, Abort, Crash, GivesUp, Reboot, Usable
<1>6. CASE UNCHANGED bootVars
  BY <1>6 DEF bootVars, Usable
<1> QED BY <1>2, <1>3, <1>4, <1>5, <1>6, BootCases

LEMMA ServerStep ==
  ASSUME BootInv, ResolveInv, Calm, NEW c \in {"rtu", "rest"}
  PROVE  /\ at'[c] = at[c] \/ Rank[at'[c]] < Rank[at[c]]
         /\ On(c)' = On(c)
<1>1. ChipTypes /\ c \in Chip
  BY DEF BootInv, Chip
<1>2. CASE UNCHANGED bootVars
  BY <1>2 DEF bootVars, On
<1>3. CASE ~Fault /\ BootNext
  <2>1. ASSUME NEW d \in powered, Nearer(d)
        PROVE  at'[c] = at[c] \/ Rank[at'[c]] < Rank[at[c]]
    BY <1>1, <2>1 DEF Nearer
  <2>2. CASE Bring \/ Nvs \/ Query \/ QueryEnds \/ MdnsFree \/ IsTimeSet
               \/ WaitForTime \/ ExampleDisconnect
    <3>1. at'[c] = at[c] \/ Rank[at'[c]] < Rank[at[c]]
      BY <1>1, <2>1, <2>2, BringsNearer, NvsNearer, RestNearer
    <3>2. ASSUME NEW d, NEW call, NEW what, NEW next,
                 Bringing(d, call, what, next)
          PROVE  UNCHANGED powered
      BY <3>2 DEF Bringing, Brings, Returns
    <3>3. CASE Bring
      <4>1. UNCHANGED powered
        BY <3>2, <3>3, BringsActions, OwnBringsActions DEF Bring
      <4> QED BY <3>1, <4>1 DEF On
    <3>4. CASE Nvs
      <4>1. UNCHANGED powered
        BY <3>4 DEF Nvs, NvsFlashInit, Returns
      <4> QED BY <3>1, <4>1 DEF On
    <3>5. CASE Query \/ QueryEnds \/ MdnsFree \/ IsTimeSet \/ WaitForTime
                 \/ ExampleDisconnect
      <4>1. UNCHANGED powered
        BY <3>5 DEF Query, QueryEnds, MdnsFree, IsTimeSet, WaitForTime,
                    ExampleDisconnect, Returns
      <4> QED BY <3>1, <4>1 DEF On
    <3> QED BY <2>2, <3>3, <3>4, <3>5
  <2>3. CASE Wake \/ SntpAnswers
    BY <1>1, <2>3 DEF Wake, SntpAnswers, Returns, ChipTypes, Chip, On
  <2>4. CASE GivesUp
    BY <1>1, <2>4 DEF GivesUp, Reboot, ChipTypes, Chip, On
  <2>5. ~ \E d \in Chip : Abort(d) \/ Crash(d)
    BY <1>3 DEF Fault
  <2> QED BY <1>3, <2>2, <2>3, <2>4, <2>5, BootCases DEF Rest, Restarts
<1> QED BY <1>2, <1>3 DEF Calm

\* In the calm P lasts until a step of A, which makes it Q and can be taken
\* unless it is Q already.
Stage(c, A, P, Q) ==
  /\ On(c) /\ P => Waiting(c) \/ Q
  /\ Calm /\ P => P'
  /\ Calm /\ P /\ A => Q'

\* A chain goes down its calls, and past example_connect when it returns.
Progress(c, A) ==
  /\ Upto(c, 14)
  /\ Stage(c, A, Upto(c, 14), Upto(c, 13)) /\ Stage(c, A, Upto(c, 13), Upto(c, 12))
  /\ Stage(c, A, Upto(c, 12), Upto(c, 11)) /\ Stage(c, A, Upto(c, 11), Upto(c, 10))
  /\ Stage(c, A, Upto(c, 10), Upto(c, 9))
  /\ Upto(c, 9) => (~On(c) \/ In(c, "example_connect") \/ Upto(c, 8))
  /\ Calm /\ Upto(c, 9) => Upto(c, 9)'
  /\ Stage(c, A, Upto(c, 8), Upto(c, 7)) /\ Stage(c, A, Upto(c, 7), Upto(c, 6))
  /\ Stage(c, A, Upto(c, 6), Upto(c, 5)) /\ Stage(c, A, Upto(c, 5), Upto(c, 4))
  /\ Stage(c, A, Upto(c, 4), Upto(c, 3)) /\ Stage(c, A, Upto(c, 3), Upto(c, 2))
  /\ Stage(c, A, Upto(c, 2), Upto(c, 1)) /\ Stage(c, A, Upto(c, 1), Upto(c, 0))
  /\ Upto(c, 0) => Running(c)
  /\ Calm /\ Upto(c, 0) => Upto(c, 0)'
  /\ Calm => (On(c)' <=> On(c))

LEMMA ServerProgress ==
  ASSUME BootInv, ResolveInv
  PROVE  Progress("rtu", RtuAppMain) /\ Progress("rest", RestAppMain)
<1> DEFINE r(c) == Rank[at[c]]
<1>1. ASSUME NEW c \in {"rtu", "rest"}
      PROVE  /\ r(c) \in 0..14
             /\ r(c) = 0 <=> Running(c)
             /\ r(c) = 9 <=> at[c] = "example_connect"
             /\ On(c) /\ r(c) # 0 /\ r(c) # 9 => Waiting(c)
  <2>1. at[c] \in Label
    BY DEF BootInv, ChipTypes, Chip
  <2> QED BY <2>1, Ranks DEF Running, Waiting, On
<1>2. ASSUME NEW c \in {"rtu", "rest"}, Calm
      PROVE  /\ r(c)' \in 0..14 /\ r(c)' <= r(c)
             /\ at'[c] # at[c] => r(c)' < r(c)
             /\ On(c)' = On(c)
  <2>1. ChipTypes'
    BY <1>2, BootStep DEF Calm, BootInv
  <2>2. r(c)' \in 0..14
    BY <2>1, Ranks DEF ChipTypes, Chip
  <2> QED BY <1>1, <1>2, <2>2, ServerStep
<1>3. /\ RtuAppMain => at'["rtu"] # at["rtu"]
      /\ RestAppMain => at'["rest"] # at["rest"]
  BY CallsEnd DEF BootInv
<1>4. Progress("rtu", RtuAppMain)
  BY <1>1, <1>2, <1>3 DEF Progress, Stage, Upto, In, On
<1>5. Progress("rest", RestAppMain)
  BY <1>1, <1>2, <1>3 DEF Progress, Stage, Upto, In, On
<1> QED BY <1>4, <1>5

\* Once calls stop failing and networks let the chips in, the RTU and the REST
\* example run, whatever restarted them before: the part of SystemComesUp that
\* waits for no other chip.
ServersUp == \A c \in powered \cap {"rtu", "rest"} : Running(c)
ServersComeUp == FaultsEnd /\ nvs["rest"] = "good" => <>[]ServersUp

\* Each has a chain of its own, and every call of it but one returns under the
\* fairness of FairBootSpec.
THEOREM ServersRun == FairBootSpec /\ ServersReady => ServersComeUp
<1> DEFINE Live == FairBootSpec /\ ServersReady /\ FaultsEnd
           Inv == BootInv /\ ResolveInv
<1>1. Live => []Inv /\ [][BootNext]_bootVars /\ <>[][~Fault]_bootVars
  BY BootInductive, StartUpImplementsResolver, ResolveInductive, PTL
     DEF FairBootSpec, BootSpec, FaultsEnd
<1>2. FaultsEnd => []<>~In("rtu", "example_connect")
  <2>1. PICK c \in Chip : c = "rtu"
    BY DEF Chip
  <2>2. FaultsEnd => []<>~In(c, "example_connect")
    BY DEF FaultsEnd
  <2>3. In(c, "example_connect") <=> In("rtu", "example_connect")
    BY <2>1
  <2> QED BY <2>2, <2>3, PTL
<1>3. FaultsEnd => []<>~In("rest", "example_connect")
  <2>1. PICK c \in Chip : c = "rest"
    BY DEF Chip
  <2>2. FaultsEnd => []<>~In(c, "example_connect")
    BY DEF FaultsEnd
  <2>3. In(c, "example_connect") <=> In("rest", "example_connect")
    BY <2>1
  <2> QED BY <2>2, <2>3, PTL
<1>4. Inv => Progress("rtu", RtuAppMain)
  BY ServerProgress
<1>5. Inv => Progress("rest", RestAppMain)
  BY ServerProgress
<1>6. Live => <>[](On("rtu") => Running("rtu"))
  BY <1>1, <1>2, <1>4, PTL
     DEF FairBootSpec, ServersReady, Calm, Progress, Stage
<1>7. Inv /\ [BootNext]_bootVars /\ Usable => Usable'
  BY UsableStays DEF BootInv
<1>8. Usable <=> nvs["rest"] = "good"
  BY DEF Usable
<1>9. Live /\ nvs["rest"] = "good" => []Usable
  BY <1>1, <1>7, <1>8, PTL
<1>10. Live /\ nvs["rest"] = "good" => <>[](On("rest") => Running("rest"))
  BY <1>1, <1>3, <1>5, <1>8, <1>9, PTL
     DEF FairBootSpec, ServersReady, Calm, Progress, Stage
<1>11. (On("rtu") => Running("rtu")) /\ (On("rest") => Running("rest"))
         => ServersUp
  BY DEF On, ServersUp
<1> QED BY <1>6, <1>10, <1>11, PTL DEF ServersComeUp
=============================================================================
