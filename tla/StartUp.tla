------------------------------ MODULE StartUp -------------------------------
(***************************************************************************)
(* How the programs come up: app_main of the RTU, the master, the REST     *)
(* example and the clock, each on a chip of its own.  app_main is a chain  *)
(* of calls; one that fails makes ESP_ERROR_CHECK restart the chip, which  *)
(* forgets everything but what flash and the RTC keep.  The RTU advertises *)
(* itself by mDNS; the master, once its web server is up, looks for it as  *)
(* SlaveResolver describes and restarts too when it does not find it.  The *)
(* clock connects only to learn the time, and sleeps between its runs.     *)
(***************************************************************************)
EXTENDS SlaveResolver

CONSTANTS
  Deployments,  \* the sets of chips that may be powered together
  RtuAddr,      \* MB_SLAVE_ADDR of the RTU
  RetryCount    \* retry_count of obtain_time, 10

Chip == {"rtu", "master", "rest", "clock"}

ASSUME DeploymentAssumption == Deployments \subseteq SUBSET Chip
ASSUME RetryAssumption == RetryCount \in Nat \ {0}

VARIABLES
  powered,  \* the chips of this deployment
  at,       \* the call each app_main is in
  up,       \* what the calls of each have brought up
  nvs,      \* each chip's NVS partition: "good", or "stale" (full or too new)
  timeSet,  \* clock: does the RTC hold the time?
  waits     \* clock: retry of obtain_time

resolver == vars
clock == <<timeSet, waits>>
bootVars == <<resolver, powered, at, up, nvs, clock>>

-----------------------------------------------------------------------------
First == [c \in Chip |-> IF c = "clock" THEN "is_time_set" ELSE "nvs_flash_init"]

\* Where the chains of the four programs part.
AfterEventLoop == [rtu |-> "start_mdns_service", master |-> "initialize_mdns",
                   rest |-> "initialise_mdns", clock |-> "example_connect"]
AfterConnect == [rtu |-> "esp_wifi_set_ps", master |-> "esp_wifi_set_ps",
                 rest |-> "init_fs", clock |-> "wait_for_time"]
AfterSetPs == [rtu |-> "slave_init", master |-> "init_fs"]
AfterRestServer == [master |-> "query", rest |-> "running"]

\* Calls that cannot fail, or whose failure is told otherwise.
Safe == {"query", "mdns_free", "is_time_set", "wait_for_time",
         "esp_deep_sleep", "running"}

In(c, call) == c \in powered /\ at[c] = call
Running(c) == at[c] = "running"

BootInit ==
  /\ Init
  /\ powered \in Deployments
  /\ at = First /\ up = [c \in Chip |-> {}]
  /\ nvs \in [Chip -> {"good", "stale"}]
  /\ \A c \in Chip \ powered : nvs[c] = "good"
  /\ timeSet = FALSE /\ waits = 0

\* The call returns ESP_OK, and app_main goes on to the next.
Returns(c, call, next) ==
  /\ In(c, call)
  /\ at' = [at EXCEPT ![c] = next]
  /\ UNCHANGED powered

\* It brings up a part of the program, or nothing another part looks at.
Brings(c, call, what, next) ==
  /\ Returns(c, call, next)
  /\ up' = [up EXCEPT ![c] = @ \cup what]
  /\ UNCHANGED <<nvs, clock>>

-----------------------------------------------------------------------------
(* Calls that several programs make *)

\* Mutant: the partition is never erased.
NvsWithoutErase(c) ==
  /\ Returns(c, "nvs_flash_init", "esp_netif_init")
  /\ nvs[c] = "good"
  /\ UNCHANGED <<resolver, up, nvs, clock>>

\* The RTU and the master erase a partition that cannot be used; the others
\* have no way past it.
NvsFlashInit(c) ==
  /\ Returns(c, "nvs_flash_init", "esp_netif_init")
  /\ nvs[c] = "good" \/ c \in {"rtu", "master"}
  /\ nvs' = [nvs EXCEPT ![c] = "good"]
  /\ UNCHANGED <<resolver, up, clock>>

NetifInit(c) ==
  /\ Brings(c, "esp_netif_init", {}, "esp_event_loop_create_default")
  /\ UNCHANGED resolver

EventLoopCreate(c) ==
  /\ Brings(c, "esp_event_loop_create_default", {}, AfterEventLoop[c])
  /\ UNCHANGED resolver

\* Mutant: the chip goes on without a network.
ConnectIgnored(c) ==
  /\ Returns(c, "example_connect", AfterConnect[c])
  /\ UNCHANGED <<resolver, up, nvs, clock>>

ExampleConnect(c) ==
  /\ Brings(c, "example_connect", {"network"}, AfterConnect[c])
  /\ UNCHANGED resolver

WifiSetPs(c) ==
  /\ c \in {"rtu", "master"}
  /\ Brings(c, "esp_wifi_set_ps", {}, AfterSetPs[c])
  /\ UNCHANGED resolver

InitFs(c) ==
  /\ c \in {"master", "rest"}
  /\ Brings(c, "init_fs", {"fs"}, "start_rest_server")
  /\ UNCHANGED resolver

StartRestServer(c) ==
  /\ c \in {"master", "rest"}
  /\ Brings(c, "start_rest_server", {"web"}, AfterRestServer[c])
  /\ UNCHANGED resolver

Common(c) == NvsFlashInit(c) \/ NetifInit(c) \/ EventLoopCreate(c)

-----------------------------------------------------------------------------
(* The RTU and the REST example *)

StartMdnsService ==
  /\ Brings("rtu", "start_mdns_service", {"mdns"}, "example_connect")
  /\ UNCHANGED resolver

RtuInitServices == Common("rtu") \/ StartMdnsService \/ WifiSetPs("rtu")

SlaveInit ==
  /\ Brings("rtu", "slave_init", {"modbus"}, "running")
  /\ UNCHANGED resolver

RtuAppMain == RtuInitServices \/ SlaveInit

InitialiseMdns ==
  /\ Brings("rest", "initialise_mdns", {"mdns"}, "example_connect")
  /\ UNCHANGED resolver

RestAppMain == Common("rest") \/ InitialiseMdns \/ InitFs("rest")
                 \/ StartRestServer("rest")

-----------------------------------------------------------------------------
(* The master *)

InitializeMdns ==
  /\ Brings("master", "initialize_mdns", {"mdns"}, "example_connect")
  /\ UNCHANGED resolver

Advertised == {"mdns", "network"} \subseteq up["rtu"]
Tells(answer) == \E i \in DOMAIN answer : Matches(answer[i], RtuAddr)

QueryMisses ==
  QueryFails \/ \E a \in Answers : QueryAnswers(a) /\ ~Tells(a)

\* Only an RTU that advertises itself is found.
QueryFinds == Advertised /\ \E a \in Answers : QueryAnswers(a) /\ Tells(a)

Query ==
  /\ In("master", "query")
  /\ QueryMisses \/ QueryFinds \/ Walk
  /\ UNCHANGED <<powered, at, up, nvs, clock>>

\* The loop ends; init_services fails if rows are left unresolved.
QueryEnds ==
  /\ In("master", "query")
  /\ Resolved
  /\ at' = IF step' = "done" THEN [at EXCEPT !["master"] = "mdns_free"] ELSE at
  /\ UNCHANGED <<powered, up, nvs, clock>>

MdnsFree ==
  /\ Returns("master", "mdns_free", "master_init")
  /\ up' = [up EXCEPT !["master"] = @ \ {"mdns"}]
  /\ UNCHANGED <<resolver, nvs, clock>>

MasterInitServices ==
  Common("master") \/ InitializeMdns \/ WifiSetPs("master") \/ InitFs("master")
    \/ StartRestServer("master") \/ Query \/ QueryEnds \/ MdnsFree

\* The stack connects to the table that the query left.
MasterInit ==
  Brings("master", "master_init", {"modbus"}, "running") /\ MasterStart

-----------------------------------------------------------------------------
(* The clock *)

\* Mutant: the time is obtained on every wake-up.
ObtainsAlways ==
  /\ Returns("clock", "is_time_set", "nvs_flash_init")
  /\ UNCHANGED <<resolver, up, nvs, clock>>

\* A clock that has the time prints it and sleeps.
IsTimeSet ==
  /\ Returns("clock", "is_time_set",
             IF timeSet THEN "esp_deep_sleep" ELSE "nvs_flash_init")
  /\ UNCHANGED <<resolver, up, nvs, clock>>

\* Mutants: the count is tested before it is stepped, or not at all.
WaitOneMore ==
  /\ IF ~timeSet /\ waits < RetryCount
       THEN waits' = waits + 1 /\ Returns("clock", "wait_for_time", "wait_for_time")
       ELSE waits' = 0 /\ Returns("clock", "wait_for_time", "example_disconnect")
  /\ UNCHANGED <<resolver, up, nvs, timeSet>>
WaitForever ==
  /\ timeSet /\ waits' = 0
  /\ Returns("clock", "wait_for_time", "example_disconnect")
  /\ UNCHANGED <<resolver, up, nvs, timeSet>>

\* while (status == RESET && ++retry < retry_count) delay
WaitForTime ==
  /\ IF ~timeSet /\ waits + 1 < RetryCount
       THEN waits' = waits + 1 /\ Returns("clock", "wait_for_time", "wait_for_time")
       ELSE waits' = 0 /\ Returns("clock", "wait_for_time", "example_disconnect")
  /\ UNCHANGED <<resolver, up, nvs, timeSet>>

\* The answer may also come when the wait is over.
SntpAnswers ==
  /\ In("clock", "wait_for_time") \/ In("clock", "example_disconnect")
  /\ ~timeSet /\ timeSet' = TRUE
  /\ UNCHANGED <<resolver, powered, at, up, nvs, waits>>

ExampleDisconnect ==
  /\ Returns("clock", "example_disconnect", "esp_deep_sleep")
  /\ up' = [up EXCEPT !["clock"] = @ \ {"network"}]
  /\ UNCHANGED <<resolver, nvs, clock>>

ObtainTime == Common("clock") \/ WaitForTime \/ ExampleDisconnect

\* Deep sleep keeps what the RTC holds, and nothing else.
Wake ==
  /\ Returns("clock", "esp_deep_sleep", "is_time_set")
  /\ up' = [up EXCEPT !["clock"] = {}]
  /\ UNCHANGED <<resolver, nvs, clock>>

ClockAppMain == IsTimeSet \/ ObtainTime \/ Wake

-----------------------------------------------------------------------------
(* Failures *)

Reboot(c) ==
  /\ at' = [at EXCEPT ![c] = First[c]] /\ up' = [up EXCEPT ![c] = {}]
  /\ IF c = "master" /\ step # "query" THEN Restart ELSE UNCHANGED resolver
  /\ IF c = "clock" THEN timeSet' \in {timeSet, FALSE} /\ waits' = 0
                    ELSE UNCHANGED clock
  /\ UNCHANGED <<powered, nvs>>

\* ESP_ERROR_CHECK, in app_main or below it.
Abort(c) == c \in powered /\ at[c] \notin Safe /\ Reboot(c)

\* init_services returns ESP_ERR_NOT_FOUND: the same.
GivesUp == In("master", "query") /\ step = "failed" /\ Reboot("master")

MasterAppMain == MasterInitServices \/ MasterInit \/ GivesUp

\* The chip of a running program is reset.
Crash(c) == In(c, "running") /\ Reboot(c)

-----------------------------------------------------------------------------
AppMain == RtuAppMain \/ MasterAppMain \/ RestAppMain \/ ClockAppMain

BootNext ==
  AppMain \/ SntpAnswers \/ \E c \in Chip : ExampleConnect(c) \/ Abort(c) \/ Crash(c)

BootSpec == BootInit /\ [][BootNext]_bootVars

\* Calls return, mdns_query_ptr after 3 s at most, and the chip wakes up; only
\* example_connect waits for as long as there is no network.
FairBootSpec ==
  /\ BootSpec
  /\ WF_bootVars(RtuAppMain) /\ WF_bootVars(MasterAppMain)
  /\ WF_bootVars(RestAppMain) /\ WF_bootVars(ClockAppMain)

-----------------------------------------------------------------------------
StartTypeOK ==
  /\ TypeOK
  /\ powered \in Deployments
  /\ at \in [Chip -> {"nvs_flash_init", "esp_netif_init",
                     "esp_event_loop_create_default", "start_mdns_service",
                     "initialize_mdns", "initialise_mdns", "example_connect",
                     "esp_wifi_set_ps", "init_fs", "start_rest_server",
                     "master_init", "slave_init", "example_disconnect"} \cup Safe]
  /\ up \in [Chip -> SUBSET {"mdns", "network", "fs", "web", "modbus"}]
  /\ nvs \in [Chip -> {"good", "stale"}]
  /\ timeSet \in BOOLEAN /\ waits \in 0..(RetryCount - 1)

\* A failing call never leaves half a program running: whoever runs has all it
\* offers and needs, and browsers are served from a mounted file system only.
Needs == [rtu |-> {"mdns", "network", "modbus"},
          master |-> {"network", "fs", "web", "modbus"},
          rest |-> {"mdns", "network", "fs", "web"}, clock |-> {}]
NothingHalfStarted ==
  \A c \in powered :
    /\ Running(c) => Needs[c] \subseteq up[c]
    /\ "web" \in up[c] => {"fs", "network"} \subseteq up[c]
    /\ c = "master" => (Running(c) <=> step = "polling")

\* What clock/README.md says: once the time is synchronised, the clock prints
\* it after a wake-up without connecting, through any wake-up and restart.
QuietOnceSet ==
  [][timeSet /\ "network" \notin up["clock"]
       => "network" \notin up'["clock"]]_bootVars

Fault ==
  \/ \E c \in Chip : Abort(c) \/ Crash(c)
  \/ Advertised /\ QueryMisses
  \/ OutOfMemory
FaultsEnd ==
  /\ <>[][~Fault]_bootVars
  /\ \A c \in Chip : []<>~In(c, "example_connect")

\* When calls stop failing, networks let the chips in and an advertised RTU
\* is found, the RTU, the master and the REST example all run, whatever
\* order they were powered in: unusable NVS partitions have been erased (the
\* REST example cannot), and the master restarts until the RTU is up.
SystemComesUp ==
  FaultsEnd /\ nvs["rest"] = "good"
    => <>[](\A c \in powered \ {"clock"} : Running(c))

\* When calls stop failing, the clock always goes back to sleep, though the
\* time server may never answer.
ClockSleepsAgain ==
  FaultsEnd /\ "clock" \in powered /\ nvs["clock"] = "good"
    => []<>(at["clock"] = "esp_deep_sleep")
=============================================================================
