# Verification of the NRF51822 gateway

TLA+ models of the gateway firmware in `src/Source`, model-checked with TLC,
with theorems proved by TLAPS. The gateway is a Nordic nRF51822 with a WIZnet
W5500 Ethernet chip, a GPRS modem on its UART and two nRF24L01+ radios. It
collects the readings of up to 240 sensors, uploads them by MQTT over Ethernet,
or over the modem when it starts without a cable, and drives an alarm relay the
broker switches.

There is no operating system. One main loop (`main.c`) runs a pass after
another; interrupts store bytes, frames and time. The two communicate through
global variables, nearly all of them without a lock.

    main()          while(1) { SoftWareEventInLoop; SoftWareTimeingEventInLoop;
                               Realy_TimeOutTask; }
    UART0    prio 1   stores a byte of the modem in stUart
    GPIOTE   prio 0   a radio frame is stored as a sensor's reading
    TIMER2   prio 3   1 ms: the UART time-out; every 10 ms SystemNowtime
    TIMER1            1 s: the DHCP client's timer

## 1. Inventory

### 1.1 The parts the project models

**Event loop and uplink selection** (`App/main.c`, `App/app.c`).
State: the event masks `LoopEvents` and `LoopEventstmp`, the timed-event masks
`LoopTimeEvents` and `LoopTimeEventstmp`, `W5500_NOPHY_TryGPRS_Flag`, the last
times `HeartBeatLt` and `SendDataLt`, `First_Power_ON_Flag`,
`MQTT_Count_SendTimes`, `MQTT_Resv_Read_data`, `Clear_Flag`.
Operations: `SoftWareInit` and one block per event, in the order NETINT, DHCP,
CONNECT, RECVNET, GPRSINT, GPRSDO, TIMEING; the merge of the temporary mask;
the timed block, which raises heartbeats and uploads.
Hard: an event is cleared by XOR, a failure path raises the event of an earlier
block, two masks exist for each kind of event, an early return sits before the
merge of the timed ones, and the path is re-read at every step.
Correct when: a stage is always left to run, a live session is served, the two
paths are not mixed, a heartbeat raised is dispatched, uploads recur, and a
lost session is noticed.

**GPRS command machine** (`App/AT_Proc.c`).
State: `NB_TaskStatus`, `ATCurrentCmdNum`, `ATNextCmdNum`, `CurrentRty`, the
table `ATCmds` with its confirmation texts and retry counts, a timer,
`GPRS_InitOver_Flag`. Operations: `NB_Init`, `NB_Work` (a step of the machine
per pass), `ATSend`, `ATRec`, `Rec_WaitAT`, `MQTT_GPRS_ResvData`.
Hard: answers come late, twice, negatively or not at all; the same buffer holds
answers, downlink and left-over text; a repetition is recognised by a number
that a restart leaves alone. Correct when: a command counts as done only when
the modem did it, retries stay within the table, the bring-up ends once the
modem works.

**UART receive buffer** (`GPRS/Uart.c`, `App/nrf_it.c`).
State: `stUart` = `RxOK:1`, `u8Timer:7` (one byte), `u8Count`, the buffer.
Operations: the byte interrupt, the 1 ms time-out, `clearUart` and `ATRec` of
the main loop. Hard: three contexts write two bit-fields of one byte by load
and store. Correct when: nothing is written past the buffer and a frame is
neither forgotten nor declared complete while bytes are coming.

**System clock** (`nrf_it.c`, `app.c`, `AT_Proc.c`, `main.c`).
State: `SystemNowtime`, 32 bits. Operations: the tick, and three different
subtractions. Hard: the wrap after 497 days. Correct when: what is measured is
the time passed.

**Sensor store** (`nrf24l01/nrf24l01+.c`, `App/NetHandler.c`).
State: per sensor the reading, its time (0 for none) and its hexadecimal copy.
Operations: the radio interrupt stores; `Clear_Buffer_TimeOutTask` clears what
is old; `Clear_ALL_nrf24l01_TempData` clears everything; `MQTT_SendData`
copies it into packets with the interrupts off. Hard: a frame may arrive
between any two statements of the loops, and the section without interrupts
ends at the first SPI access inside it. Correct when: an uploaded record is of
one reading, and a silent sensor ends up cleared and reported.

**Alarm relay** (`main.c`, `app.c`).
State: `MQTT_Resv_Alarm`, `MQTT_Resv_AlarmTime`,
`MQTT_Relay_AlarmCount_flag`, `MQTT_Relay_AlarmCount`, the pin. Operations: a
message sets the first two, the timed block switches on, `Realy_TimeOutTask`
off. Hard: alarm, cancellation and new times in any order while the relay is
on. Correct when: one alarm switches on once, and it ends.

**Address acquisition** (`w5500/Internet/DHCP/dhcp.c`, `NetHandler.c`).
State: `dhcp_state`, `DHCP_SIP`, the address offered, the retry count and
timer, `gWIZNETINFO`, the chip's own address. Operations: `DHCP_init`,
`DHCP_run`, `check_DHCP_timeout`, `DHCP_stop`, `DHCP_proc`, the 1 s tick.
Hard: several servers, and messages lost, late, repeated or out of order
without a transaction number that is compared; the loop of the DHCP block has
no bound of its own. Correct when: an address in use was granted, or is the
one of the flash, and the loop ends.

**Session with the broker** (`NetHandler.c`, `w5500/Internet/MQTT`,
`w5500/Ethernet/socket.c`).
State: `isconnected`, the message handler, `ping_outstanding`, two timers, the
socket's status, `sock_is_sending`, the packets on the connection, and what the
broker decided. Operations: `NetworkInitHandler`, `MQTT_Init` (connect,
CONNECT, SUBSCRIBE, heartbeat), `MQTT_Working` (one `cycle` and `keepalive`),
`MQTT_HeartBeat`, `MQTT_SendData`.
Hard: the broker refuses, is slow, closes or falls silent; results overwrite
each other in `MQTT_Init`; `waitfor` takes any packet of the right type; a
failed read is not reported; the time-outs run inside sections that disabled
the interrupt they count. Correct when: what the client believes is what the
broker said on this connection, a lost session is given up, and the gateway
ends in a session that lasts once broker and network are well.

**Configuration in flash** (`NetHandler.c`, `nrf_nvmc.c`).
State: two flash pages, each a whole `para_cfg_t`; `MQTT_Save_Data` and
`TCP_Save_Data`, the copies in memory; the running parameters and addresses.
Operations: `store_clear`, `para_store`, `para_read`, `Read_Flash_TCP_Data`, the
update message of the broker, the W and C messages of the console.
Hard: both pages are read into the same variables; erasing and writing are
apart, and power may go between them or in the middle of either; messages carry
some of the fields. Correct when: the last stored update and the last
provisioned address are what the gateway runs with after any restart.

### 1.2 The other parts

| Part | State and operations | Hard | Here |
|---|---|---|---|
| W5500 sockets and SPI (`socket.c`, `w5500.c`, `wizchip_conf.c`) | chip registers, `SPI_CrisEnter/Exit` | waits without a bound; critical sections that do not nest | the broker's socket and the enabling of the interrupts in `MqttClient`; calls that may not return in `EventLoop` |
| TCP provisioning console (`Creat_TCP_Client`) | a socket and a command loop | left by a reset only | its W and C messages in `ConfigFlash`; a call that may not return in `EventLoop` |
| Upload payload (`Creat_json_MQTT_SendData`, cJSON) | heap objects | text freed before it is used | the copying in `SensorStore` |
| Tag radio and tag list (`radio_config.c`, `xqueue.c`) | a linked list filled by an interrupt | never emptied, on the heap the JSON texts need | not modelled |
| DNS client (`dns.c`, `DNS_Analyse`) | - | a failure is a `while(1)` | the halt, in `Dhcp` and `EventLoop` |
| Board support (`hal.c`, `SPI1.c`, `spi_master.c`) | registers | - | its interrupt priorities decide the interleavings of `Uart` and `SensorStore` |
| Protobuf messages, sources outside the build (`net.c`, `m2m.c`, `aes.c`, `Radio.c`, `sx1276*.c`), vendored SDK and unused protocols | - | - | not modelled: generated, never called, or third-party code |

### 1.3 How the parts interact

* The event loop calls every other part, at one place of a pass each. What
  such a call may change of the loop's own state (the path flag, the session,
  the DHCP state, the request for an upload) and whether it may never return
  is in `EventLoop`; the part itself has its own module.
* `AtModem` is the GPRSDO block and the receive block on the modem path. It
  sees the UART as "a frame is complete" and what its text contains; `Uart` is
  what lies below, byte by byte.
* `SensorStore` shares the events SENDDATA and the flag `Clear_Flag` with the
  event loop: a cleared sensor raises an upload, an upload reads the store.
* `Relay` shares the timed block with the event loop, and its parameters with
  the broker's messages.
* `Dhcp` is the NETINT and DHCP blocks in detail. `EventLoop` keeps of it that
  it is stopped or not, and its last result.
* `MqttClient` is the NETINT and CONNECT blocks, the receive stage and the two
  publishing handlers on the Ethernet path in detail. `EventLoop` keeps of it
  that a session is there or lost, and that a publication may fail; that the
  failure of a lost session is indeed noticed is `LossNoticed` of `MqttClient`.
* `ConfigFlash` has what `Relay` takes as a changed alarm time, and what `Dhcp`
  takes as the address of the flash.
* Every timed decision goes through one of the subtractions of `Clocks`.

## 2. Modules

| Module | Models | Proofs |
|---|---|---|
| `EventLoop` | the scheduler | `EventLoopProofs` |
| `Uplink` | what the scheduler promises: the abstract specification | (in `EventLoopProofs`) |
| `AtModem`, `MCAtModem` | the GPRS command machine and its modem | `AtModemProofs` |
| `Clocks` | the clock's arithmetic and its three subtractions; `Relay` and `SensorStore` extend it | (in `RelayProofs`) |
| `Dhcp` | address acquisition with servers and a network | `DhcpProofs` |
| `Uart` | the receive buffer, at the grain of loads and stores | `UartProofs` |
| `SensorStore`, `MCSensorStore` | the readings, the radio interrupt, clearing, upload | `SensorStoreProofs` |
| `Relay` | the alarm relay | `RelayProofs` |
| `MqttClient` | the session: client, socket, line and broker | `MqttClientProofs` |
| `Session` | what the client promises of a session: the abstract specification | (in `MqttClientProofs`) |
| `ConfigFlash`, `MCConfigFlash` | the two flash pages and what reads and writes them | `ConfigFlashProofs` |

A definition whose comment says "Fault:" is a plausible slip of the code (a
guard dropped, a limit off by one, a flag not reset). It is not used by the
specification; each property is known to be violated when the definition it
belongs to is replaced by it, which shows that the property can tell.

### 2.1 EventLoop

The masks are sets of event names. `pc` is the place of a pass: a value per
event block, then `merge`, `timed` (the clock is read) and `console` (what
follows `Creat_TCP_Client`). Each block is an action `Handle...` with the guard
`Enter(place)`, and `PassOver` skips a block whose event is not set; every
action raises what the block raises and clears its event by `Toggle`, the XOR.
Between any two actions the clock may tick and the session may be lost
(`LoseSession`), so state tested in one block may be stale in the next. The
unbounded loops are places too: the DHCP block stays at its place until it has
a result, `halted` is the `while(1)` of a failed lookup or an address conflict,
`provisioning` the command loop of the console.

The timed block has three ways through: `TimedIdle` (not receiving),
`TimedEarlyReturn` (`app.c:434`), `TimedToEnd`. What it decides by `newTime` is
decided when `newTime` is read (`ReadClock`, variable `due`), and applied at
the end, as in the code.

Times are ages that saturate at the threshold they are compared with, so that
the state is finite without a bound on the run: two ages beyond the threshold
are the same to the code. The wrap is the subject of `Clocks` and `Relay`; that equal
times count as elapsed (`app.c:124`) is kept (`Elapsed`).
`MQTT_Resv_Cycle` is constant within a run (`CycleCount`). `LogTicks` is the
time a due timer's log line takes on the bit-banged output, at least a tick:
without it a fast loop could count one window twice, and `OncePerWindow` says
that it does not.

`Uplink` is the abstract view of the same behaviour: a mode (`off`, `ethernet`,
`modem`, `stranded`) chosen once, and being on line or not. `UplinkMode` and
`UplinkOnline` are the refinement mapping, `ImplementsUplink` the refinement.

### 2.2 AtModem

`SendCommand` is the NB_SEND case of `NB_Work`; `Succeed`, `InitOver`, `Resend`,
`GiveUp` and `KeepWaiting` the ways through NB_WAIT, each with the `ATRec` that
precedes the decision. `PollDownlink` and `Reinitialise` are
`MQTT_GPRS_ResvData`. A text is the token an answer is searched for; a buffer
is the set of tokens found in it. `ATRec` leaves the bytes in the buffer, so
the next frame may find part of the old text behind it (`Receive`).

The modem is the environment: it keeps the commands it has taken in `queue` and
answers them in order, as late as it likes; as long as it is not `good` it
refuses, drops, answers "OK" first, or errs. `ModemRecovers` makes it good for
the rest of the run. After it, answers come before their timers end.

### 2.3 Uart

`RxOK` and `u8Timer` are bit-fields of one byte. An assignment to one is
therefore a load and a store of both; the modelled order is the one of the
source, a store following its load, because `stUart` is not `volatile` and
neither is reordered across the other in the statements concerned. Priority
decides who may cut in: the byte interrupt (1) into everything, `TIMER2` (3)
into the main loop only (`MainRuns`). `UART0_IRQHandler` is one step, because
nothing that touches `stUart` preempts it.

`inTheClear` is a history variable: the last byte came while neither the main
loop nor `TIMER2` was between the steps of an access. The two properties speak
of such bytes. Without it they fail, and rightly: a byte that comes while the
buffer is being cleared is lost, and one between the test and the report of
`TIMER2` is reported too early (`nrf_it.c:188`). These are listed as hazards.

### 2.4 SensorStore

The interrupt is one step for the main loop (it runs at the highest priority:
`SPI1.c:76` asks for 4, of which the two implemented bits are 0). The main
loop's byte loops are two steps each, a reading being a pair of halves; a torn
reading is a pair whose halves differ. A damaged frame is stored like any
other, as the code does (`nrf24l01+.c:421`), and the interrupt may store the
previous frame again. `masked` is the section without interrupts, which ends at
the first access to the W5500, in `MQTTPublish` of the first packet. `known` is
what the records last copied into an upload say; whether the upload arrives is
the subject of `MqttClient`. `ageless` is a history variable for readings stored
while the clock read 0, the value that means "no reading". `TestSensor` and
`ClearTime` are two steps, so that a frame may come between the test of
`nrf24l01+.c:313` and the clearing at `:317`. `NeverReturns` is a call of the main
loop without an end: then only the interrupts go on.

The upload modelled is the one over Ethernet. The one over the modem
(`AT_Proc.c:217`) copies every packet with the interrupts enabled, as the later
packets are copied here, and nothing keeps its records whole.

### 2.5 Relay

A pass in three steps: messages, timed block, time-out task. The message action
sets the alarm flag or the alarm time to anything. The clock, of `Clocks`, is a
variable here and goes round; every pass reads it twice, and it ticks between
any two steps. `NeverReturns` is a call without an end in one of the first two
(the DHCP block, a `while(1)`, the console): the relay stays as it is and only the
clock runs (`blocked`). The protocol gives two alarm times a meaning of their own
(`NetHandler.c:42`): 0 is no alarm, 255 an alarm for ever. The code knows neither,
and both stay inputs of the model; 255 is the constant `Continuous`. What the
properties promise they promise of the others: `AlarmLasts` and `RelayEnds` except
`Continuous`, `AlarmHeard` excepts 0. Two history variables: `unanswered`, an alarm arrived while the
relay was off, and the relay has not been switched on since; `onFor`, the ticks
that have really passed since it was, for `AlarmLasts` to compare with what the
code measures.

### 2.6 Dhcp

`DHCP_proc` takes at most one message per call, chosen from the network; the
message may stay there (a duplicate), be taken late or be lost. The branches of
`DHCP_run` and `check_DHCP_timeout` are one action each. A server stands for
the one address it leases, so a record of type and server is a message: the
code tells messages apart by the server only, since its transaction number is
the same after every `DHCP_init` (`dhcp.c:948`) and is not compared.
`MY_MAX_DHCP_RETRY` is 0 (`NetHandler.c:956`): the first failure selects the
static address. The wait after a DECLINE is part of `TakeConflict`, which ends
in the halt. `STATE_DHCP_REREQUEST` cannot run: the DHCP block stops the client
in the call that would lead to it. For the same reason a lease is never renewed
and outlives its time (`app.c:257`).

### 2.7 MqttClient

`pc` is the place in `MQTT_Init` (`connect`, `connack`, `subscribe`, `suback`,
`heartbeat`), `upload` inside `MQTT_SendData`, or `idle`. A step is one call
that waits or talks to the chip; between two steps the broker hears, answers,
publishes or closes, the chip confirms or gives up, and the line dies. A packet
is a record of its type, what it says, and `of`, the call of `MQTT_Init` it
belongs to, modulo 3: more than enough to tell this call from an earlier one.
`toBroker` and `toClient` are what is on the connection, in order, as TCP keeps
it. `MQTT_Init` gets a new socket, and with it an empty connection. A message may
overtake the answer to the subscription it is for, as MQTT allows: `waitfor` then
reads it, finds no handler, and waits on (`OtherArrives`).

`Send` is `sendPacket` with the packet taken by the chip, `SendFails` the same
after a second of trying: `SOCK_ERROR` and `SOCK_BUSY` are both 0, so a closed
socket and a busy one are tried alike. `sending` is `sock_is_sending` and the
chip's confirmation, which follows the peer's acknowledgement. `MQTT_Working`
reads a packet or none and runs `keepalive` after it, and reports nothing.

`masked` is PRIMASK. `MQTT_Init` and `MQTT_SendData` disable the interrupts
(`NetHandler.c:1261`, `:1479`), and with them the tick their time-outs count; the
SPI driver enables them after its first access (`AfterAccess`). A time-out can
pass only with the interrupts enabled: `CallsEnd` says that it does.

`Session` is the abstract view: what the broker has decided on this connection,
what the client believes, and whether the gateway serves. In it the broker
answers first, the client believes after it, serving begins only in an open
session, and a new connection only when serving has been given up; losing the
connection may come at any moment. `BrokerSide`, `ClientSide` and `Serving` are
the refinement mapping: a client whose socket is closed is closed, whatever
`isconnected` says, and the receive stage that still has NETINT or CONNECT in
front of it is not serving.

`calm` is a prophecy of the environment, true from some moment on: the broker
grants and the line lives. It is what the hypothesis of `SessionKept` speaks of.

### 2.8 ConfigFlash

A page is a record of parameters and an address; it stands for the whole
`para_cfg_t`. `pc` follows one pass from the start through the link check and the
NETINT and CONNECT blocks to `idle`, where messages come; `update` and
`provision` are the moment between erasing a page and having written it, and
`UpdateCut` and `AddressCut` lose the power then, with any number of parameters
written. `ReadInto` and `SetGlobals` are the two results of `para_read`: what it
leaves in the copy, and in the globals. `NetworkInitHandler` reads STATIC_PAGE,
`MQTT_Init` and a failed link check read STORE_PAGE, each over what the other has
read.

`ordered` is a history variable, what the last stored update said of each
parameter; `provisioned` the last stored address; `lost` the pages whose last
writing was cut, and `torn` those that were ever left partly written: both
properties except them, because the code has nothing to tell such a page from a
good one.

## 3. Runs

Distinct states in brackets; deadlock is checked except in the `Dhcp` runs,
where the gateway may halt in a `while(1)`.

| Run | Module | What it shows |
|---|---|---|
| `el_schedule` (561 428) | EventLoop | whatever the order of events, link failures, lost sessions and ticks: a stage is left to run (`StageNeverLost`, `ModemStageKept`), a live session is served (`SessionServed`), a stopped DHCP client is not asked for ever on Ethernet (`DhcpLoopFed`), a window counts once (`OncePerWindow`), the loop implements `Uplink`, in which the paths are apart; a lost session is noticed, a raised heartbeat dispatched, uploads recur |
| `el_fallback` | EventLoop | finding 1: `RuntimeFallback` is violated |
| `at_bringup` (3 780) | MCAtModem | no command is passed unconfirmed (`ConfirmedForReal`) or sent too often (`RetryBudget`), the modem is restarted only after all sendings of a command (`AllTriesMade`), and the bring-up ends once the modem works (`BringUpConverges`) |
| `at_reinit` | MCAtModem | finding 2: `ReinitCompletes` is violated |
| `at_restart` | MCAtModem | finding 4: `RepetitionsUsedUp` is violated |
| `uart_receive` (60 002) | Uart | no byte outside the buffer, no frame forgotten (`FrameReported`), none reported early (`CompleteMeansQuiet`), for bytes that came in the clear |
| `store_upload` (794 674) | MCSensorStore | no record of the first packet sent over Ethernet is torn (`FirstPacketWhole`); silence is cleared and goes into an upload (`SilenceReported`), unless a call never returns |
| `store_early` | MCSensorStore | finding 3: `OnlyOldCleared` is violated |
| `relay_alarm` (542 080) | Relay | each way to measure a time is exact, or a tick short over the wrap, and never ahead (`TimesMeasured`); one switching per alarm (`OneAlarmPerMessage`), which lasts the minutes asked for (`AlarmLasts`, not for `Continuous`); it ends (`RelayEnds`, unless a call never returns or `Continuous` is asked for), none is swallowed (`AlarmHeard`, unless a call never returns or 0 is asked for) |
| `dhcp_acquire` (52 327) | Dhcp | an address in use was granted by its server (`LeaseGranted`) or is the configured one (`StaticIsConfigured`); the loop ends (`AcquisitionEnds`) |
| `mqtt_session` (78 132) | MqttClient | the client's belief is the broker's word on this connection (`SessionReal`, `ServesAccepted`, `AnswersThisRequest`), a ping is outstanding just when it is on its way (`OnePing`), a dead line swallows at most one packet reported as sent (`OneUnheard`), and the whole implements `Session` (`ImplementsSession`); calls end (`CallsEnd`), a lost session is given up (`LossNoticed`), and with a good broker and network the gateway ends in a session it keeps (`SessionKept`) |
| `config_pages` (2 384 326) | MCConfigFlash | the last stored update is what the gateway runs with (`UpdateKept`) and the last provisioned address is the one it uses (`AddressKept`), after any restart, link check or session, with power lost at any step |

A type invariant that says no more than that the variables have their types
(`AtModem`, `Relay`, `Dhcp`, `MqttClient`) is proved (`TypeCorrect`) and not run;
it is run where it is a limit of the code: of a buffer, an array, a counter or a
byte (`EventLoop`, `Uart`, `SensorStore`, `ConfigFlash`).

### 3.1 Bounds, and why they are enough

* `EventLoop`: a heartbeat of 4 ticks, an upload check every 2, a power-on time
  of 3, an upload every 3 checks, log lines of 1 tick. Both timers can be due
  together and apart, the power-on time ends between two checks, and an upload
  needs two early returns before it. The same properties were also checked with
  (4, 3, 2, 2, 2) and (5, 2, 3, 2, 1), and the safety ones are proved for every
  value.
* `AtModem`: six commands, with and without a confirmation of their own, with 2,
  1 and 0 retries, and the signal query that repeats itself; up to three
  commands unanswered, as many as the first one is sent in a row.
* `Clocks`: in `relay_alarm` a round of 16 ticks, which is all the arithmetic
  distinguishes; the theorems have any round.
* `Uart`: three bytes and a time-out of two ticks. The buffer runs full, a frame
  ends by time-out, and each of the two may fall on any access of another
  context.
* `SensorStore`: two sensors in two packets, so that there is a packet after the
  first; one has two readings, which a torn record would mix. The clock goes
  round in 3 ticks and `MaxLag` bounds how late the main loop looks; `store_early`
  uses a longer round, so that a wrap is not what is seen.
* `Relay`: a round of 16 ticks, alarm times of 0, 1 and 3 "minutes" of 3 ticks,
  and 2 for the one that stands for an alarm for ever; `MaxLag` as above. The alarm time plus the lag is shorter than the round, as
  255 minutes are shorter than 497 days.
* `Dhcp`: two servers, two repetitions as in the code, at most `MaxNet` messages
  on their way, and a tick that stops above every value it is compared with.

* `MqttClient`: uploads of two packets, so that one follows a failure within the
  upload; at most two messages of the broker waiting (answers come on top of
  them). The calls of `MQTT_Init` are told apart modulo 3; `unheard` counts
  without a bound and stays at 1. The safety properties are proved
  for any number of packets and messages.
* `ConfigFlash`: three of the five parameters: one that may be 255 like an erased
  byte, one the broker may send wider than a byte, and one that, by its documented
  range, never is 255 and so tells a written page from a blank one. Two
  addresses, the compiled one and another.

### 3.2 Fairness

* `EventLoop`: the main loop takes its next step, the timer ticks. Nothing is
  assumed of the network, the broker or the console; the liveness properties
  exclude, by `LoopBlocked`, runs that stay for ever in one of the calls without
  a bound, which the code has.
* `AtModem`: `NB_Work` and the poll are called, the timer runs, the modem
  answers what it has in its queue. The last counts for a working modem only:
  `BringUpConverges` starts from `good`.
* `Uart`: the 1 ms interrupt recurs, the main loop finishes a clearing it began.
* `SensorStore`: the main loop goes on unless it is blocked in a call that never
  returns, which `SilenceReported` excepts; the start of the time-out task, the tick
  and the upload period are strongly fair, because other steps and the masked
  section disable them again and again without ever ending them (the timed block
  is reached in every pass; uploads recur by `UploadsRecur` of EventLoop).
* `Relay`: the three steps of a pass, unless the loop is blocked in a call that
  never returns, which `RelayEnds` and `AlarmHeard` except. A lost receive stage,
  without which the timed block does nothing, comes back (EventLoop). `StartAlarm` strongly, since the block in
  front of it returns early in some passes and not in all; the tick strongly,
  since `MaxLag` holds it back for the time of a pass.
* `Dhcp`: the loop asks, the 1 s timer runs. Nothing of the network:
  `AcquisitionEnds` excepts servers that offer for ever and never acknowledge,
  against which the code has no limit.

* `MqttClient`: the calls return; the second of a wait passes if nothing is to be
  read (weak). The stages and the heartbeat are strongly fair: every pass of the
  loop comes to the block of a pending event, whatever else it does. The chip
  confirms a packet or gives up, and a broker that hears a packet answers it;
  that it accepts is assumed by `SessionKept` only, from `calm` on.

## 4. Findings

1. `RuntimeFallback` (`NetHandler.c:895`, `:898`). A cable lost while running
   sets the GPRS flag, "has switched to GPRS", but nothing raises GPRSINT, which
   only `SoftWareInit` does; the DHCP block then asks a client that is stopped.
2. `ReinitCompletes` (`AT_Proc.c:345`, `:354`). The bring-up that five errors
   start again sends its first command and is never called again.
3. `OnlyOldCleared` (`nrf24l01+.c:312`, `:314`). A reading stored after the task
   read the clock has a later time, the unsigned difference wraps, and the
   reading just received is cleared as too old.
4. `RepetitionsUsedUp` (`AT_Proc.c:568`, `:413`). The modem is restarted when "the
   repetitions are used up". After a restart for AT itself, the first command, AT
   is taken for a repetition of itself and keeps the spent count: it is sent once,
   not `RtyNum` + 1 times, before the modem is restarted again. `AllTriesMade` is
   the same for the other commands, and holds.

Seen while modelling, and with no run of their own, because each follows from a
line or two at once:

* `TimeDifference` of two equal times is 0xFFFFFFFF (`app.c:124`); the power-on
  time, "15 minutes" (`app.c:415`), is 15 x 600 ticks of 10 ms: 90 seconds.
* A byte that comes while `clearUart` runs is counted but wiped (`Uart.c:130`);
  `RxOK` may be set in the middle of a frame (`nrf_it.c:188`).
* The checksum of a sensor frame decides nothing (`nrf24l01+.c:421`); the
  terminator of `HexToStr` is written past its buffer (`nrf24l01+.c:274`).
* The alarm times 0, "no alarm", and 255, "alarm for ever" (`NetHandler.c:42`), have
  no such meaning in the code: with 0 the relay is switched on for a pass
  (`app.c:478`), with 255 it ends after 255 minutes (`main.c:94`). The properties of
  `Relay` except both rather than promise what the comment contradicts.
* The preset of a blank page for the alarm time, 10, is not the initial value, 5
  (`NetHandler.c:42`, `:174`).
* The DHCP transaction number never changes (`dhcp.c:948`); a lease is never
  renewed (`app.c:257`); the last repetition is not waited for, because the count
  is tested before the time (`dhcp.c:846`, `dhcp.h:62`).
* A session whose subscription timed out is served for ever, and receives nothing
  (`NetHandler.c:1303`: the result of `MQTTSubscribe` is overwritten).
* A second partial update before the next `para_read` stores 0 for the fields it
  lacks (`NetHandler.c:1199`), outside their documented ranges (`:41-45`).
* A write that is cut in the middle leaves values of 255 that the next start takes
  for parameters, and an address of 255.255.255.255; with the page of the address
  erased, the older copy in STORE_PAGE comes back at the second NETINT block.
* The JSON text of an upload is freed before it is published (`NetHandler.c:1363`).
* The list of tags is never emptied (`xqueue.c:130`, 301 at most), and shares the
  2048 bytes of heap with the JSON texts.

## 5. Proofs

The theorems hold for every value of the constants that satisfies the named
assumption of the module: `ConstantsAssumption` (periods positive, the upload
check not rarer than the heartbeat), `TableAssumption` (any command table whose
confirmations are not "ERROR"), `PeriodAssumption` (any clock), `RelayAssumption`
(any alarm times that with the lag of two passes end within a round of the clock,
as 255 minutes do within 497 days), `DhcpAssumption`
(any finite set of servers, distinct addresses, positive times),
`MqttAssumption` (uploads of any length, any number of waiting messages),
`ConfigAssumption` (any parameters, of which one, as documented, is never sent or
preset as 255), `SizesAssumption` (any receive buffer, any time-out),
`StoreAssumption` (any sensors, readings, packets and clock). TLC evaluates them
for the constants of the runs.

Each proof is: the type invariant first; an inductive invariant, with one step
per action; then the property from the invariant, by PTL.

* **EventLoopProofs.** `StageNeverLost` and `SessionServed` are not inductive
  alone. `StageInv` adds `NothingAtBoot` (nothing is raised before
  `SoftWareInit`), `DhcpFed` (the client is stopped only by the code that has
  its result), `SessionOnEthernet`, `ModemOnly` (no W5500 stage on the modem
  path) and `ModesApart`. The heart is `FinishPending`: a block that clears its
  event by XOR clears it alone, so that the stage it raises, or the one another
  failure raised meanwhile, is left. `ModemStageKept` is an action property from
  the same invariant. `OncePerWindow` has its own, `WindowInv`: the remembered
  time equals the clock only before the first tick, while the power-on flag is
  still set, so the wrong result for equal times never advances the counter.
  `ImplementsUplinkHolds` maps every step to one of `Uplink` or to none, with
  `BootState` (a restarted DHCP client before `SoftWareInit`) to tell the modem
  path from the stranded state.
* **AtModemProofs.** `ModemInv` says that while an answer is awaited nothing has
  been accepted yet (`AwaitingAnswer`); that a confirmation with one owner, found
  in the buffer then, was given by the modem since its last restart
  (`BufferIsRecent`), because `ATSend` clears the buffer; and that sendings done
  and repetitions left add up to at most the row of the table (`BudgetLeft`).
  `AllTriesMade` needs the other direction: `TriesSpent` says that for a command
  other than AT they add up to exactly the row. That AT is excepted is not a
  convenience: for AT the invariant breaks at the restart, which is finding 4.
* **RelayProofs.** `TimesMeasured` is arithmetic, from the assumption alone. For
  the relay `IInv` adds to the types: `Paced` (the readings of a pass are taken in
  order, and the last one is at most `MaxLag` old), `AlarmInv` (the flag, the pin
  and the remembered time agree; what the code will measure, `Age`, and what has
  really passed, `onFor`, differ by at most a pass; and the next time-out check
  comes before the clock has gone round once, which is the fact that fails first
  when a period is too long), and `Answered` (an alarm pending while the relay is
  off is a new one). `OneAlarmPerMessage` and `AlarmLasts` follow. The lemmas
  `SubtractionTicks` and `SubtractionBetween` carry the wrap: what a tick adds to a
  difference, and how differences of three readings add up. Once the loop is blocked
  the readings of a pass are not renewed, so `Paced` and the measures of `AlarmInv`
  speak of the other places only; `AlarmLasts` is `AlarmInv` at the time-out task,
  for every alarm time but `Continuous`.
* **DhcpProofs.** `ServerKnown` (the server listened to is the one whose address
  is asked for), `AcksGranted` (an ACK on its way, however late, was granted),
  `LeasedGranted`, and `AddressRead` (only an ACK overwrites the address of the
  flash) carry `LeaseGranted` and `StaticIsConfigured`.
* **MqttClientProofs.** `SessionReal` needs what is still on the connection:
  `Fresh` (every packet belongs to this call of `MQTT_Init`), `Truthful` (an answer
  on its way says what the broker decided), `OneConnect` and `OneSubscribe` (a
  request on its way is the only one of its kind, and not answered yet), and
  `Progress` (how far `MQTT_Init` has come bounds what there can be).
  `AnswersThisRequest` follows from `Fresh`, `ServesAccepted` from `SessionReal` and
  from `Staged` (`MQTT_Init` runs only under its event). `Unconfirmed` says that a
  dead line has swallowed nothing more unless the chip still waits to confirm it;
  `OneUnheard` follows. `OnePing` is `PingInv`: no ping is outstanding inside
  `MQTT_Init`, where an answer to it would be read by nobody, and on a live
  connection there is none, or one not yet heard, or one answer on its way
  (`InFlight`). `ImplementsSession` needs, besides `SessionReal`, that a SUBSCRIBE
  is on its way only from a client that is connected, and granted only by a broker
  that accepted (`Subscribing`): the broker must not grant what it has not
  accepted, nor the client be told before it is open.
* **ConfigFlashProofs.** `Tell` is the parameter that is never 255: by it a written
  page is not blank. `StoredOrdered` relates STORE_PAGE to `ordered`, `Told` the
  update in hand to the copy about to be written, `StoredProvisioned` STATIC_PAGE to
  `provisioned`; `NeverProvisioned` says that before the console is used no copy
  anywhere has another address than the compiled one, unless a page is torn.
* **UartProofs.** `CompleteMeansQuiet` speaks of moments when nobody is at work;
  between them the fields live in registers as well. `TimersBehind` bounds every
  copy of `u8Timer`, in `stUart` or loaded by either context, by the time that has
  passed; `ReportsFounded` gives every copy of `RxOK` its reason. Both are needed
  because a store of one field writes back the other one as it was loaded.
* **SensorStoreProofs.** `ReadingsWhole`: an interrupt writes both halves, the main
  loop only zeros, so that a stored reading never joins two others, whatever comes
  between two steps. `FirstPacketMasked` and `HalfCopied` carry it over to the
  record being copied: a frame that came between the copies of the halves would
  break it, and none can before the first access to the W5500.

Only model-checked: every liveness property, because TLAPS does not reason about
ENABLED and fairness here. Every safety invariant and every action property of a
passing run, and both refinements, are proved. What a recursive definition computes
for every input could not be proved with the provers used either; no module
declares a RECURSIVE operator, and what is counted is counted by the cardinality of
a set (`Places`).

## 6. Abstractions

* Texts, JSON and log output are left out, or are tokens; the time the log takes
  is kept where it matters (`LogTicks`).
* `AtModem`: uploads and heartbeats over the modem are sent without waiting, and
  appear as answers that come unasked (`ModemReplies`). Two answers merge into
  one frame if nobody takes the first.
* `SensorStore`: the upload over the modem is left out; the two radios are one
  interrupt; their registers are left out,
  and so is the sensor number beyond the array that a damaged frame may carry.
* `Dhcp`: name server, gateway and mask travel with the address.
* `MqttClient`: QoS 0, as the gateway uses it, so that the branches for
  acknowledged messages are never taken; packets arrive whole; the topics and
  payloads are left out, and with them the ten bytes of `tempBuffer` and what
  `messageArrived` does (Relay, ConfigFlash). The loops of `socket.c` without a
  bound are taken to end. That the chip's SENDOK follows the acknowledgement of the
  other side (`ChipConfirms`) is taken from the hardware: `socket.c:335` only reads
  it, and `OneUnheard` alone rests on it. Keepalive is 60 s and the waits of `MQTT_Init` a few
  seconds, so the ping timer does not run out inside it.
* `ConfigFlash`: one address stands for mask, router, ports, the broker's address
  and the console's server; `POWER_ON_COUNT` takes part in the blank test only.
  A JSON field that is missing or no number is skipped (through a null pointer the
  type of a vector-table entry is read, which is not `cJSON_Number`). The console's
  fields, static strings that keep an older text, are taken as given.
* `EventLoop`: which call notices a lost session is left open (except that a
  publish on a lost session fails); the reset by the W5500's buffer set-up may
  happen in any NETINT block.

## 7. Not modelled, and what could follow

* **The heap** (`malloc` in the radio interrupt, cJSON in the main loop,
  `xqueue.c`, `NetHandler.c:1363`). Its size is the linker's and its algorithm the
  toolchain's, and nothing in the repository says what must hold of it.
* **The SPI bus below a transfer** (`nrf24l01+.c:484`): a radio access of the main
  loop cut by the radio interrupt. SensorStore takes frames and transfers whole.
* **The texts of the modem** (`AT_Proc.c:89`): the address string that a second
  `NB_Init` makes longer than its buffer; what lies behind it is the linker's.
* **The loops of `socket.c`** (`:262` and others) as such: they wait for hardware.
* **Board support, generated code, the vendored SDK** and protocols the firmware
  never calls: register set-up, or code that does not run. They are most of the
  repository by lines.
* What could be proved next: of the liveness properties, the parts that are not
  temporal, namely that every step of a call either ends it or brings it nearer its
  end (`CallsEnd`, `AcquisitionEnds`); and an abstract specification of `Dhcp`, as
  `Session` is one of `MqttClient`.
* A composed `Gateway` of `EventLoop` with `Dhcp` and `MqttClient`, each shown to do
  what `EventLoop` takes it to do, would close the gap between the blocks and their
  details; today the agreement is by reading.
