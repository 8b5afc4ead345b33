------------------------------ MODULE BleLink ------------------------------
(***************************************************************************)
(* One central on Bluetooth, end to end: the RN4871 module (external), its *)
(* bring-up and the %...% tokens in its stream (Drivers_App/drv_rn4871.c), *)
(* the receive ring (HAL_App/hal_uart.c), the byte reassembler and the     *)
(* dispatch (Services/svc_api.c), and the transmit side                    *)
(* (Services/svc_ble.c).  What comes over the UART is cut into items: a    *)
(* token, an answer of the module, or half a packet.  The ring of frames   *)
(* is the queue that TxFrameProofs shows it to be.                         *)
(***************************************************************************)
EXTENDS Integers, Sequences, FiniteSets

CONSTANTS
  Ids, Kinds,      (* requests, as in UsbLink                              *)
  Slots, Margin,   (* of the receive ring, in items: RX_DMA_SIZE and the   *)
                   (* 16 bytes the overrun guard keeps off                 *)
  MaxLag,          (* items that arrive between two reads                  *)
  Chunk,           (* RX_CHUNK, in items                                   *)
  QueueSize, Reserve,  (* of the transmit ring, in frames                  *)
  MaxAttempts,
  MaxAsked,        (* requests the host leaves without an answer           *)
  Between,         (* two changes of the link, the device has noticed the  *)
                   (* first, or svc_ble_task has run, or nothing          *)
  PowerTests,      (* the power test may cut the module                    *)
  Nothing

(* "percent" is a request whose last byte is 0x25.                         *)
Kind == {"short", "subscribe", "unsubscribe", "percent"}
Requests == [id : Ids, kind : Kinds]
Noise == [id |-> Nothing, kind |-> "noise"]
Packets == Requests \cup {Noise}

(* Half 0 is of no packet: bytes that got out of step.                     *)
Halves == [of : Requests, half : {1, 2}] \cup {[of |-> Noise, half |-> 0]}
Garbage == [of |-> Noise, half |-> 0]
(* The module says CONNECT with the LE link, OPEN with the stream; CLOSE   *)
(* is DISCONNECT.                                                          *)
Tokens == {"REBOOT", "CONNECT", "OPEN", "CLOSE"}
Said == Tokens \cup {"CMD>", "AOK"}
Items == [said : Said, data : {Garbage}] \cup [said : {"data"}, data : Halves]
Frames == [what : {"answer"}, to : Packets, ok : BOOLEAN]
          \cup {[what |-> "push", to |-> Noise, ok |-> TRUE]}
PushFrame == [what |-> "push", to |-> Noise, ok |-> TRUE]
Commands == {"$$$", "S-", "SS", "R,1"}
States == {"RESET_LOW", "RESET_HIGH", "ENTER_CMD", "SET_NAME", "SET_SERVICES",
           "REBOOT", "READY", "FAILED"}

ASSUME BleAssumption ==
  /\ Kinds \subseteq Kind
  /\ Slots \in Nat \ {0} /\ Margin \in 1 .. Slots - 1 /\ MaxLag \in Nat /\ Chunk \in Nat \ {0}
  /\ QueueSize \in Nat /\ Reserve \in 0 .. QueueSize /\ MaxAttempts \in Nat \ {0}
  /\ MaxAsked \in Nat /\ Between \in {"noticed", "task", "nothing"} /\ PowerTests \in BOOLEAN
  /\ "CMD>" # Nothing /\ \A s \in Commands : s # Nothing

(* Nothing is none of the things that may be in its place.                 *)
ASSUME NothingAssumption == Nothing \notin Halves /\ Nothing \notin Frames

VARIABLES
  mod,          (* the module: held in reset, booting, in data or command mode *)
  cfg,          (* the settings it has taken; they survive a reset          *)
  cmd,          (* the command it has been sent                             *)
  central,      (* a central has the LE link                                *)
  stream,       (* it has opened the Transparent UART stream                *)
  cut,          (* the power test holds the module in reset                 *)
  line,         (* items received since hal_uart_read's s_rx_tail           *)
  s_state, s_attempts, s_connected,
  due,          (* the time limit of s_state has passed                     *)
  s_in_tok,     (* a '%' is held back: it may begin a token, or end this half *)
  out,          (* payload of the chunk, not yet given to the callback      *)
  part,         (* s_reasm: the half packet it has                          *)
  old,          (* ... since more than API_RX_PACKET_TIMEOUT_MS             *)
  s_was_connected, connected, subscribed,
  s_tx,         (* the queue of frames                                      *)
  air,          (* the frame the transmit DMA is sending                    *)
  pc,
  tail, odd, asked, mayPush, heard   (* the host; odd: its packets may be torn *)

modVars == <<mod, cfg, cmd, central, stream, cut>>
drvVars == <<s_state, s_attempts, s_connected, due, s_in_tok>>
rxVars == <<out, part, old>>
apiVars == <<s_was_connected, connected, subscribed>>
txVars == <<s_tx, air>>
hostVars == <<tail, odd, asked, mayPush, heard>>
vars == <<modVars, line, drvVars, rxVars, apiVars, txVars, pc, hostVars>>

TypeOK ==
  /\ mod \in {"held", "boot", "data", "cmd"} /\ cfg \subseteq {"name", "services"}
  /\ cmd \in Commands \cup {Nothing} /\ central \in BOOLEAN
  /\ stream \in BOOLEAN /\ cut \in BOOLEAN
  /\ line \in Seq(Items) /\ Len(line) <= MaxLag
  /\ s_state \in States /\ s_attempts \in 0 .. MaxAttempts
  /\ s_connected \in BOOLEAN /\ due \in BOOLEAN /\ s_in_tok \in Halves \cup {Nothing}
  /\ out \in Seq(Halves) /\ part \in Halves \cup {Nothing} /\ old \in BOOLEAN
  /\ s_was_connected \in BOOLEAN /\ connected \in BOOLEAN /\ subscribed \in BOOLEAN
  /\ s_tx \in Seq(Frames) /\ Len(s_tx) <= QueueSize /\ air \in Frames \cup {Nothing}
  /\ pc \in {"idle", "read", "feed", "edges"}
  /\ tail \in Halves \cup {Nothing} /\ odd \in BOOLEAN
  /\ asked \in Seq(Requests) /\ mayPush \in BOOLEAN
  /\ heard \in {"nothing", "answer", "refusal", "push", "noise", "stray"}

Init ==
  /\ mod = "held" /\ cfg = {} /\ cmd = Nothing /\ central = FALSE
  /\ stream = FALSE /\ cut = FALSE
  /\ line = <<>>
  /\ s_state = "RESET_LOW" /\ s_attempts = 0 /\ s_connected = FALSE
  /\ due = FALSE /\ s_in_tok = Nothing
  /\ out = <<>> /\ part = Nothing /\ old = FALSE
  /\ s_was_connected = FALSE /\ connected = FALSE /\ subscribed = FALSE
  /\ s_tx = <<>> /\ air = Nothing /\ pc = "idle"
  /\ tail = Nothing /\ odd = FALSE /\ asked = <<>> /\ mayPush = FALSE /\ heard = "nothing"

-----------------------------------------------------------------------------
(* hal_uart_read.  Head and tail are taken modulo the ring, so a reader    *)
(* that is whole rings behind sees the newest items only; one that is      *)
(* nearly a ring behind gives up the oldest.  What is lost is lost item by *)
(* item: a cut within a token, after which the '%' are told apart wrongly, *)
(* is not here.                                                            *)
Newest(s, n) == SubSeq(s, Len(s) - n + 1, Len(s))
Available(s) == Len(s) % Slots
Readable(s) ==
  Newest(s, IF Available(s) > Slots - Margin THEN Slots - Margin ELSE Available(s))
Flushed(s) == <<>>

Says(what) == [said |-> what, data |-> Garbage]
Receives(i) == line' = Append(line, i)

(* A central that is new; what it can be sent has been asked by it.        *)
FreshHost ==
  /\ tail' = Nothing /\ odd' = FALSE
  /\ asked' = <<>> /\ mayPush' = FALSE /\ heard' = "nothing"

-----------------------------------------------------------------------------
(* drv_rn4871.c: the bring-up.                                             *)
Enter_keepsTime(st) == s_state' = st /\ UNCHANGED due
Enter(st) == s_state' = st /\ due' = FALSE

(* BLE_RESET low, and after that high or not.                              *)
ResetPin(to) ==
  /\ mod' = to /\ central' = FALSE /\ stream' = FALSE /\ cmd' = Nothing
  /\ IF central THEN FreshHost ELSE UNCHANGED hostVars
SendCmd(c) == cmd' = c /\ UNCHANGED <<mod, central, stream, hostVars>>
NoCommand == UNCHANGED <<mod, cmd, central, stream, hostVars>>

(* rx_contains: what precedes the answer is consumed, of what follows it   *)
(* the rest of the chunk.                                                  *)
RxContains(what) == \E k \in DOMAIN Readable(line) : Readable(line)[k].said = what
ScanPast_keeps(what) == UNCHANGED line
ScanPast(what) ==
  LET r == Readable(line)
      at == CHOOSE k \in DOMAIN r : r[k].said = what /\ \A j \in 1 .. k - 1 : r[j].said # what
  IN \E k \in at .. Len(r) : line' = SubSeq(r, k + 1, Len(r))
ScanAll == line' = IF Available(line) = 0 THEN line ELSE <<>>

FailOrRetry ==
  /\ s_attempts' = s_attempts + 1
  /\ Enter(IF s_attempts + 1 >= MaxAttempts THEN "FAILED" ELSE "RESET_LOW")

Stays == UNCHANGED <<s_state, due, s_attempts>>

ResetLow ==
  /\ s_state = "RESET_LOW"
  /\ IF due THEN ResetPin("boot") /\ line' = Flushed(line) /\ Enter("RESET_HIGH") /\ UNCHANGED s_attempts
            ELSE ResetPin("held") /\ Stays /\ UNCHANGED line
  /\ UNCHANGED s_connected
ResetHigh ==
  /\ s_state = "RESET_HIGH"
  /\ IF due THEN line' = Flushed(line) /\ SendCmd("$$$") /\ Enter("ENTER_CMD") /\ UNCHANGED s_attempts
            ELSE NoCommand /\ Stays /\ UNCHANGED line
  /\ UNCHANGED s_connected

(* A step of the dialogue: the answer, the next command and state.         *)
Step(st, answer, next, st2) ==
  /\ s_state = st
  /\ IF RxContains(answer)
     THEN ScanPast(answer) /\ SendCmd(next) /\ Enter(st2) /\ UNCHANGED s_attempts
     ELSE ScanAll /\ NoCommand /\ (IF due THEN FailOrRetry ELSE Stays)
  /\ UNCHANGED s_connected

Dialogue ==
  \/ Step("ENTER_CMD", "CMD>", "S-", "SET_NAME")
  \/ Step("SET_NAME", "AOK", "SS", "SET_SERVICES")
  \/ Step("SET_SERVICES", "AOK", "R,1", "REBOOT")

Reboot ==
  /\ s_state = "REBOOT" /\ NoCommand
  /\ IF RxContains("REBOOT") \/ due
     THEN /\ line' = Flushed(line) /\ Enter("READY")
          /\ s_attempts' = 0 /\ s_connected' = FALSE
     ELSE ScanAll /\ Stays /\ UNCHANGED s_connected
Failed ==
  /\ s_state = "FAILED" /\ NoCommand
  /\ IF due THEN Enter("RESET_LOW") /\ s_attempts' = 0 ELSE Stays
  /\ UNCHANGED <<line, s_connected>>

BringUp ==
  /\ pc = "idle" /\ pc' = "edges"
  /\ ResetLow \/ ResetHigh \/ Dialogue \/ Reboot \/ Failed
  /\ UNCHANGED <<cfg, cut, s_in_tok, rxVars, apiVars, txVars>>

IsConnected == s_state = "READY" /\ s_connected

-----------------------------------------------------------------------------
(* drv_rn4871.c: data mode.  A chunk is read, its tokens take effect, then *)
(* its payload goes to the callback.                                       *)
EndsInPercent(h) == h.half = 2 /\ h.of.kind = "percent"
IsToken(i) == i.said \in Tokens
Text(i) == IF i.said = "data" THEN i.data ELSE Garbage

(* dispatch_token: CONNECT does as well as STREAM_OPEN.                    *)
Up(said) == said \in {"CONNECT", "OPEN"}
Opens_notReboot(on, said) == IF said = "REBOOT" THEN on ELSE Up(said)
Opens(on, said) == Up(said)

(* The last byte of a "percent" request is held back; with it the payload  *)
(* it completes, or that it puts out of step, when more payload comes.  A  *)
(* token that comes closes an empty one instead: its text is payload, and  *)
(* the '%' that ends it is held back in turn.                              *)
Takes(a, i) ==
  LET body == [a EXCEPT !.out = IF EndsInPercent(i.data) THEN @ ELSE Append(@, Text(i)),
                        !.held = IF EndsInPercent(i.data) THEN i.data ELSE Nothing]
  IN IF IsToken(i)
     THEN IF a.held = Nothing THEN [a EXCEPT !.on = Opens(a.on, i.said)]
          ELSE [a EXCEPT !.out = Append(@, Garbage), !.held = Garbage]
     ELSE IF a.held = Nothing THEN body
          ELSE [body EXCEPT !.out = IF EndsInPercent(i.data) THEN Append(@, a.held)
                                    ELSE Append(Append(a.out, a.held), Text(i))]

(* The first n items of s, one after the other.                            *)
Parsed(a, s, n) ==
  LET after[k \in 0 .. n] == IF k = 0 THEN a ELSE Takes(after[k - 1], s[k])
  IN after[n]

Reading == s_state = "READY" /\ pc \in {"idle", "read"}

ReadChunk ==
  /\ Reading /\ Available(line) > 0
  /\ LET r == Readable(line)
     IN \E n \in 1 .. (IF Len(r) < Chunk THEN Len(r) ELSE Chunk) :
          LET got == Parsed([on |-> s_connected, held |-> s_in_tok, out |-> <<>>], r, n)
          IN /\ line' = SubSeq(r, n + 1, Len(r))
             /\ s_connected' = got.on /\ s_in_tok' = got.held /\ out' = got.out
             /\ pc' = IF got.out = <<>> THEN "read" ELSE "feed"
  /\ odd' = (odd \/ Len(Readable(line)) < Len(line))
  /\ UNCHANGED <<modVars, s_state, s_attempts, due, part, old, apiVars, txVars,
                 tail, asked, mayPush, heard>>

-----------------------------------------------------------------------------
(* svc_txframe and ble_tx_pump.                                            *)
Fits(q, urgent) == Len(q) < QueueSize - (IF urgent THEN 0 ELSE Reserve)
Pump(q) ==
  IF IsConnected /\ air = Nothing /\ q # <<>>
  THEN air' = Head(q) /\ s_tx' = Tail(q)
  ELSE s_tx' = q /\ UNCHANGED air

(* send_framed and send_via_ble.                                           *)
Send(f, urgent) ==
  IF connected /\ Fits(s_tx, urgent) THEN Pump(Append(s_tx, f)) ELSE UNCHANGED txVars

(* svc_api_receive with a packet whose CRC is good or not.                 *)
Dispatch(p, ok) ==
  /\ subscribed' = CASE ok /\ p.kind = "subscribe" -> TRUE
                     [] ok /\ p.kind = "unsubscribe" -> FALSE
                     [] OTHER -> subscribed
  /\ Send([what |-> "answer", to |-> p, ok |-> ok], TRUE)

Collects(h) == part' = h /\ old' = (IF part = Nothing THEN FALSE ELSE old)
Collected == part' = Nothing /\ old' = FALSE
NoPacket == UNCHANGED <<subscribed, txVars>>

(* svc_api_reassembler_feed_byte: the length a packet declares is that of  *)
(* its own half 1; in bytes out of step it is anything.                    *)
FeedFirst(h) ==
  \/ Collects(h) /\ NoPacket
  \/ h.half # 1 /\ Collected /\ (NoPacket \/ Dispatch(Noise, FALSE))
FeedNext(h) ==
  IF part.half = 1
  THEN Collected /\ Dispatch(part.of, h = [of |-> part.of, half |-> 2])
  ELSE \/ Collects(part) /\ NoPacket
       \/ Collected /\ Dispatch(Noise, FALSE)

Feed ==
  /\ pc = "feed" /\ out # <<>> /\ out' = Tail(out)
  /\ IF part = Nothing THEN FeedFirst(Head(out)) ELSE FeedNext(Head(out))
  /\ pc' = IF out' = <<>> THEN "read" ELSE "feed"
  /\ odd' = (odd \/ (part # Nothing /\ Head(out) # [of |-> part.of, half |-> 2]))
  /\ UNCHANGED <<modVars, line, drvVars, s_was_connected, connected,
                 tail, asked, mayPush, heard>>

(* The rest of svc_ble_task: the stalled packet, the edges, the pump.      *)
Abandoned_never == FALSE
EdgeQueue_keeps(q) == q
EdgeQueue(q) == <<>>
Abandoned == old
TaskEnds ==
  /\ pc = "edges" \/ (Reading /\ Available(line) = 0)
  /\ pc' = "idle"
  /\ LET now == IsConnected
         edge == now # s_was_connected
     IN /\ s_was_connected' = now
        /\ IF edge THEN connected' = now /\ subscribed' = FALSE
                   ELSE UNCHANGED <<connected, subscribed>>
        /\ IF Abandoned \/ (edge /\ now)
           THEN Collected /\ odd' = (odd \/ part # Nothing)
           ELSE UNCHANGED <<part, old, odd>>
        /\ Pump(IF edge THEN EdgeQueue(s_tx) ELSE s_tx)
  /\ UNCHANGED <<modVars, line, drvVars, out, tail, asked, mayPush, heard>>

(* svc_api_update, svc_api_subscriptions_update: something to push.        *)
ApiUpdate ==
  /\ pc = "idle" /\ connected /\ subscribed /\ Fits(s_tx, FALSE)
  /\ Send(PushFrame, FALSE)
  /\ UNCHANGED <<modVars, line, drvVars, rxVars, apiVars, pc, hostVars>>

Task == BringUp \/ ReadChunk \/ Feed \/ TaskEnds

-----------------------------------------------------------------------------
(* Time.                                                                   *)
Timed == {"RESET_LOW", "RESET_HIGH", "ENTER_CMD", "SET_NAME", "SET_SERVICES", "REBOOT", "FAILED"}
TimePasses ==
  /\ s_state \in Timed /\ ~due /\ due' = TRUE
  /\ UNCHANGED <<modVars, line, s_state, s_attempts, s_connected, s_in_tok, rxVars,
                 apiVars, txVars, pc, hostVars>>
PartialAges ==
  /\ part # Nothing /\ ~old /\ old' = TRUE
  /\ UNCHANGED <<modVars, line, drvVars, out, part, apiVars, txVars, pc, hostVars>>

-----------------------------------------------------------------------------
(* The module, the central and the power test.                             *)
Room == Len(line) < MaxLag
ModBoots ==
  /\ mod = "boot" /\ mod' = "data" /\ Room /\ Receives(Says("REBOOT"))
  /\ UNCHANGED <<cfg, cmd, central, stream, cut, drvVars, rxVars, apiVars, txVars, pc, hostVars>>

ModAnswers ==
  /\ cmd # Nothing /\ cmd' = Nothing /\ mod # "boot" /\ Room
  /\ CASE cmd = "$$$" /\ mod = "data" ->
            mod' = "cmd" /\ Receives(Says("CMD>")) /\ UNCHANGED cfg
       [] cmd = "S-" /\ mod = "cmd" ->
            cfg' = cfg \cup {"name"} /\ Receives(Says("AOK")) /\ UNCHANGED mod
       [] cmd = "SS" /\ mod = "cmd" ->
            cfg' = cfg \cup {"services"} /\ Receives(Says("AOK")) /\ UNCHANGED mod
       [] cmd = "R,1" /\ mod = "cmd" -> mod' = "boot" /\ UNCHANGED <<cfg, line>>
       [] OTHER -> UNCHANGED <<mod, cfg, line>>
  /\ UNCHANGED <<central, stream, cut, drvVars, rxVars, apiVars, txVars, pc, hostVars>>

CommandIsLost ==
  /\ cmd # Nothing /\ cmd' = Nothing
  /\ UNCHANGED <<mod, cfg, central, stream, cut, line, drvVars, rxVars, apiVars, txVars,
                 pc, hostVars>>

Noticed == IsConnected = central /\ s_was_connected = central
TaskHasRun ==
  /\ pc = "idle" /\ s_was_connected = IsConnected
  /\ \A k \in DOMAIN line : ~IsToken(line[k])
Settled ==
  \/ Between = "noticed" /\ s_state = "READY" /\ Noticed
  \/ Between = "task" /\ s_state = "READY" /\ TaskHasRun
  \/ Between = "nothing"

CentralChanges ==
  /\ mod = "data" /\ air = Nothing /\ Room
  /\ Settled
  /\ central' = ~central /\ Receives(Says(IF central THEN "CLOSE" ELSE "CONNECT"))
  /\ stream' = FALSE /\ FreshHost
  /\ UNCHANGED <<mod, cfg, cmd, cut, drvVars, rxVars, apiVars, txVars, pc>>

(* The driver may have read CONNECT by then, or not.  The stream stays     *)
(* open as long as the link.                                               *)
StreamOpens ==
  /\ central /\ ~stream /\ mod = "data" /\ Room
  /\ stream' = TRUE /\ Receives(Says("OPEN"))
  /\ UNCHANGED <<mod, cfg, cmd, central, cut, drvVars, rxVars, apiVars, txVars, pc, hostVars>>

ModResets ==
  /\ mod \in {"data", "cmd"} /\ (central => Settled)
  /\ mod' = "boot" /\ central' = FALSE /\ stream' = FALSE /\ cmd' = Nothing /\ FreshHost
  /\ UNCHANGED <<cfg, cut, line, drvVars, rxVars, apiVars, txVars, pc>>

(* set_ble of svc_powertest.c, asked for on another transport.             *)
CutModule ==
  /\ PowerTests /\ ~cut /\ cut' = TRUE /\ pc = "idle"
  /\ ResetPin("held")
  /\ UNCHANGED <<cfg, line, drvVars, rxVars, apiVars, txVars, pc>>
RestoreModule ==
  /\ cut /\ cut' = FALSE /\ pc = "idle" /\ ResetPin("held")
  /\ s_attempts' = 0 /\ s_connected' = FALSE /\ s_in_tok' = Nothing /\ Enter("RESET_LOW")
  /\ UNCHANGED <<cfg, line, rxVars, apiVars, txVars, pc>>

InDevice(i) ==
  \/ \E k \in DOMAIN line : line[k].data.of.id = i
  \/ \E k \in DOMAIN out : out[k].of.id = i
  \/ part # Nothing /\ (part.of.id = i \/ part.half # 1)
  \/ tail # Nothing
  \/ \E k \in DOMAIN s_tx : s_tx[k].to.id = i
  \/ air # Nothing /\ air.to.id = i
Fresh == {i \in Ids : ~InDevice(i) /\ (s_in_tok = Nothing \/ s_in_tok.of.id # i)
                      /\ \A k \in DOMAIN asked : asked[k].id # i}

HostAsks(kind) ==
  /\ stream /\ mod = "data" /\ tail = Nothing /\ Len(asked) < MaxAsked /\ Fresh # {} /\ Room
  /\ LET r == [id |-> CHOOSE i \in Fresh : TRUE, kind |-> kind]
     IN /\ asked' = Append(asked, r)
        /\ Receives([said |-> "data", data |-> [of |-> r, half |-> 1]])
        /\ tail' = [of |-> r, half |-> 2]
  /\ mayPush' = (mayPush \/ kind = "subscribe")
  /\ UNCHANGED <<modVars, drvVars, rxVars, apiVars, txVars, pc, odd, heard>>

HostSendsRest ==
  /\ tail # Nothing /\ tail' = Nothing /\ Room
  /\ Receives([said |-> "data", data |-> tail])
  /\ UNCHANGED <<modVars, drvVars, rxVars, apiVars, txVars, pc, odd, asked, mayPush, heard>>

HostHears(f) ==
  LET k == IF \E j \in DOMAIN asked : asked[j] = f.to
           THEN CHOOSE j \in DOMAIN asked : asked[j] = f.to ELSE 0
  IN CASE f.what = "push" -> heard' = "push" /\ UNCHANGED <<asked, mayPush>>
       [] f.what # "push" /\ f.to = Noise ->
            heard' = "noise" /\ UNCHANGED <<asked, mayPush>>
       [] f.what # "push" /\ f.to # Noise /\ k = 0 ->
            heard' = "stray" /\ UNCHANGED <<asked, mayPush>>
       [] OTHER ->
            /\ heard' = IF f.ok THEN "answer" ELSE "refusal"
            /\ asked' = SubSeq(asked, k + 1, Len(asked))
            /\ mayPush' = IF f.to.kind # "unsubscribe" \/ ~f.ok THEN mayPush
                          ELSE \E j \in DOMAIN asked' : asked'[j].kind = "subscribe"

(* The frame has left the UART; the module passes it on.                   *)
HostReads ==
  /\ air # Nothing /\ air' = Nothing
  /\ IF stream /\ mod = "data" THEN HostHears(air) ELSE UNCHANGED <<asked, mayPush, heard>>
  /\ UNCHANGED <<modVars, line, drvVars, rxVars, apiVars, s_tx, pc, tail, odd>>

RequestIsLost ==
  /\ asked # <<>> /\ ~InDevice(Head(asked).id) /\ asked' = Tail(asked)
  /\ UNCHANGED <<modVars, line, drvVars, rxVars, apiVars, txVars, pc, tail, odd, mayPush, heard>>

Next ==
  \/ Task \/ ApiUpdate \/ TimePasses \/ PartialAges
  \/ ModBoots \/ ModAnswers \/ CommandIsLost \/ ModResets
  \/ CentralChanges \/ StreamOpens \/ CutModule \/ RestoreModule
  \/ HostSendsRest \/ HostReads \/ RequestIsLost
  \/ \E kind \in Kinds : HostAsks(kind)

Spec == Init /\ [][Next]_vars

(* The tasks run (run_due_tasks goes round them all) and time passes; the  *)
(* module boots and takes commands; the central finishes its packets and   *)
(* asks again when nothing in the device will answer.                      *)
Fairness ==
  /\ WF_vars(Task) /\ WF_vars(TimePasses) /\ WF_vars(PartialAges)
  /\ WF_vars(ModBoots) /\ WF_vars(ModAnswers) /\ WF_vars(HostSendsRest)
  /\ WF_vars(HostReads) /\ WF_vars(RequestIsLost) /\ SF_vars(HostAsks("short"))

FairSpec == Spec /\ Fairness
-----------------------------------------------------------------------------
(* The central is the host of Session, from the LE link on, though it asks *)
(* nothing before it has the stream: across torn packets, module resets,   *)
(* power tests and reconnects (svc_ble_task's edges), it hears nothing     *)
(* that was meant for another request or another connection.               *)
Host == INSTANCE Session WITH open <- central, odd <- central /\ odd
HostSession == Host!Spec

(* No answer is taken for that of another step or another attempt: a       *)
(* module that is asked to reboot has taken both settings                  *)
(* (drv_rn4871_task, across its retries and late answers).                 *)
ReadyIsConfigured ==
  /\ s_state \in {"SET_SERVICES", "REBOOT"} => "name" \in cfg
  /\ s_state \in {"REBOOT", "READY"} => cfg = {"name", "services"}

(* When the driver has read every status token and lost no bytes, it knows *)
(* whether a central has the LE link, whatever payload came between them   *)
(* and whether the stream is open yet or not (dispatch_token: s_connected  *)
(* is set by CONNECT and by STREAM_OPEN; "%DISCONNECT% / %REBOOT% drop us  *)
(* back to not-connected").                                                *)
LinkIsTracked ==
  s_state = "READY" /\ mod = "data" /\ ~odd /\ (\A k \in DOMAIN line : ~IsToken(line[k]))
    => s_connected = central

(* However many attempts have failed, a module that from some time on      *)
(* takes its commands and answers in time is brought up (fail_or_retry,    *)
(* ST_FAILED).                                                             *)
InTime ==
  \/ s_state \in {"RESET_LOW", "FAILED"}
  \/ s_state = "RESET_HIGH" /\ mod # "boot"
Trouble == CommandIsLost \/ ModResets \/ CutModule \/ (TimePasses /\ ~InTime)
BringUpSucceeds == <>[][~Trouble]_vars /\ <>[]~cut => <>[](s_state = "READY")

(* A central that goes on asking for short answers, one at a time and each *)
(* sent in one go, and gives one up only between two calls of svc_ble_task, *)
(* gets them, in whatever state torn packets have left the reassembler     *)
(* (svc_api_reassembler_check_timeout).                                    *)
Orderly ==
  /\ stream /\ connected /\ Len(line) <= Slots - Margin
  /\ Len(asked) <= 1 /\ \A k \in DOMAIN asked : asked[k].kind = "short"
AnswerHeard == HostReads /\ heard' = "answer"
Hasty ==
  \/ PartialAges /\ (tail # Nothing \/ line # <<>>)
  \/ RequestIsLost /\ pc # "idle"
HostIsServed == <>[]Orderly /\ <>[][~Hasty]_vars => []<><<AnswerHeard>>_vars

(* A driver that says it is connected, and has read every status token and *)
(* lost no bytes, has a stream to send to (drv_rn4871.h: "A central has an *)
(* open Transparent UART stream right now"; dispatch_token).               *)
ConnectedMeansStream ==
  IsConnected /\ mod = "data" /\ ~odd /\ (\A k \in DOMAIN line : ~IsToken(line[k])) => stream

(* The module the power test has cut stays cut (svc_powertest.h).          *)
CutStaysCut == cut => mod = "held"

(* The driver is not READY with a module that still takes commands         *)
(* (drv_rn4871.c: a command that is dropped falls "into the existing retry *)
(* path").                                                                 *)
ReadyIsDataMode == s_state = "READY" => mod # "cmd"
=============================================================================
