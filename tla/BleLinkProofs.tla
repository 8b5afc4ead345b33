---------------------------- MODULE BleLinkProofs ----------------------------
(***************************************************************************)
(* Proofs about BleLink for every ring, chunk, queue and number of         *)
(* attempts: the driver calls the RN4871 ready only when the module has    *)
(* taken both of its settings, from then on knows whether a central has    *)
(* the LE link, and keeps the central's session (Session).                 *)
(***************************************************************************)
EXTENDS BleLink, SequenceTheorems, WellFoundedInduction, TLAPS

-----------------------------------------------------------------------------
(* Parts of a sequence.                                                    *)

(* A set of numbers that is not empty has a least one.                     *)
LEMMA LeastOf ==
  ASSUME NEW S, S \subseteq Nat, S # {} PROVE \E k \in S : \A j \in S : k <= j
<1> DEFINE R == OpToRel(<, Nat)
<1>1. IsWellFoundedOn(R, Nat)
  BY NatLessThanWellFounded
<1>2. \A j, k \in Nat : j < k => <<j, k>> \in R
  BY DEF OpToRel
<1> HIDE DEF R
<1>3. PICK k \in S : \A j \in S : <<j, k>> \notin R
  BY <1>1, WFMin
<1>4. \A j \in S : j \in Nat /\ k \in Nat /\ ~(j < k)
  BY <1>2, <1>3
<1> QED BY <1>4

(* t is a part of s: its items are those of s from m on.                   *)
From(t, s, m) == \A k \in DOMAIN t : k + m \in DOMAIN s /\ t[k] = s[k + m]
Part(t, s) == t \in Seq(Items) /\ \E m \in Nat : From(t, s, m)

LEMMA SubSeqIsPart ==
  ASSUME NEW s \in Seq(Items), NEW m \in 1 .. Len(s) + 1, NEW n \in 0 .. Len(s)
  PROVE  /\ SubSeq(s, m, n) \in Seq(Items) /\ From(SubSeq(s, m, n), s, m - 1)
         /\ Part(SubSeq(s, m, n), s)
<1>1. Len(s) \in Nat /\ \A i \in m .. n : s[i] \in Items
  OBVIOUS
<1> DEFINE t == SubSeq(s, m, n)
<1>2. /\ t \in Seq(Items) /\ Len(t) = IF m <= n THEN n - m + 1 ELSE 0
      /\ \A i \in 1 .. n - m + 1 : t[i] = s[m + i - 1]
  BY <1>1, SubSeqProperties
<1> HIDE DEF t
<1>3. ASSUME NEW k \in DOMAIN t
      PROVE  k + (m - 1) \in DOMAIN s /\ t[k] = s[k + (m - 1)]
  <2>1. k \in 1 .. Len(t) /\ m \in Nat /\ n \in Nat /\ m >= 1 /\ n <= Len(s)
    BY <1>1, <1>2
  <2>2. k \in 1 .. n - m + 1
    BY ONLY <1>2, <2>1
  <2>3. m + k - 1 = k + (m - 1)
    BY ONLY <2>1, <2>2
  <2>4. k + (m - 1) \in 1 .. Len(s)
    BY ONLY <1>1, <2>1, <2>2
  <2>5. t[k] = s[m + k - 1]
    BY <1>2, <2>2
  <2>6. DOMAIN s = 1 .. Len(s)
    OBVIOUS
  <2> QED BY ONLY <2>3, <2>4, <2>5, <2>6
<1>4. m - 1 \in Nat
  OBVIOUS
<1> QED BY <1>2, <1>3, <1>4 DEF t, From, Part

LEMMA PartOfPart ==
  ASSUME NEW r, NEW s, NEW t, Part(t, s), Part(s, r) PROVE Part(t, r)
<1>1. PICK m \in Nat : From(t, s, m)
  BY DEF Part
<1>2. PICK n \in Nat : From(s, r, n)
  BY DEF Part
<1>3. t \in Seq(Items) /\ DOMAIN t = 1 .. Len(t) /\ Len(t) \in Nat
  BY DEF Part
<1>4. From(t, r, m + n)
  <2> SUFFICES ASSUME NEW k \in DOMAIN t PROVE k + (m + n) \in DOMAIN r /\ t[k] = r[k + (m + n)]
    BY DEF From
  <2>1. k + m \in DOMAIN s /\ t[k] = s[k + m]
    BY <1>1 DEF From
  <2>2. (k + m) + n \in DOMAIN r /\ s[k + m] = r[(k + m) + n]
    BY <1>2, <2>1 DEF From
  <2>3. (k + m) + n = k + (m + n)
    BY <1>3
  <2> QED BY <2>1, <2>2, <2>3
<1> QED BY <1>3, <1>4 DEF Part

LEMMA WholeIsPart == ASSUME NEW s \in Seq(Items) PROVE Part(s, s)
<1>1. From(s, s, 0)
  BY DEF From
<1> QED BY <1>1 DEF Part
LEMMA NothingIsPart == ASSUME NEW s PROVE Part(<<>>, s)
<1>1. From(<<>>, s, 0)
  BY DEF From
<1> QED BY <1>1 DEF Part

-----------------------------------------------------------------------------
(* The answers AOK among the received items.                               *)
Oks(s) == {k \in DOMAIN s : s[k].said = "AOK"}
OneOk(s) == \A i, j \in Oks(s) : i = j

(* What a part has, the whole has.                                         *)
LEMMA PartOks ==
  ASSUME NEW s \in Seq(Items), NEW t, Part(t, s)
  PROVE  /\ Oks(s) = {} => Oks(t) = {}
         /\ OneOk(s) => OneOk(t)
<1>1. PICK m \in Nat : From(t, s, m)
  BY DEF Part
<1>2. \A k \in DOMAIN t : k \in Nat
  BY DEF Part
<1>3. \A k \in Oks(t) : k \in Nat /\ k + m \in Oks(s)
  BY <1>1, <1>2 DEF From, Oks
<1>4. ASSUME OneOk(s) PROVE OneOk(t)
  <2> SUFFICES ASSUME NEW i \in Oks(t), NEW j \in Oks(t) PROVE i = j
    BY DEF OneOk
  <2>1. i + m = j + m /\ i \in Nat /\ j \in Nat
    BY <1>3, <1>4 DEF OneOk
  <2> QED BY <2>1
<1> QED BY <1>3, <1>4

(* An item that arrives.                                                   *)
LEMMA ArrivalOks ==
  ASSUME NEW s \in Seq(Items), NEW i \in Items
  PROVE  /\ Append(s, i) \in Seq(Items)
         /\ i.said # "AOK" => Oks(Append(s, i)) = Oks(s)
         /\ Oks(s) = {} => OneOk(Append(s, i))
<1> DEFINE t == Append(s, i)
           L == Len(s)
<1>1. /\ t \in Seq(Items) /\ Len(t) = L + 1 /\ t[L + 1] = i /\ L \in Nat
      /\ \A k \in 1 .. L : t[k] = s[k]
  BY AppendProperties
<1> HIDE DEF t
<1>2. DOMAIN t = 1 .. L + 1 /\ DOMAIN s = 1 .. L
  BY <1>1
<1>3. \A k \in 1 .. L + 1 : k \in 1 .. L \/ k = L + 1
  BY <1>1
<1>4. \A k \in 1 .. L : k \in 1 .. L + 1
  BY <1>1
<1>5. i.said # "AOK" => Oks(t) = Oks(s)
  BY <1>1, <1>2, <1>3, <1>4 DEF Oks
<1>6. Oks(s) = {} => \A k \in Oks(t) : k = L + 1
  BY <1>1, <1>2, <1>3 DEF Oks
<1>7. Oks(s) = {} => OneOk(t)
  BY <1>6 DEF OneOk
<1> QED BY <1>1, <1>5, <1>7 DEF t

LEMMA RemainderIs ==
  ASSUME NEW N \in Nat \ {0}, NEW a \in Nat PROVE a % N \in 0 .. N - 1 /\ a % N <= a
<1>1. a % N \in 0 .. N - 1
  OBVIOUS
<1>2. CASE a < N
  <2>1. a \in 0 .. N - 1
    BY <1>2
  <2>2. a % N = a
    BY <2>1
  <2> QED BY <1>1, <2>2
<1>3. CASE ~(a < N)
  BY <1>1, <1>3
<1> QED BY <1>2, <1>3

(* hal_uart_read gives a part of what was received.                        *)
LEMMA ReadableIsPart ==
  ASSUME NEW s \in Seq(Items) PROVE Part(Readable(s), s) /\ Readable(s) \in Seq(Items)
<1> DEFINE a == Available(s)
           n == IF a > Slots - Margin THEN Slots - Margin ELSE a
<1>1. Slots \in Nat \ {0} /\ Margin \in 1 .. Slots - 1 /\ Len(s) \in Nat
  BY BleAssumption
<1>2. Len(s) % Slots \in 0 .. Slots - 1 /\ Len(s) % Slots <= Len(s)
  BY <1>1, RemainderIs
<1>3. n \in 0 .. Len(s)
  BY <1>1, <1>2 DEF Available
<1>4. Readable(s) = SubSeq(s, Len(s) - n + 1, Len(s))
  BY DEF Readable, Newest
<1> HIDE DEF n
<1>5. Len(s) - n + 1 \in 1 .. Len(s) + 1 /\ Len(s) \in 0 .. Len(s)
  BY <1>1, <1>3
<1> QED BY <1>4, <1>5, SubSeqIsPart

(* rx_contains and what it consumes: all up to the first answer, and what  *)
(* it leaves has no other AOK if one was received.                         *)
LEMMA ScanPastLeaves ==
  ASSUME NEW s \in Seq(Items), line = s, NEW what, RxContains(what), ScanPast(what)
  PROVE  Part(line', s) /\ (what = "AOK" /\ OneOk(s) => Oks(line') = {})
<1> DEFINE r == Readable(line)
           First(k) == r[k].said = what /\ \A j \in 1 .. k - 1 : r[j].said # what
           at == CHOOSE k \in DOMAIN r : First(k)
<1>1. Part(r, s) /\ r \in Seq(Items) /\ Len(r) \in Nat /\ DOMAIN r = 1 .. Len(r)
  BY ReadableIsPart
<1> HIDE DEF r
<1>2. \E k \in DOMAIN r : First(k)
  <2>1. PICK k0 \in DOMAIN r : r[k0].said = what
    BY DEF RxContains, r
  <2> DEFINE S == {k \in DOMAIN r : r[k].said = what}
  <2>2. S \subseteq Nat /\ S # {}
    BY <1>1, <2>1
  <2>3. PICK k \in S : \A j \in S : k <= j
    <3>1. \E k \in S : \A j \in S : k <= j
      BY <2>2, LeastOf
    <3> QED BY <3>1
  <2>4. First(k)
    <3>1. ASSUME NEW j \in 1 .. k - 1 PROVE r[j].said # what
      <4>1. k \in 1 .. Len(r) /\ j \in 1 .. Len(r) /\ ~(k <= j)
        BY <1>1
      <4> QED BY <1>1, <2>3, <4>1
    <3> QED BY <3>1
  <2> QED BY <2>4
<1>3. at \in DOMAIN r /\ First(at)
  BY <1>2
<1>4. PICK k \in at .. Len(r) : line' = SubSeq(r, k + 1, Len(r))
  BY DEF ScanPast, r
<1> HIDE DEF at
<1>5. at \in 1 .. Len(r) /\ k + 1 \in 1 .. Len(r) + 1 /\ Len(r) \in 0 .. Len(r)
  BY <1>1, <1>3, <1>4
<1>6. From(line', r, k) /\ Part(line', r) /\ line' \in Seq(Items)
  <2>1. (k + 1) - 1 = k
    BY <1>5
  <2> QED BY <1>1, <1>4, <1>5, <2>1, SubSeqIsPart
<1>7. Part(line', s)
  BY <1>1, <1>6, PartOfPart
<1>8. ASSUME what = "AOK", OneOk(s) PROVE Oks(line') = {}
  <2>1. OneOk(r)
    BY <1>1, <1>8, PartOks
  <2>2. at \in Oks(r)
    BY <1>3, <1>8 DEF Oks
  <2> SUFFICES ASSUME NEW i \in Oks(line') PROVE FALSE
    OBVIOUS
  <2>3. i + k \in Oks(r)
    BY <1>6 DEF From, Oks
  <2>4. i \in 1 .. Len(line') /\ Len(line') \in Nat
    BY <1>6 DEF Oks
  <2>5. i + k # at
    BY <1>1, <1>4, <1>5, <2>4
  <2> QED BY <2>1, <2>2, <2>3, <2>5 DEF OneOk
<1> QED BY <1>7, <1>8

-----------------------------------------------------------------------------
(* The bring-up.                                                           *)

(* What the invariant needs of the types.                                  *)
LineTypes ==
  /\ line \in Seq(Items) /\ tail \in Halves \cup {Nothing}
  /\ cfg \subseteq {"name", "services"}

(* In each step of the dialogue only that step's command can still be      *)
(* under way, and an AOK that has been received is the answer to it: the   *)
(* resets in between have emptied the line and dropped the rest.           *)
DialogueInv ==
  /\ s_state = "ENTER_CMD" => cmd \in {"$$$", Nothing} /\ Oks(line) = {}
  /\ s_state = "SET_NAME" =>
       /\ cmd \in {"S-", Nothing} /\ (cmd = "S-" => Oks(line) = {})
       /\ OneOk(line)
       /\ Oks(line) # {} => "name" \in cfg
  /\ s_state = "SET_SERVICES" =>
       cmd \in {"SS", Nothing} /\ (Oks(line) # {} => "services" \in cfg)

BringUpInv == LineTypes /\ DialogueInv /\ ReadyIsConfigured

(* Steps that leave the driver in its state.                               *)
LEMMA LineShrinks ==
  ASSUME BringUpInv, UNCHANGED <<s_state, cfg>>, Part(line', line),
         cmd' \in {cmd, Nothing}, tail' \in Halves \cup {Nothing}
  PROVE  BringUpInv'
<1>1. line \in Seq(Items)
  BY DEF BringUpInv, LineTypes
<1>2. line' \in Seq(Items)
  BY DEF Part
<1>3. /\ Oks(line) = {} => Oks(line') = {}
      /\ OneOk(line) => OneOk(line')
  BY <1>1, PartOks
<1>4. Nothing \notin Commands
  BY BleAssumption
<1>5. (Oks(line)' = Oks(line')) /\ (OneOk(line)' <=> OneOk(line'))
  BY DEF Oks, OneOk
<1>6. LineTypes'
  BY <1>2 DEF BringUpInv, LineTypes
<1>7. DialogueInv'
  BY <1>3, <1>4, <1>5 DEF BringUpInv, DialogueInv, Commands
<1>8. ReadyIsConfigured'
  BY DEF BringUpInv, ReadyIsConfigured
<1> QED BY <1>6, <1>7, <1>8 DEF BringUpInv

LEMMA LineGrows ==
  ASSUME BringUpInv, UNCHANGED <<s_state, cfg>>, NEW i \in Items, i.said # "AOK",
         line' = Append(line, i), cmd' \in {cmd, Nothing}, tail' \in Halves \cup {Nothing}
  PROVE  BringUpInv'
<1>1. line \in Seq(Items)
  BY DEF BringUpInv, LineTypes
<1>2. line' \in Seq(Items) /\ Oks(line') = Oks(line)
  BY <1>1, ArrivalOks
<1>3. OneOk(line) => OneOk(line')
  BY <1>2 DEF OneOk
<1>4. Nothing \notin Commands
  BY BleAssumption
<1>5. (Oks(line)' = Oks(line')) /\ (OneOk(line)' <=> OneOk(line'))
  BY DEF Oks, OneOk
<1>6. LineTypes'
  BY <1>2 DEF BringUpInv, LineTypes
<1>7. DialogueInv'
  BY <1>2, <1>3, <1>4, <1>5 DEF BringUpInv, DialogueInv, Commands
<1>8. ReadyIsConfigured'
  BY DEF BringUpInv, ReadyIsConfigured
<1> QED BY <1>6, <1>7, <1>8 DEF BringUpInv

(* Steps that take the driver out of the dialogue, whatever else they do.  *)
LEMMA DialogueOver ==
  ASSUME BringUpInv, s_state' \in {"RESET_LOW", "RESET_HIGH", "FAILED"},
         line' \in Seq(Items), tail' \in Halves \cup {Nothing}, UNCHANGED cfg
  PROVE  BringUpInv'
  BY DEF BringUpInv, LineTypes, DialogueInv, ReadyIsConfigured

LEMMA TailAfterReset ==
  ASSUME BringUpInv, NEW to, ResetPin(to)
  PROVE  tail' \in Halves \cup {Nothing} /\ cmd' = Nothing
  BY DEF ResetPin, FreshHost, hostVars, BringUpInv, LineTypes

LEMMA ScanAllLeaves ==
  ASSUME BringUpInv, ScanAll PROVE Part(line', line) /\ line' \in Seq(Items)
<1>1. line \in Seq(Items)
  BY DEF BringUpInv, LineTypes
<1> QED BY <1>1, WholeIsPart, NothingIsPart DEF ScanAll, Part

(* drv_rn4871_task during the bring-up, with pc and what it leaves alone.  *)
LEMMA ResetSteps ==
  ASSUME BringUpInv, ResetLow \/ ResetHigh \/ Failed, UNCHANGED cfg PROVE BringUpInv'
<1>1. line \in Seq(Items) /\ tail \in Halves \cup {Nothing} /\ <<>> \in Seq(Items)
  BY DEF BringUpInv, LineTypes
<1>2. CASE ResetLow
  <2>1. tail' \in Halves \cup {Nothing} /\ cmd' = Nothing
    BY <1>2, TailAfterReset DEF ResetLow
  <2>2. CASE due
    BY <1>1, <1>2, <2>1, <2>2, DialogueOver DEF ResetLow, Flushed, Enter
  <2>3. CASE ~due
    BY <1>1, <1>2, <2>1, <2>3, WholeIsPart, LineShrinks DEF ResetLow, Stays
  <2> QED BY <2>2, <2>3
<1>3. CASE ResetHigh /\ due
  <2>1. s_state' = "ENTER_CMD" /\ line' = <<>> /\ cmd' = "$$$" /\ UNCHANGED <<tail, cfg>>
    BY <1>3 DEF ResetHigh, Flushed, SendCmd, Enter, hostVars
  <2>2. Oks(<<>>) = {}
    BY DEF Oks
  <2>3. Oks(line)' = {}
    BY <2>1, <2>2 DEF Oks
  <2> QED BY <1>1, <2>1, <2>3 DEF BringUpInv, LineTypes, DialogueInv, ReadyIsConfigured
<1>4. CASE ResetHigh /\ ~due
  BY <1>1, <1>4, WholeIsPart, LineShrinks DEF ResetHigh, NoCommand, Stays, hostVars
<1>5. CASE Failed /\ due
  BY <1>1, <1>5, DialogueOver DEF Failed, NoCommand, Enter, hostVars
<1>6. CASE Failed /\ ~due
  BY <1>1, <1>6, WholeIsPart, LineShrinks DEF Failed, NoCommand, Stays, hostVars
<1> QED BY <1>2, <1>3, <1>4, <1>5, <1>6

LEMMA DialogueSteps ==
  ASSUME BringUpInv, Dialogue, UNCHANGED cfg PROVE BringUpInv'
<1>1. line \in Seq(Items) /\ tail \in Halves \cup {Nothing}
  BY DEF BringUpInv, LineTypes
(* no answer yet: the next try, or the time limit                          *)
<1>2. ASSUME ScanAll, NoCommand, FailOrRetry \/ Stays PROVE BringUpInv'
  <2>1. Part(line', line) /\ line' \in Seq(Items) /\ UNCHANGED <<cmd, tail>>
    BY <1>2, ScanAllLeaves DEF NoCommand, hostVars
  <2>2. CASE FailOrRetry
    BY <1>1, <2>1, <2>2, DialogueOver DEF FailOrRetry, Enter
  <2>3. CASE Stays
    BY <1>1, <2>1, <2>3, LineShrinks DEF Stays
  <2> QED BY <1>2, <2>2, <2>3
(* the answer: the next step of the dialogue                               *)
<1>3. ASSUME NEW answer, NEW next, RxContains(answer), ScanPast(answer), SendCmd(next)
      PROVE  /\ Part(line', line) /\ line' \in Seq(Items) /\ cmd' = next /\ UNCHANGED tail
             /\ answer = "AOK" /\ OneOk(line) => Oks(line') = {}
  BY <1>1, <1>3, ScanPastLeaves DEF SendCmd, Part, hostVars
<1>4. ASSUME RxContains("AOK") PROVE Oks(line) # {}
  <2>1. PICK k \in DOMAIN Readable(line) : Readable(line)[k].said = "AOK"
    BY <1>4 DEF RxContains
  <2>2. k \in Oks(Readable(line))
    BY <2>1 DEF Oks
  <2> QED BY <1>1, <2>2, ReadableIsPart, PartOks
<1>5. (Oks(line)' = Oks(line')) /\ (OneOk(line)' <=> OneOk(line'))
  BY DEF Oks, OneOk
<1>6. CASE Step("ENTER_CMD", "CMD>", "S-", "SET_NAME")
  <2>1. CASE RxContains("CMD>")
    <3>1. ScanPast("CMD>") /\ SendCmd("S-") /\ s_state' = "SET_NAME"
      BY <1>6, <2>1 DEF Step, Enter
    <3>2. Part(line', line) /\ line' \in Seq(Items) /\ cmd' = "S-" /\ UNCHANGED tail
      BY <1>3, <2>1, <3>1
    <3>3. Oks(line) = {}
      BY <1>6 DEF Step, BringUpInv, DialogueInv
    <3>4. Oks(line') = {}
      BY <1>1, <3>2, <3>3, PartOks
    <3>5. OneOk(line')
      BY <3>4 DEF OneOk
    <3> QED BY <1>1, <1>5, <3>1, <3>2, <3>4, <3>5
            DEF BringUpInv, LineTypes, DialogueInv, ReadyIsConfigured
  <2>2. CASE ~RxContains("CMD>")
    BY <1>2, <1>6, <2>2 DEF Step
  <2> QED BY <2>1, <2>2
<1>7. CASE Step("SET_NAME", "AOK", "SS", "SET_SERVICES")
  <2>1. CASE RxContains("AOK")
    <3>1. ScanPast("AOK") /\ SendCmd("SS") /\ s_state' = "SET_SERVICES"
      BY <1>7, <2>1 DEF Step, Enter
    <3>2. OneOk(line) /\ "name" \in cfg
      BY <1>4, <1>7, <2>1 DEF Step, BringUpInv, DialogueInv
    <3>3. /\ line' \in Seq(Items) /\ cmd' = "SS" /\ UNCHANGED tail
          /\ Oks(line') = {}
      BY <1>3, <2>1, <3>1, <3>2
    <3> QED BY <1>1, <1>5, <3>1, <3>2, <3>3
            DEF BringUpInv, LineTypes, DialogueInv, ReadyIsConfigured
  <2>2. CASE ~RxContains("AOK")
    BY <1>2, <1>7, <2>2 DEF Step
  <2> QED BY <2>1, <2>2
<1>8. CASE Step("SET_SERVICES", "AOK", "R,1", "REBOOT")
  <2>1. CASE RxContains("AOK")
    <3>1. ScanPast("AOK") /\ SendCmd("R,1") /\ s_state' = "REBOOT"
      BY <1>8, <2>1 DEF Step, Enter
    <3>2. cfg = {"name", "services"}
      BY <1>4, <1>8, <2>1 DEF Step, BringUpInv, LineTypes, DialogueInv, ReadyIsConfigured
    <3>3. line' \in Seq(Items) /\ UNCHANGED tail
      BY <1>3, <2>1, <3>1
    <3> QED BY <1>1, <3>1, <3>2, <3>3
            DEF BringUpInv, LineTypes, DialogueInv, ReadyIsConfigured
  <2>2. CASE ~RxContains("AOK")
    BY <1>2, <1>8, <2>2 DEF Step
  <2> QED BY <2>1, <2>2
<1> QED BY <1>6, <1>7, <1>8 DEF Dialogue

LEMMA RebootStep ==
  ASSUME BringUpInv, Reboot, UNCHANGED cfg PROVE BringUpInv'
<1>1. line \in Seq(Items) /\ tail \in Halves \cup {Nothing} /\ <<>> \in Seq(Items)
  BY DEF BringUpInv, LineTypes
<1>2. CASE RxContains("REBOOT") \/ due
  <2>1. s_state' = "READY" /\ line' = <<>> /\ UNCHANGED tail /\ cfg = {"name", "services"}
    BY <1>2 DEF Reboot, Flushed, Enter, NoCommand, hostVars, BringUpInv, ReadyIsConfigured
  <2> QED BY <1>1, <2>1 DEF BringUpInv, LineTypes, DialogueInv, ReadyIsConfigured
<1>3. CASE ~(RxContains("REBOOT") \/ due)
  <2>1. ScanAll /\ UNCHANGED <<cmd, tail, s_state>>
    BY <1>3 DEF Reboot, Stays, NoCommand, hostVars
  <2> QED BY <1>1, <2>1, ScanAllLeaves, LineShrinks
<1> QED BY <1>2, <1>3

-----------------------------------------------------------------------------
(* The rest of the task, the module, the central and the power test.       *)
LEMMA SaysIsItem ==
  ASSUME NEW what \in Said PROVE Says(what) \in Items /\ Says(what).said = what
  BY DEF Says, Items

LEMMA DataIsItem ==
  ASSUME NEW h \in Halves
  PROVE  /\ [said |-> "data", data |-> h] \in Items
         /\ [said |-> "data", data |-> h].said # "AOK"
  BY DEF Items

LEMMA ReadChunkStep == ASSUME BringUpInv, ReadChunk PROVE BringUpInv'
<1>1. line \in Seq(Items) /\ tail \in Halves \cup {Nothing}
  BY DEF BringUpInv, LineTypes
<1>2. /\ UNCHANGED <<s_state, cfg, cmd, tail>>
      /\ \E n \in 1 .. (IF Len(Readable(line)) < Chunk THEN Len(Readable(line)) ELSE Chunk) :
           line' = SubSeq(Readable(line), n + 1, Len(Readable(line)))
  BY DEF ReadChunk, modVars
<1> DEFINE r == Readable(line)
<1>3. Part(r, line) /\ r \in Seq(Items) /\ Len(r) \in Nat
  BY <1>1, ReadableIsPart
<1> HIDE DEF r
<1>4. PICK n \in 1 .. (IF Len(r) < Chunk THEN Len(r) ELSE Chunk) :
        line' = SubSeq(r, n + 1, Len(r))
  BY <1>2 DEF r
<1>5. n + 1 \in 1 .. Len(r) + 1 /\ Len(r) \in 0 .. Len(r)
  BY <1>3, <1>4, BleAssumption
<1>6. Part(line', r)
  BY <1>3, <1>4, <1>5, SubSeqIsPart
<1>7. Part(line', line)
  BY <1>3, <1>6, PartOfPart
<1> QED BY <1>1, <1>2, <1>7, LineShrinks

LEMMA ModAnswersStep == ASSUME BringUpInv, ModAnswers PROVE BringUpInv'
<1>1. line \in Seq(Items) /\ tail \in Halves \cup {Nothing}
  BY DEF BringUpInv, LineTypes
<1>2. cmd' = Nothing /\ UNCHANGED <<s_state, tail>> /\ Nothing \notin Commands
  BY BleAssumption DEF ModAnswers, drvVars, hostVars
<1>3. CASE cmd = "S-" /\ mod = "cmd"
  <2>1. cfg' = cfg \cup {"name"} /\ line' = Append(line, Says("AOK"))
    BY <1>3 DEF ModAnswers, Receives
  <2>2. Says("AOK") \in Items
    BY SaysIsItem DEF Said
  <2>3. line' \in Seq(Items) /\ (Oks(line) = {} => OneOk(line'))
    BY <1>1, <2>1, <2>2, ArrivalOks
  <2>4. OneOk(line)' <=> OneOk(line')
    BY DEF OneOk, Oks
  <2>5. s_state \notin {"ENTER_CMD", "SET_SERVICES"}
    BY <1>2, <1>3 DEF BringUpInv, DialogueInv, Commands
  <2>6. s_state = "SET_NAME" => OneOk(line')
    BY <1>3, <2>3 DEF BringUpInv, DialogueInv
  <2> QED BY <1>1, <1>2, <2>1, <2>3, <2>4, <2>5, <2>6
          DEF BringUpInv, LineTypes, DialogueInv, ReadyIsConfigured, Commands
<1>4. CASE cmd = "SS" /\ mod = "cmd"
  <2>1. cfg' = cfg \cup {"services"} /\ line' = Append(line, Says("AOK"))
    BY <1>4 DEF ModAnswers, Receives
  <2>2. Says("AOK") \in Items
    BY SaysIsItem DEF Said
  <2>3. line' \in Seq(Items)
    BY <1>1, <2>1, <2>2, ArrivalOks
  <2>4. s_state \notin {"ENTER_CMD", "SET_NAME"}
    BY <1>2, <1>4 DEF BringUpInv, DialogueInv, Commands
  <2> QED BY <1>1, <1>2, <2>1, <2>3, <2>4
          DEF BringUpInv, LineTypes, DialogueInv, ReadyIsConfigured, Commands
<1>5. CASE cmd = "$$$" /\ mod = "data"
  <2>1. UNCHANGED cfg /\ line' = Append(line, Says("CMD>"))
    BY <1>5 DEF ModAnswers, Receives
  <2>2. Says("CMD>") \in Items /\ Says("CMD>").said # "AOK"
    BY SaysIsItem DEF Said
  <2> QED BY <1>1, <1>2, <2>1, <2>2, LineGrows
<1>6. CASE ~(cmd = "S-" /\ mod = "cmd") /\ ~(cmd = "SS" /\ mod = "cmd")
           /\ ~(cmd = "$$$" /\ mod = "data")
  <2>1. UNCHANGED <<cfg, line>>
    BY <1>6 DEF ModAnswers
  <2> QED BY <1>1, <1>2, <2>1, WholeIsPart, LineShrinks
<1> QED BY <1>3, <1>4, <1>5, <1>6

LEMMA QuietSteps ==
  ASSUME BringUpInv,
         \/ Feed \/ TaskEnds \/ ApiUpdate \/ TimePasses \/ PartialAges \/ CommandIsLost
         \/ ModResets \/ CutModule \/ HostReads \/ RequestIsLost \/ UNCHANGED vars
  PROVE  BringUpInv'
<1>1. line \in Seq(Items) /\ tail \in Halves \cup {Nothing}
  BY DEF BringUpInv, LineTypes
<1>2. UNCHANGED <<s_state, cfg, line>> /\ cmd' \in {cmd, Nothing}
  BY DEF Feed, TaskEnds, ApiUpdate, TimePasses, PartialAges, CommandIsLost, ModResets,
         CutModule, ResetPin, HostReads, RequestIsLost, vars, modVars, drvVars
<1>3. tail' \in Halves \cup {Nothing}
  BY <1>1 DEF Feed, TaskEnds, ApiUpdate, TimePasses, PartialAges, CommandIsLost, ModResets,
         CutModule, ResetPin, FreshHost, HostReads, RequestIsLost, vars, hostVars
<1> QED BY <1>1, <1>2, <1>3, WholeIsPart, LineShrinks

LEMMA HostAsksStep == ASSUME BringUpInv, NEW kind \in Kinds, HostAsks(kind) PROVE BringUpInv'
<1> DEFINE r == [id |-> CHOOSE i \in Fresh : TRUE, kind |-> kind]
<1>1. r \in Requests
  <2>1. (CHOOSE i \in Fresh : TRUE) \in Ids
    BY DEF HostAsks, Fresh
  <2>2. kind \in Kind
    BY BleAssumption
  <2> QED BY <2>1, <2>2 DEF Requests
<1>2. /\ line' = Append(line, [said |-> "data", data |-> [of |-> r, half |-> 1]])
      /\ tail' = [of |-> r, half |-> 2] /\ UNCHANGED <<s_state, cfg, cmd>>
  BY DEF HostAsks, Receives, modVars, drvVars
<1> HIDE DEF r
<1>3. [of |-> r, half |-> 1] \in Halves /\ [of |-> r, half |-> 2] \in Halves
  BY <1>1 DEF Halves
<1> QED BY <1>2, <1>3, DataIsItem, LineGrows

LEMMA ArrivalSteps ==
  ASSUME BringUpInv, ModBoots \/ CentralChanges \/ StreamOpens \/ HostSendsRest
  PROVE  BringUpInv'
<1>1. tail \in Halves \cup {Nothing}
  BY DEF BringUpInv, LineTypes
<1>2. CASE ModBoots
  <2>1. line' = Append(line, Says("REBOOT")) /\ UNCHANGED <<s_state, cfg, cmd, tail>>
    BY <1>2 DEF ModBoots, Receives, drvVars, hostVars
  <2>2. Says("REBOOT") \in Items /\ Says("REBOOT").said # "AOK"
    BY SaysIsItem DEF Said, Tokens
  <2> QED BY <1>1, <2>1, <2>2, LineGrows
<1>3. CASE CentralChanges
  <2>1. PICK what \in {"CONNECT", "CLOSE"} : line' = Append(line, Says(what))
    BY <1>3 DEF CentralChanges, Receives
  <2>2. tail' = Nothing /\ UNCHANGED <<s_state, cfg, cmd>>
    BY <1>3 DEF CentralChanges, FreshHost, drvVars
  <2>3. Says(what) \in Items /\ Says(what).said # "AOK"
    BY SaysIsItem DEF Said, Tokens
  <2> QED BY <2>1, <2>2, <2>3, LineGrows
<1>4. CASE HostSendsRest
  <2>1. /\ line' = Append(line, [said |-> "data", data |-> tail]) /\ tail \in Halves
        /\ tail' = Nothing /\ UNCHANGED <<s_state, cfg, cmd>>
    BY <1>1, <1>4 DEF HostSendsRest, Receives, modVars, drvVars
  <2> QED BY <2>1, DataIsItem, LineGrows
<1>5. CASE StreamOpens
  <2>1. line' = Append(line, Says("OPEN")) /\ UNCHANGED <<s_state, cfg, cmd, tail>>
    BY <1>5 DEF StreamOpens, Receives, drvVars, hostVars
  <2>2. Says("OPEN") \in Items /\ Says("OPEN").said # "AOK"
    BY SaysIsItem DEF Said, Tokens
  <2> QED BY <1>1, <2>1, <2>2, LineGrows
<1> QED BY <1>2, <1>3, <1>4, <1>5

LEMMA RestoreStep == ASSUME BringUpInv, RestoreModule PROVE BringUpInv'
<1>1. line \in Seq(Items)
  BY DEF BringUpInv, LineTypes
<1>2. tail' \in Halves \cup {Nothing} /\ s_state' = "RESET_LOW" /\ UNCHANGED <<line, cfg>>
  BY TailAfterReset DEF RestoreModule, Enter
<1> QED BY <1>1, <1>2, DialogueOver

LEMMA BringUpInit == Init => BringUpInv
<1>1. <<>> \in Seq(Items)
  OBVIOUS
<1> QED BY <1>1 DEF Init, BringUpInv, LineTypes, DialogueInv, ReadyIsConfigured

LEMMA BringUpNext == ASSUME BringUpInv, [Next]_vars PROVE BringUpInv'
<1>1. CASE BringUp
  BY <1>1, ResetSteps, DialogueSteps, RebootStep DEF BringUp
<1> QED BY <1>1, ReadChunkStep, QuietSteps, ModAnswersStep, HostAsksStep, ArrivalSteps,
           RestoreStep DEF Next, Task

(* The module is ready only with both settings: across every retry, reset, *)
(* power test, lost or late answer, and lapped ring.                       *)
THEOREM ReadyModuleIsConfigured == Spec => []ReadyIsConfigured
<1>1. BringUpInv /\ [Next]_vars => BringUpInv'
  BY BringUpNext
<1>2. BringUpInv => ReadyIsConfigured
  BY DEF BringUpInv
<1> QED BY <1>1, <1>2, BringUpInit, PTL DEF Spec

-----------------------------------------------------------------------------
(* What the tokens say.                                                    *)

(* The k-th item is a token, and the last one up to n.                     *)
LastToken(s, k, n) == IsToken(s[k]) /\ \A j \in k + 1 .. n : ~IsToken(s[j])

LEMMA UpIs ==
  /\ Up("CONNECT") = TRUE /\ Up("OPEN") = TRUE
  /\ Up("CLOSE") = FALSE /\ Up("REBOOT") = FALSE
  /\ \A said : Up(said) \in BOOLEAN
<1>1. "CLOSE" \notin {"CONNECT", "OPEN"} /\ "REBOOT" \notin {"CONNECT", "OPEN"}
  OBVIOUS
<1> QED BY <1>1 DEF Up

(* One who took the link for c before he read s then takes it for up.      *)
Tells(s, c, up) ==
  \/ c = up /\ \A k \in DOMAIN s : ~IsToken(s[k])
  \/ \E k \in DOMAIN s : LastToken(s, k, Len(s)) /\ Up(s[k].said) = up

(* The equation that defines Parsed's recursive function has a solution.   *)
Taking(f, a, s, n) == f = [k \in 0 .. n |-> IF k = 0 THEN a ELSE Takes(f[k - 1], s[k])]
LEMMA ParsedFunction ==
  ASSUME NEW a, NEW s, NEW n \in Nat PROVE \E f : Taking(f, a, s, n)
<1> DEFINE Solves(f, m) == f = [k \in 0 .. m |-> IF k = 0 THEN a ELSE Takes(f[k - 1], s[k])]
           S == {m \in Nat : ~ \E f : Solves(f, m)}
<1>1. SUFFICES ASSUME S # {} PROVE FALSE
  BY DEF Taking
<1>2. PICK m \in S : \A j \in S : m <= j
  <2>1. S \subseteq Nat
    OBVIOUS
  <2> HIDE DEF S
  <2> QED BY <1>1, <2>1, LeastOf
<1>3. m # 0
  <2>1. Solves([k \in 0 .. 0 |-> a], 0)
    OBVIOUS
  <2> HIDE DEF Solves
  <2> QED BY <1>2, <2>1
<1>4. m \in Nat /\ m - 1 \in Nat
  BY <1>2, <1>3
<1>5. PICK f : Solves(f, m - 1)
  <2>1. m - 1 \notin S
    <3>1. ~(m <= m - 1)
      BY <1>4
    <3> HIDE DEF S
    <3> QED BY <1>2, <3>1
  <2> HIDE DEF Solves
  <2> QED BY <1>4, <2>1
<1> DEFINE g == [k \in 0 .. m |-> IF k = m THEN Takes(f[m - 1], s[m]) ELSE f[k]]
<1>6. \A k \in 0 .. m : k # m => k \in 0 .. m - 1
  BY <1>4
<1>7. ASSUME NEW k \in 0 .. m
      PROVE  g[k] = IF k = 0 THEN a ELSE Takes(g[k - 1], s[k])
  <2>1. CASE k = m
    <3>1. m - 1 \in 0 .. m /\ m - 1 # m
      BY <1>4
    <3>2. g[k] = Takes(f[m - 1], s[m]) /\ g[m - 1] = f[m - 1]
      BY <2>1, <3>1
    <3> QED BY <1>3, <2>1, <3>2
  <2>2. CASE k # m
    <3>1. k \in 0 .. m - 1
      BY <1>6, <2>2
    <3>2. f[k] = IF k = 0 THEN a ELSE Takes(f[k - 1], s[k])
      BY <1>5, <3>1
    <3>3. k # 0 => k - 1 \in 0 .. m /\ k - 1 # m
      BY <1>4, <3>1
    <3>4. k # 0 => g[k - 1] = f[k - 1]
      BY <3>3
    <3>5. g[k] = f[k]
      BY <2>2
    <3> QED BY <3>2, <3>4, <3>5
  <2> QED BY <2>1, <2>2
<1>8. Solves(g, m)
  <2>1. g = [k \in 0 .. m |-> g[k]]
    OBVIOUS
  <2> HIDE DEF g
  <2> QED BY <1>7, <2>1
<1> HIDE DEF Solves, g
<1> QED BY <1>2, <1>8

(* One item.                                                               *)
LEMMA TakesIs ==
  ASSUME NEW i, ~EndsInPercent(i.data), NEW on, NEW payload
  PROVE  Takes([on |-> on, held |-> Nothing, out |-> payload], i)
           = IF IsToken(i) THEN [on |-> Up(i.said), held |-> Nothing, out |-> payload]
             ELSE [on |-> on, held |-> Nothing, out |-> Append(payload, Text(i))]
<1> DEFINE a == [on |-> on, held |-> Nothing, out |-> payload]
<1>1. a.held = Nothing /\ a.out = payload
  OBVIOUS
<1>2. [a EXCEPT !.on = Up(i.said)] = [on |-> Up(i.said), held |-> Nothing, out |-> payload]
  OBVIOUS
<1>3. [a EXCEPT !.out = Append(payload, Text(i)), !.held = Nothing]
        = [on |-> on, held |-> Nothing, out |-> Append(payload, Text(i))]
  <2> DEFINE x == Append(payload, Text(i))
  <2> HIDE DEF x
  <2>1. [a EXCEPT !.out = x] = [on |-> on, held |-> Nothing, out |-> x]
    OBVIOUS
  <2>2. [[a EXCEPT !.out = x] EXCEPT !.held = Nothing] = [on |-> on, held |-> Nothing, out |-> x]
    BY <2>1
  <2>3. [a EXCEPT !.out = x, !.held = Nothing] = [[a EXCEPT !.out = x] EXCEPT !.held = Nothing]
    OBVIOUS
  <2> QED BY <2>2, <2>3 DEF x
<1> HIDE DEF a
<1>4. Takes(a, i) = IF IsToken(i) THEN [a EXCEPT !.on = Up(i.said)]
                    ELSE [a EXCEPT !.out = Append(payload, Text(i)), !.held = Nothing]
  BY <1>1 DEF Takes, Opens
<1> QED BY <1>2, <1>3, <1>4 DEF a

(* pump_data_mode: without a '%' held back, and without packets that end   *)
(* in one, the n items read leave none held back, and the last token among *)
(* them says what the driver takes the link for.                         *)
NoPercent(s) == \A k \in DOMAIN s : ~EndsInPercent(s[k].data)
LEMMA ParsedIs ==
  ASSUME NEW s \in Seq(Items), NoPercent(s), NEW n \in 0 .. Len(s), NEW c,
         NEW a, a = [on |-> c, held |-> Nothing, out |-> <<>>]
  PROVE  /\ Parsed(a, s, n).held = Nothing
         /\ (\A k \in 1 .. n : ~IsToken(s[k])) => Parsed(a, s, n).on = c
         /\ \A k \in 1 .. n : LastToken(s, k, n) => Parsed(a, s, n).on = Up(s[k].said)
<1> DEFINE after == CHOOSE f : Taking(f, a, s, n)
<1>1. n \in Nat /\ Len(s) \in Nat
  OBVIOUS
<1>2. Taking(after, a, s, n)
  BY <1>1, ParsedFunction
<1>3. Parsed(a, s, n) = after[n]
  BY DEF Parsed, Taking
<1> HIDE DEF after
<1>4. \A k \in 0 .. n : after[k] = IF k = 0 THEN a ELSE Takes(after[k - 1], s[k])
  BY <1>2 DEF Taking
<1> DEFINE Q(m) ==
      /\ \E on, payload : after[m] = [on |-> on, held |-> Nothing, out |-> payload]
      /\ (\A k \in 1 .. m : ~IsToken(s[k])) => after[m].on = c
      /\ \A k \in 1 .. m : LastToken(s, k, m) => after[m].on = Up(s[k].said)
<1>5. Q(0)
  <2>1. after[0] = a /\ a = [on |-> c, held |-> Nothing, out |-> <<>>] /\ a.on = c
    BY <1>1, <1>4
  <2>2. 1 .. 0 = {}
    OBVIOUS
  <2> QED BY <2>1, <2>2, Zenon
<1>6. ASSUME NEW m \in 1 .. n, Q(m - 1) PROVE Q(m)
  <2>1. PICK on, payload : after[m - 1] = [on |-> on, held |-> Nothing, out |-> payload]
    BY <1>6
  <2>2. after[m] = Takes(after[m - 1], s[m])
    BY <1>1, <1>4, <1>6
  <2>3. m \in DOMAIN s /\ ~EndsInPercent(s[m].data)
    BY <1>1, <1>6 DEF NoPercent
  <2>4. CASE IsToken(s[m])
    <3>1. after[m] = [on |-> Up(s[m].said), held |-> Nothing, out |-> payload]
      <4>1. Takes([on |-> on, held |-> Nothing, out |-> payload], s[m])
              = IF IsToken(s[m]) THEN [on |-> Up(s[m].said), held |-> Nothing, out |-> payload]
                ELSE [on |-> on, held |-> Nothing, out |-> Append(payload, Text(s[m]))]
        BY ONLY <2>3, TakesIs, Zenon
      <4> QED BY ONLY <2>1, <2>2, <2>4, <4>1, Zenon
    <3>2. ASSUME NEW k \in 1 .. m, LastToken(s, k, m) PROVE k = m
      <4>1. k # m => m \in k + 1 .. m
        BY <1>1
      <4> QED BY <2>4, <3>2, <4>1 DEF LastToken
    <3>3. m \in 1 .. m
      BY <1>1
    <3>4. after[m].on = Up(s[m].said)
      BY <3>1
    <3>5. \A k \in 1 .. m : LastToken(s, k, m) => after[m].on = Up(s[k].said)
      BY <3>2, <3>4
    <3>6. ~ \A k \in 1 .. m : ~IsToken(s[k])
      BY <2>4, <3>3
    <3>7. \E x, y : after[m] = [on |-> x, held |-> Nothing, out |-> y]
      BY ONLY <3>1
    <3> QED BY ONLY <3>5, <3>6, <3>7
  <2>5. CASE ~IsToken(s[m])
    <3>1. after[m] = [on |-> on, held |-> Nothing, out |-> Append(payload, Text(s[m]))]
      BY <2>1, <2>2, <2>3, <2>5, TakesIs
    <3>2. after[m].on = after[m - 1].on
      BY <2>1, <3>1
    <3>3. \A k \in 1 .. m - 1 : k \in 1 .. m
      BY <1>1
    <3>4. (\A k \in 1 .. m : ~IsToken(s[k])) => after[m].on = c
      BY <1>6, <3>2, <3>3
    <3>5. ASSUME NEW k \in 1 .. m, LastToken(s, k, m) PROVE after[m].on = Up(s[k].said)
      <4>1. k # m
        BY <2>5, <3>5 DEF LastToken
      <4>2. k \in 1 .. m - 1 /\ \A j \in k + 1 .. m - 1 : j \in k + 1 .. m
        BY <1>1, <4>1
      <4>3. LastToken(s, k, m - 1)
        BY <3>5, <4>2 DEF LastToken
      <4> QED BY <1>6, <3>2, <4>2, <4>3
    <3> QED BY <3>1, <3>4, <3>5
  <2> QED BY <2>4, <2>5
<1>7. Q(n)
  <2> DEFINE S == {m \in 0 .. n : ~Q(m)}
  <2>1. S \subseteq Nat
    BY <1>1
  <2>2. SUFFICES ASSUME S # {} PROVE FALSE
    <3>1. n \in 0 .. n
      BY <1>1
    <3> HIDE DEF Q
    <3> QED BY <3>1
  <2>3. PICK m \in S : \A j \in S : m <= j
    <3> HIDE DEF S
    <3> QED BY <2>1, <2>2, LeastOf
  <2> HIDE DEF Q
  <2>4. m \in 0 .. n /\ ~Q(m)
    BY <2>3
  <2>5. m # 0
    BY <1>5, <2>4
  <2>6. m \in 1 .. n /\ m - 1 \in 0 .. n /\ ~(m <= m - 1)
    BY <1>1, <2>4, <2>5
  <2>7. Q(m - 1)
    BY <2>3, <2>6
  <2> QED BY <1>6, <2>4, <2>6, <2>7
<1> QED BY <1>3, <1>7

(* An item that arrives.                                                   *)
LEMMA TellsMore ==
  ASSUME NEW s \in Seq(Items), NEW i \in Items, NEW c, NEW up
  PROVE  /\ (~IsToken(i) /\ Tells(s, c, up)) => Tells(Append(s, i), c, up)
         /\ IsToken(i) => Tells(Append(s, i), c, Up(i.said))
<1> DEFINE t == Append(s, i)
           L == Len(s)
<1>1. /\ t \in Seq(Items) /\ Len(t) = L + 1 /\ t[L + 1] = i /\ L \in Nat
      /\ \A k \in 1 .. L : t[k] = s[k]
  BY AppendProperties
<1> HIDE DEF t
<1>2. DOMAIN t = 1 .. L + 1 /\ DOMAIN s = 1 .. L
  BY <1>1
<1>3. L + 1 \in 1 .. L + 1 /\ \A j \in 1 .. L + 1 : j \in 1 .. L \/ j = L + 1
  BY <1>1
<1>4. ASSUME IsToken(i) PROVE Tells(t, c, Up(i.said))
  <2>1. \A j \in L + 2 .. L + 1 : FALSE
    BY <1>1
  <2>2. (L + 1) + 1 = L + 2
    BY <1>1
  <2>3. LastToken(t, L + 1, Len(t))
    BY <1>1, <1>4, <2>1, <2>2 DEF LastToken
  <2>4. Up(t[L + 1].said) = Up(i.said)
    BY <1>1
  <2> QED BY <1>2, <1>3, <2>3, <2>4 DEF Tells
<1>5. ASSUME ~IsToken(i), Tells(s, c, up) PROVE Tells(t, c, up)
  <2>1. CASE c = up /\ \A k \in DOMAIN s : ~IsToken(s[k])
    BY <1>1, <1>2, <1>3, <1>5, <2>1 DEF Tells
  <2>2. CASE \E k \in DOMAIN s : LastToken(s, k, L) /\ Up(s[k].said) = up
    <3>1. PICK k \in 1 .. L : LastToken(s, k, L) /\ Up(s[k].said) = up
      BY <1>2, <2>2
    <3>2. k \in 1 .. L + 1 /\ \A j \in k + 1 .. L + 1 : (j \in k + 1 .. L /\ j \in 1 .. L) \/ j = L + 1
      BY <1>1
    <3>3. IsToken(t[k]) /\ \A j \in k + 1 .. L + 1 : ~IsToken(t[j])
      BY <1>1, <1>5, <3>1, <3>2 DEF LastToken
    <3>4. LastToken(t, k, Len(t)) /\ Up(t[k].said) = up
      BY <1>1, <3>1, <3>3 DEF LastToken
    <3> QED BY <1>2, <3>2, <3>4 DEF Tells
  <2> QED BY <1>5, <2>1, <2>2 DEF Tells
<1> QED BY <1>4, <1>5 DEF t

(* The first n items are read: what is left.                               *)
LEMMA RestIs ==
  ASSUME NEW s \in Seq(Items), NEW n \in 0 .. Len(s), NEW t, t = SubSeq(s, n + 1, Len(s))
  PROVE  /\ t \in Seq(Items) /\ DOMAIN t = 1 .. Len(s) - n /\ Len(t) = Len(s) - n
         /\ \A i \in 1 .. Len(s) - n : t[i] = s[n + i]
<1> DEFINE L == Len(s)
<1>0. L \in Nat /\ n \in Nat /\ n <= L /\ DOMAIN s = 1 .. L
  OBVIOUS
<1>1. n + 1 \in 1 .. L + 1 /\ L \in 0 .. L /\ (n + 1) - 1 = n
  BY <1>0
<1>2. t \in Seq(Items) /\ From(t, s, n)
  BY <1>0, <1>1, SubSeqIsPart
<1>3. Len(t) = IF n + 1 <= L THEN L - (n + 1) + 1 ELSE 0
  <2>1. \A i \in n + 1 .. L : s[i] \in Items
    BY <1>0
  <2> QED BY <1>0, <1>1, <2>1, SubSeqProperties
<1>4. Len(t) = L - n
  <2>1. n + 1 <= L => L - (n + 1) + 1 = L - n
    BY <1>0
  <2>2. ~(n + 1 <= L) => 0 = L - n
    <3>1. L \in Nat /\ n \in Nat /\ n <= L
      BY <1>0
    <3> HIDE DEF L
    <3> QED BY ONLY <3>1
  <2> QED BY ONLY <1>3, <2>1, <2>2
<1>5. \A i \in 1 .. L - n : t[i] = s[n + i]
  <2>1. DOMAIN t = 1 .. L - n
    BY ONLY <1>2, <1>4
  <2>2. \A i \in 1 .. L - n : i + n = n + i
    BY <1>0
  <2> QED BY ONLY <1>2, <2>1, <2>2 DEF From
<1> QED BY <1>2, <1>4, <1>5

(* The first n items are read: with what they made of c, the rest tells    *)
(* the same.                                                               *)
LEMMA TellsRest ==
  ASSUME NEW s \in Seq(Items), NEW n \in 0 .. Len(s), NEW c, NEW up, Tells(s, c, up),
         NEW on, (\A k \in 1 .. n : ~IsToken(s[k])) => on = c,
         \A k \in 1 .. n : LastToken(s, k, n) => on = Up(s[k].said),
         NEW t, t = SubSeq(s, n + 1, Len(s))
  PROVE  Tells(t, on, up)
<1> DEFINE L == Len(s)
<1>1. L \in Nat /\ n \in Nat /\ n <= L /\ DOMAIN s = 1 .. L
  OBVIOUS
<1>2. /\ t \in Seq(Items) /\ DOMAIN t = 1 .. L - n /\ Len(t) = L - n
      /\ \A i \in 1 .. L - n : t[i] = s[n + i]
  BY RestIs
<1>3. CASE c = up /\ \A k \in 1 .. L : ~IsToken(s[k])
  <2>1. on = c
    BY <1>1, <1>3
  <2>2. \A i \in 1 .. L - n : n + i \in 1 .. L
    BY <1>1
  <2>3. \A i \in 1 .. L - n : ~IsToken(t[i])
    BY ONLY <1>2, <1>3, <2>2
  <2> QED BY ONLY <1>2, <1>3, <2>1, <2>3 DEF Tells
<1>4. ASSUME NEW k \in 1 .. L, LastToken(s, k, L), Up(s[k].said) = up
      PROVE  Tells(t, on, up)
  <2>1. CASE k <= n
    <3>1. k \in 1 .. n /\ \A j \in k + 1 .. n : j \in k + 1 .. L
      BY <1>1, <2>1
    <3>2. LastToken(s, k, n)
      BY <1>4, <3>1 DEF LastToken
    <3>3. on = up
      BY <1>4, <3>1, <3>2
    <3>4. \A i \in 1 .. L - n : n + i \in k + 1 .. L
      BY <1>1, <2>1
    <3>5. \A i \in 1 .. L - n : ~IsToken(t[i])
      BY ONLY <1>2, <1>4, <3>4 DEF LastToken
    <3> QED BY ONLY <1>2, <3>3, <3>5 DEF Tells
  <2>2. CASE ~(k <= n)
    <3> DEFINE i == k - n
    <3>1. i \in 1 .. L - n /\ n + i = k
      BY <1>1, <2>2
    <3>2. \A j \in i + 1 .. L - n : j \in 1 .. L - n /\ n + j \in k + 1 .. L
      BY <1>1, <3>1
    <3> HIDE DEF i
    <3>3. t[i] = s[k]
      BY <1>2, <3>1
    <3>4. LastToken(t, i, L - n)
      BY <1>2, <1>4, <3>2, <3>3 DEF LastToken
    <3> QED BY <1>2, <1>4, <3>1, <3>3, <3>4 DEF Tells
  <2> QED BY <2>1, <2>2
<1> QED BY <1>1, <1>3, <1>4 DEF Tells

-----------------------------------------------------------------------------
(* Whom the driver takes to be there.                                      *)

(* Only a module in data mode, of a driver that is ready, has a central;   *)
(* no command to leave data mode is left over from the bring-up; and the   *)
(* tokens that are still on the line put right what s_connected says.      *)
TrackInv ==
  /\ central \in BOOLEAN /\ stream \in BOOLEAN /\ (stream => central)
  /\ s_in_tok = Nothing
  /\ central => s_state = "READY" /\ mod = "data"
  /\ s_state \in {"REBOOT", "READY"} => cmd \in {"R,1", Nothing}
  /\ s_state = "READY" /\ mod = "data" /\ ~odd => Tells(line, s_connected, central)

LEMMA InitTrackInv == Init => TrackInv
<1>1. <<>> \in Seq(Items) /\ DOMAIN <<>> = {}
  OBVIOUS
<1> QED BY <1>1 DEF Init, TrackInv, Tells

(* Steps that change neither the line nor anything the invariant names,    *)
(* but for what was torn.                                                  *)
LEMMA TrackQuiet ==
  ASSUME TrackInv, UNCHANGED <<central, stream, s_in_tok, s_state, mod, line, s_connected>>,
         cmd' \in {cmd, Nothing}, odd => odd'
  PROVE  TrackInv'
  BY DEF TrackInv, Tells, LastToken, IsToken

LEMMA TrackQuietSteps ==
  ASSUME TrackInv,
         \/ Feed \/ TaskEnds \/ ApiUpdate \/ TimePasses \/ PartialAges \/ CommandIsLost
         \/ HostReads \/ RequestIsLost \/ UNCHANGED vars
  PROVE  TrackInv'
<1>1. UNCHANGED <<central, stream, s_in_tok, s_state, mod, line, s_connected>> /\ cmd' \in {cmd, Nothing}
  BY DEF Feed, TaskEnds, ApiUpdate, TimePasses, PartialAges, CommandIsLost, HostReads,
         RequestIsLost, vars, modVars, drvVars
<1>2. odd => odd'
  BY DEF Feed, TaskEnds, ApiUpdate, TimePasses, PartialAges, CommandIsLost, HostReads,
         RequestIsLost, vars, hostVars
<1> QED BY <1>1, <1>2, TrackQuiet

(* The module is reset, or no longer in data mode.                         *)
LEMMA TrackDown ==
  ASSUME TrackInv, central' = FALSE, stream' = FALSE, s_in_tok' = Nothing,
         s_state' # "READY" \/ mod' # "data",
         s_state' \in {"REBOOT", "READY"} => cmd' \in {"R,1", Nothing}
  PROVE  TrackInv'
  BY DEF TrackInv

LEMMA TrackBringUp == ASSUME TrackInv, BringUp PROVE TrackInv'
<1>1. s_in_tok' = Nothing /\ s_state # "READY" /\ central = FALSE /\ stream = FALSE
  BY DEF BringUp, ResetLow, ResetHigh, Dialogue, Step, Reboot, Failed, TrackInv
<1>2. CASE ResetLow
  <2>1. central' = FALSE /\ stream' = FALSE /\ s_state' \in {"RESET_LOW", "RESET_HIGH"}
    BY <1>2 DEF ResetLow, ResetPin, Enter, Stays
  <2> QED BY <1>1, <2>1, TrackDown
<1>3. CASE ResetHigh
  <2>1. central' = FALSE /\ stream' = FALSE /\ s_state' \in {"RESET_HIGH", "ENTER_CMD"}
    BY <1>1, <1>3 DEF ResetHigh, SendCmd, NoCommand, Enter, Stays
  <2> QED BY <1>1, <2>1, TrackDown
<1>4. CASE Dialogue
  <2>1. central' = FALSE /\ stream' = FALSE
    BY <1>1, <1>4 DEF Dialogue, Step, SendCmd, NoCommand
  <2>2. \/ s_state' = "REBOOT" /\ cmd' = "R,1"
        \/ s_state' \in {"ENTER_CMD", "SET_NAME", "SET_SERVICES", "RESET_LOW", "FAILED"}
    BY <1>4 DEF Dialogue, Step, SendCmd, Enter, FailOrRetry, Stays
  <2> QED BY <1>1, <2>1, <2>2, TrackDown
<1>5. CASE Reboot
  <2>1. cmd' \in {"R,1", Nothing} /\ central' = FALSE /\ stream' = FALSE
    BY <1>1, <1>5 DEF Reboot, NoCommand, TrackInv
  <2>2. CASE s_state' = "REBOOT"
    BY <1>1, <2>1, <2>2, TrackDown
  <2>3. CASE s_state' = "READY"
    <3>1. line' = <<>> /\ s_connected' = FALSE
      BY <1>5, <2>3 DEF Reboot, Flushed, Stays
    <3>2. s_connected' = central' /\ ~stream' /\ DOMAIN line' = {}
      <4>1. DOMAIN <<>> = {}
        OBVIOUS
      <4> QED BY <2>1, <3>1, <4>1
    <3>3. Tells(line, s_connected, central)'
      BY <3>2 DEF Tells
    <3> QED BY <1>1, <2>1, <2>3, <3>3 DEF TrackInv
  <2> QED BY <1>5, <2>2, <2>3 DEF Reboot, Enter, Stays
<1>6. CASE Failed
  <2>1. central' = FALSE /\ stream' = FALSE /\ s_state' \in {"FAILED", "RESET_LOW"}
    BY <1>1, <1>6 DEF Failed, NoCommand, Enter, Stays
  <2> QED BY <1>1, <2>1, TrackDown
<1> QED BY <1>2, <1>3, <1>4, <1>5, <1>6 DEF BringUp

LEMMA TrackPins ==
  ASSUME TrackInv, ModResets \/ CutModule \/ RestoreModule PROVE TrackInv'
<1>1. CASE ModResets
  <2>1. central' = FALSE /\ stream' = FALSE /\ mod' = "boot" /\ cmd' = Nothing /\ s_in_tok' = Nothing
    BY <1>1 DEF ModResets, drvVars, TrackInv
  <2> QED BY <2>1, TrackDown
<1>2. CASE CutModule
  <2>1. central' = FALSE /\ stream' = FALSE /\ mod' = "held" /\ cmd' = Nothing /\ s_in_tok' = Nothing
    BY <1>2 DEF CutModule, ResetPin, drvVars, TrackInv
  <2> QED BY <2>1, TrackDown
<1>3. CASE RestoreModule
  <2>1. central' = FALSE /\ stream' = FALSE /\ mod' = "held" /\ cmd' = Nothing /\ s_in_tok' = Nothing
    BY <1>3 DEF RestoreModule, ResetPin, TrackInv
  <2> QED BY <2>1, TrackDown
<1> QED BY <1>1, <1>2, <1>3

LEMMA TrackModBoots == ASSUME BringUpInv, TrackInv, ModBoots PROVE TrackInv'
<1>1. /\ mod = "boot" /\ mod' = "data" /\ line' = Append(line, Says("REBOOT"))
      /\ UNCHANGED <<central, stream, cmd, s_state, s_connected, s_in_tok>>
  BY DEF ModBoots, Receives, drvVars
<1>2. Says("REBOOT") \in Items /\ Says("REBOOT").said = "REBOOT" /\ IsToken(Says("REBOOT"))
  BY SaysIsItem DEF Said, Tokens, IsToken
<1>3. central = FALSE /\ Up("REBOOT") = FALSE
  BY <1>1, UpIs DEF TrackInv
<1>4. line \in Seq(Items)
  BY DEF BringUpInv, LineTypes
<1>5. Tells(line', s_connected, Up(Says("REBOOT").said))
  BY <1>1, <1>2, <1>4, TellsMore
<1>6. Tells(line', s_connected, central)
  BY <1>2, <1>3, <1>5
<1> QED BY <1>1, <1>6 DEF TrackInv, Tells, LastToken, IsToken

LEMMA TrackCentral ==
  ASSUME BringUpInv, TrackInv, CentralChanges, Between # "nothing" PROVE TrackInv'
<1> DEFINE what == IF central THEN "CLOSE" ELSE "CONNECT"
<1>1. /\ mod = "data" /\ s_state = "READY" /\ central' = ~central /\ stream' = FALSE
      /\ line' = Append(line, Says(what))
      /\ UNCHANGED <<mod, cmd, s_state, s_connected, s_in_tok>>
  BY DEF CentralChanges, Settled, Receives, drvVars
<1>2. what \in {"CONNECT", "CLOSE"}
  OBVIOUS
<1>3. Up(what) = central'
  <2>1. CASE central = TRUE
    BY <1>1, <2>1, UpIs
  <2>2. CASE central = FALSE
    BY <1>1, <2>2, UpIs
  <2> QED BY <2>1, <2>2 DEF TrackInv
<1> HIDE DEF what
<1>4. Says(what) \in Items /\ Says(what).said = what /\ IsToken(Says(what))
  BY <1>2, SaysIsItem DEF Said, Tokens, IsToken
<1>5. line \in Seq(Items)
  BY DEF BringUpInv, LineTypes
<1>6. Tells(line', s_connected, Up(Says(what).said))
  BY <1>1, <1>4, <1>5, TellsMore
<1>7. Tells(line', s_connected, central')
  BY <1>3, <1>4, <1>6
<1> QED BY <1>1, <1>7 DEF TrackInv, Tells, LastToken, IsToken

LEMMA TrackStreamOpens == ASSUME BringUpInv, TrackInv, StreamOpens PROVE TrackInv'
<1>1. /\ central /\ stream' = TRUE /\ line' = Append(line, Says("OPEN"))
      /\ UNCHANGED <<mod, cmd, central, s_state, s_connected, s_in_tok>>
  BY DEF StreamOpens, Receives, drvVars
<1>2. Says("OPEN") \in Items /\ Says("OPEN").said = "OPEN" /\ IsToken(Says("OPEN"))
  BY SaysIsItem DEF Said, Tokens, IsToken
<1>3. line \in Seq(Items)
  BY DEF BringUpInv, LineTypes
<1>4. Tells(line', s_connected, Up(Says("OPEN").said))
  BY <1>1, <1>2, <1>3, TellsMore
<1>5. Up("OPEN") = TRUE /\ central = TRUE
  BY <1>1, UpIs DEF TrackInv
<1>6. Tells(line', s_connected, central)
  BY <1>2, <1>4, <1>5
<1> QED BY <1>1, <1>6 DEF TrackInv, Tells, LastToken, IsToken

(* Half a packet arrives, and is no token.                                 *)
LEMMA TrackHost ==
  ASSUME BringUpInv, TrackInv, HostSendsRest \/ \E kind \in Kinds : HostAsks(kind)
  PROVE  TrackInv'
<1>1. UNCHANGED <<central, stream, mod, cmd, s_state, s_connected, s_in_tok, odd>>
  BY DEF HostSendsRest, HostAsks, modVars, drvVars
<1>2. PICK h : line' = Append(line, [said |-> "data", data |-> h]) /\ h \in Halves
  <2>1. CASE HostSendsRest
    BY <2>1 DEF HostSendsRest, Receives, BringUpInv, LineTypes
  <2>2. ASSUME NEW kind \in Kinds, HostAsks(kind)
        PROVE  \E h : line' = Append(line, [said |-> "data", data |-> h]) /\ h \in Halves
    <3> DEFINE r == [id |-> CHOOSE i \in Fresh : TRUE, kind |-> kind]
    <3>1. r \in Requests
      <4>1. (CHOOSE i \in Fresh : TRUE) \in Ids
        BY <2>2 DEF HostAsks, Fresh
      <4> QED BY <4>1 DEF Requests
    <3>2. line' = Append(line, [said |-> "data", data |-> [of |-> r, half |-> 1]])
      BY <2>2 DEF HostAsks, Receives
    <3> HIDE DEF r
    <3>3. [of |-> r, half |-> 1] \in Halves
      BY <3>1 DEF Halves
    <3> QED BY <3>2, <3>3
  <2> QED BY <2>1, <2>2
<1> DEFINE i == [said |-> "data", data |-> h]
<1>3. i \in Items /\ ~IsToken(i)
  BY <1>2, DataIsItem DEF IsToken, Tokens
<1>4. line \in Seq(Items)
  BY DEF BringUpInv, LineTypes
<1> HIDE DEF i
<1>5. line' = Append(line, i)
  BY <1>2 DEF i
<1>6. Tells(line, s_connected, central) => Tells(line', s_connected, central)
  BY <1>3, <1>4, <1>5, TellsMore
<1> QED BY <1>1, <1>6 DEF TrackInv, Tells, LastToken, IsToken

LEMMA TrackModAnswers == ASSUME BringUpInv, TrackInv, ModAnswers PROVE TrackInv'
<1>1. cmd # Nothing /\ cmd' = Nothing /\ UNCHANGED <<central, stream, s_state, s_in_tok, s_connected, odd>>
  BY DEF ModAnswers, drvVars, hostVars
<1>2. CASE cmd = "$$$" /\ mod = "data"
  <2>1. mod' = "cmd"
    BY <1>2 DEF ModAnswers
  <2>2. central' = FALSE /\ stream' = FALSE /\ s_in_tok' = Nothing
    BY <1>1, <1>2 DEF TrackInv
  <2> QED BY <1>1, <2>1, <2>2, TrackDown
<1>3. CASE mod = "cmd"
  <2>1. mod' \in {"cmd", "boot"}
    BY <1>3 DEF ModAnswers
  <2>2. central' = FALSE /\ stream' = FALSE /\ s_in_tok' = Nothing
    BY <1>1, <1>3 DEF TrackInv
  <2> QED BY <1>1, <2>1, <2>2, TrackDown
<1>4. CASE ~(cmd = "$$$" /\ mod = "data") /\ mod # "cmd"
  <2>1. UNCHANGED <<mod, line>>
    BY <1>4 DEF ModAnswers
  <2> QED BY <1>1, <2>1, TrackQuiet
<1> QED BY <1>2, <1>3, <1>4

(* No packet that can be asked for ends in a '%'.                          *)
LEMMA NoneEndsInPercent ==
  ASSUME "percent" \notin Kinds, NEW s \in Seq(Items) PROVE NoPercent(s)
<1>1. \A i \in Items : i.data \in Halves
  BY DEF Items, Halves, Garbage
<1>2. \A h \in Halves : ~EndsInPercent(h)
  BY DEF Halves, Requests, Noise, EndsInPercent
<1>3. \A k \in DOMAIN s : s[k] \in Items
  OBVIOUS
<1> QED BY <1>1, <1>2, <1>3 DEF NoPercent

(* A part as long as the whole is the whole.                               *)
LEMMA PartIsWhole ==
  ASSUME NEW s \in Seq(Items), NEW t, Part(t, s), ~(Len(t) < Len(s)) PROVE t = s
<1> DEFINE L == Len(t)
           M == Len(s)
<1>1. PICK m \in Nat : From(t, s, m)
  BY DEF Part
<1>2. t \in Seq(Items) /\ DOMAIN t = 1 .. L /\ DOMAIN s = 1 .. M
  BY DEF Part
<1>3. L \in Nat /\ M \in Nat /\ ~(L < M)
  BY <1>2
<1> HIDE DEF L, M
<1>4. L # 0 => L + m \in 1 .. M
  <2>1. L # 0 => L \in 1 .. L
    BY ONLY <1>3
  <2> QED BY <1>1, <1>2, <2>1 DEF From
<1>5. L # 0 => m = 0
  BY ONLY <1>1, <1>3, <1>4
<1>6. L = M
  <2>1. L # 0 => L = M
    BY ONLY <1>1, <1>3, <1>4
  <2>2. L = 0 => L = M
    BY ONLY <1>3
  <2> QED BY <2>1, <2>2
<1>7. \A k \in 1 .. L : t[k] = s[k]
  <2> SUFFICES ASSUME NEW k \in 1 .. L PROVE t[k] = s[k]
    OBVIOUS
  <2>1. m = 0 /\ k + 0 = k
    BY <1>3, <1>5
  <2> QED BY <1>1, <1>2, <2>1 DEF From
<1> QED BY <1>2, <1>6, <1>7, SeqEqual DEF L, M

(* pump_data_mode.                                                         *)
LEMMA TrackReadChunk ==
  ASSUME "percent" \notin Kinds, BringUpInv, TrackInv, ReadChunk PROVE TrackInv'
<1> DEFINE r == Readable(line)
           a == [on |-> s_connected, held |-> Nothing, out |-> <<>>]
<1>1. line \in Seq(Items) /\ s_in_tok = Nothing
  BY DEF BringUpInv, LineTypes, TrackInv
<1>2. UNCHANGED <<central, stream, mod, cmd, s_state>> /\ odd' = (odd \/ Len(r) < Len(line))
  BY DEF ReadChunk, modVars
<1>3. PICK n \in 1 .. (IF Len(r) < Chunk THEN Len(r) ELSE Chunk) :
        /\ line' = SubSeq(r, n + 1, Len(r))
        /\ s_connected' = Parsed(a, r, n).on /\ s_in_tok' = Parsed(a, r, n).held
  BY <1>1 DEF ReadChunk
<1>4. Part(r, line) /\ r \in Seq(Items) /\ Len(r) \in Nat
  BY <1>1, ReadableIsPart
<1>5. n \in 0 .. Len(r)
  BY <1>3, <1>4, BleAssumption
<1>6. NoPercent(r)
  BY <1>4, NoneEndsInPercent
<1> HIDE DEF r
<1>7. ~(Len(r) < Len(line)) => r = line
  BY <1>1, <1>4, PartIsWhole
<1>8. /\ s_in_tok' = Nothing
      /\ (\A k \in 1 .. n : ~IsToken(r[k])) => s_connected' = s_connected
      /\ \A k \in 1 .. n : LastToken(r, k, n) => s_connected' = Up(r[k].said)
  BY <1>3, <1>4, <1>5, <1>6, ParsedIs
<1>9. ASSUME s_state = "READY", mod = "data", ~odd'
      PROVE  Tells(line', s_connected', central)
  <2>1. Tells(r, s_connected, central)
    BY <1>2, <1>7, <1>9 DEF TrackInv
  <2> QED BY <1>3, <1>4, <1>5, <1>8, <2>1, TellsRest
<1> QED BY <1>2, <1>8, <1>9 DEF TrackInv, Tells, LastToken, IsToken

LEMMA TrackNext ==
  ASSUME "percent" \notin Kinds, Between # "nothing", BringUpInv, TrackInv, [Next]_vars
  PROVE  BringUpInv' /\ TrackInv'
<1>1. BringUpInv'
  BY BringUpNext
<1>2. TrackInv'
  BY TrackQuietSteps, TrackBringUp, TrackPins, TrackModBoots, TrackCentral,
     TrackStreamOpens, TrackHost, TrackModAnswers, TrackReadChunk DEF Next, Task
<1> QED BY <1>1, <1>2

(* Whenever every token has been read and no byte is lost, the driver is   *)
(* right about the LE link, with a stream on it or not: across resets of   *)
(* the module, retries, power tests, and payload between the tokens.  It   *)
(* needs packets that do not end in '%', and a central that stays until    *)
(* its coming has been noticed.                                            *)
THEOREM DriverKnowsTheLink ==
  ASSUME "percent" \notin Kinds, Between # "nothing" PROVE Spec => []LinkIsTracked
<1>1. Init => BringUpInv /\ TrackInv
  BY BringUpInit, InitTrackInv
<1>2. BringUpInv /\ TrackInv /\ [Next]_vars => (BringUpInv /\ TrackInv)'
  BY TrackNext
<1>3. TrackInv => LinkIsTracked
  BY DEF TrackInv, Tells, LastToken, LinkIsTracked
<1> QED BY <1>1, <1>2, <1>3, PTL DEF Spec
-----------------------------------------------------------------------------
(* The session.  What is on its way is at places: the frames that wait are *)
(* before 0 (the first is on the air), a half packet in the reassembler is *)
(* at 0, after it come the rest of the chunk, the line, and the half that  *)
(* the host has yet to send.                                               *)
Half(p, k) == [of |-> p, half |-> k]
Ans(p, ok) == [what |-> "answer", to |-> p, ok |-> ok]

FramesAt(q, a) ==
  {x \in Int \X Frames :
     \/ x[1] = -Len(q) - 1 /\ a # Nothing /\ x[2] = a
     \/ (x[1] + Len(q)) + 1 \in DOMAIN q /\ x[2] = q[(x[1] + Len(q)) + 1]}
Coming(p, o, l, t) ==
  {x \in Int \X Halves :
     \/ x[1] = 0 /\ p # Nothing /\ x[2] = p
     \/ x[1] \in DOMAIN o /\ x[2] = o[x[1]]
     \/ x[1] - Len(o) \in DOMAIN l /\ x[2] = l[x[1] - Len(o)].data
     \/ x[1] = Len(o) + Len(l) + 1 /\ t # Nothing /\ x[2] = t}
Incoming == Coming(part, out, line, tail)

(* What this host may hear: the frames, and an answer to each packet that  *)
(* came after place b, where its session begins.                           *)
AnswersAt(I, b) ==
  {x \in Int \X Frames :
     x[1] > b /\ \E p \in Requests : /\ <<x[1], Half(p, 1)>> \in I
                                     /\ x[2] \in {Ans(p, TRUE), Ans(p, FALSE)}}
Stream(b) == FramesAt(s_tx, air) \cup AnswersAt(Incoming, b)

(* A frame the host can place, and two in an order it can place, when a    *)
(* are its requests without an answer.                                     *)
AnswersRequest(f) == f.what = "answer" /\ f.to \in Requests
Expected(f, a, mayPushes, isOdd) ==
  /\ AnswersRequest(f) => \E k \in DOMAIN a : a[k] = f.to
  /\ f = PushFrame => mayPushes
  /\ f.what = "answer" /\ f.to = Noise => isOdd
Before(p, q, a) == \A k, l \in DOMAIN a : a[k] = p /\ a[l] = q => k < l
SubscribedAfter(p, a) ==
  \A k \in DOMAIN a : a[k] = p => \E l \in DOMAIN a : k < l /\ a[l].kind = "subscribe"
InOrder(f, g, a) ==
  AnswersRequest(f) =>
    /\ AnswersRequest(g) => Before(f.to, g.to, a)
    /\ g = PushFrame /\ f.ok /\ f.to.kind = "unsubscribe" => SubscribedAfter(f.to, a)
Sound(S, a, mayPushes, isOdd) ==
  /\ \A x \in S : Expected(x[2], a, mayPushes, isOdd)
  /\ \A x, y \in S : x[1] < y[1] => InOrder(x[2], y[2], a)
PushesSound(S, a, mayPushes) ==
  mayPushes /\ \A x \in S : x[1] < 0 => InOrder(x[2], PushFrame, a)
Distinct(a) == \A k, l \in DOMAIN a : a[k].id = a[l].id => k = l
Wanted(a) == \E k \in DOMAIN a : a[k].kind = "subscribe"

(* After place b there are whole packets only.                             *)
Alternate(S, b) ==
  \A x \in S : x[1] > b =>
    \E p \in Requests :
      \/ x[2] = Half(p, 1) /\ <<x[1] + 1, Half(p, 2)>> \in S
      \/ x[2] = Half(p, 2) /\ x[1] - 1 > b /\ <<x[1] - 1, Half(p, 1)>> \in S

SessionTypes ==
  /\ out \in Seq(Halves) /\ part \in Halves \cup {Nothing}
  /\ s_tx \in Seq(Frames) /\ air \in Frames \cup {Nothing}
  /\ tail \in {Half(p, 2) : p \in Requests} \cup {Nothing}
  /\ asked \in Seq(Requests)
  /\ connected \in BOOLEAN /\ subscribed \in BOOLEAN
  /\ s_connected \in BOOLEAN /\ mayPush \in BOOLEAN /\ odd \in BOOLEAN

(* Of an earlier central there is only the OPEN still to be read that a    *)
(* driver which has read its CONNECT finds next.                           *)
Stale(s, on) == \A k \in DOMAIN s : Up(s[k].said) => on /\ k = 1
NobodyThere ==
  /\ connected = s_was_connected /\ (pc # "feed" => out = <<>>)
  /\ ~connected => s_tx = <<>>
  /\ stream => central
  /\ ~stream => asked = <<>> /\ tail = Nothing /\ ~mayPush /\ heard = "nothing"
  /\ ~central /\ mod # "held" => Stale(line, s_connected)

(* The session begins after place b, which is that of the OPEN, or of the  *)
(* CONNECT while the stream is not open, or where they were.  Before the   *)
(* driver has read that a central came, b is ahead, or both are lost;      *)
(* after that, until the task has run, b is within the chunk, or the OPEN  *)
(* comes next; and then there is nothing else, but for that OPEN.          *)
OpenAhead(b) ==
  /\ b >= Len(out) /\ b <= Len(out) + Len(line)
  /\ b > Len(out) => Up(line[b - Len(out)].said)
  /\ b = Len(out) => odd
  /\ \A k \in DOMAIN line : k + Len(out) < b /\ Up(line[k].said) =>
       k + Len(out) = b - 1 /\ line[k + 1].said = "OPEN"
AtOpen(b) == b = Len(out) + 1 /\ line # <<>> /\ line[1].said = "OPEN"
NoStream(b) ==
  /\ ~s_connected => /\ b = Len(out) + Len(line)
                     /\ \A k \in DOMAIN line : line[k].said # "OPEN"
  /\ s_connected => line = <<>>
  /\ connected => out = <<>> /\ part = Nothing
BeginsAt(b) ==
  /\ b \in Int /\ b >= -1
  /\ connected => s_connected /\ (b = -1 \/ (AtOpen(b) /\ out = <<>> /\ part = Nothing))
  /\ ~connected => air = Nothing
  /\ ~connected /\ s_connected => (b <= Len(out) \/ AtOpen(b)) /\ pc \in {"feed", "read"}
  /\ ~s_connected => OpenAhead(b)
  /\ \A k \in DOMAIN line : k + Len(out) > b => ~IsToken(line[k])
  /\ ~stream => NoStream(b)
SoundFrom(b) ==
  /\ ~odd => Alternate(Incoming, b)
  /\ Sound(Stream(b), asked, mayPush, odd)
  /\ connected /\ subscribed => PushesSound(Stream(b), asked, mayPush)
HostInv ==
  central => /\ Distinct(asked) /\ (Wanted(asked) => mayPush)
             /\ \E b \in Int : BeginsAt(b) /\ SoundFrom(b)
SessionInv == SessionTypes /\ NobodyThere /\ HostInv

(* A frame is a push, or the answer to a packet.                           *)
LEMMA FrameIs ==
  /\ PushFrame \in Frames /\ ~AnswersRequest(PushFrame) /\ PushFrame.what = "push"
  /\ \A f \in Frames :
       \/ f = PushFrame
       \/ f.what = "answer" /\ f.to \in Requests \cup {Noise} /\ f.ok \in BOOLEAN
          /\ f = Ans(f.to, f.ok) /\ f # PushFrame
  /\ Noise \notin Requests
  /\ \A p \in Requests \cup {Noise}, ok \in BOOLEAN :
       /\ Ans(p, ok) \in Frames /\ Ans(p, ok) # PushFrame
       /\ Ans(p, ok).what = "answer" /\ Ans(p, ok).to = p /\ Ans(p, ok).ok = ok
<1>1. PushFrame \in Frames /\ PushFrame.what = "push"
  BY DEF PushFrame, Frames
<1>2. Noise \notin Requests
  <2>1. \A r \in Requests : r.kind \in Kind
    BY BleAssumption DEF Requests
  <2>2. Noise.kind = "noise" /\ "noise" \notin Kind
    BY DEF Noise, Kind
  <2> QED BY <2>1, <2>2
<1>3. ASSUME NEW p \in Requests \cup {Noise}, NEW ok \in BOOLEAN
      PROVE  /\ Ans(p, ok) \in Frames /\ Ans(p, ok) # PushFrame
             /\ Ans(p, ok).what = "answer" /\ Ans(p, ok).to = p /\ Ans(p, ok).ok = ok
  <2>1. Ans(p, ok).what = "answer" /\ Ans(p, ok).to = p /\ Ans(p, ok).ok = ok
    BY DEF Ans
  <2>2. Ans(p, ok) \in [what : {"answer"}, to : Packets, ok : BOOLEAN]
    BY DEF Ans, Packets
  <2> QED BY <1>1, <2>1, <2>2 DEF Frames
<1>4. ASSUME NEW f \in Frames
      PROVE  \/ f = PushFrame
             \/ f.what = "answer" /\ f.to \in Requests \cup {Noise} /\ f.ok \in BOOLEAN
                /\ f = Ans(f.to, f.ok) /\ f # PushFrame
  <2>1. f = PushFrame \/ f \in [what : {"answer"}, to : Packets, ok : BOOLEAN]
    BY DEF Frames, PushFrame
  <2>2. CASE f \in [what : {"answer"}, to : Packets, ok : BOOLEAN]
    <3>1. f.what = "answer" /\ f.to \in Packets /\ f.ok \in BOOLEAN
      BY <2>2
    <3>2. f = [what |-> f.what, to |-> f.to, ok |-> f.ok]
      BY <2>2, Zenon
    <3> QED BY <1>1, <3>1, <3>2 DEF Ans, Packets
  <2> QED BY <2>1, <2>2
<1> QED BY <1>1, <1>2, <1>3, <1>4 DEF AnswersRequest

LEMMA HalfIs ==
  /\ \A p \in Requests, k \in {1, 2} :
       Half(p, k) \in Halves /\ Half(p, k).of = p /\ Half(p, k).half = k
  /\ \A h \in Halves : \/ h = Garbage /\ h.half = 0
                       \/ h.of \in Requests /\ h.half \in {1, 2} /\ h = Half(h.of, h.half)
<1>1. \A p \in Requests, k \in {1, 2} :
       Half(p, k) \in Halves /\ Half(p, k).of = p /\ Half(p, k).half = k
  BY DEF Half, Halves
<1>2. Garbage.half = 0
  BY DEF Garbage
<1>3. ASSUME NEW h \in [of : Requests, half : {1, 2}] PROVE h = Half(h.of, h.half)
  BY DEF Half
<1>4. ASSUME NEW h \in Halves
      PROVE  \/ h = Garbage /\ h.half = 0
             \/ h.of \in Requests /\ h.half \in {1, 2} /\ h = Half(h.of, h.half)
  <2>1. h = Garbage \/ h \in [of : Requests, half : {1, 2}]
    BY DEF Halves, Garbage
  <2> QED BY <1>2, <1>3, <2>1
<1> QED BY <1>1, <1>4

-----------------------------------------------------------------------------
(* Streams.                                                                *)
LEMMA FramesAtIs ==
  ASSUME NEW q \in Seq(Frames), NEW a, NEW x \in FramesAt(q, a)
  PROVE  x = <<x[1], x[2]>> /\ x[1] \in Int /\ x[1] <= -1 /\ x[2] \in Frames
         /\ x[1] >= -Len(q) - 1
<1> DEFINE n == Len(q)
<1>1. n \in Nat /\ DOMAIN q = 1 .. n
  OBVIOUS
<1>2. x \in Int \X Frames
  BY DEF FramesAt
<1>3. x[1] = -n - 1 \/ (x[1] + n) + 1 \in 1 .. n
  BY <1>1 DEF FramesAt
<1> HIDE DEF n
<1>4. x[1] \in Int /\ x = <<x[1], x[2]>> /\ x[2] \in Frames
  BY <1>2
<1>5. x[1] <= -1 /\ x[1] >= -n - 1
  BY <1>1, <1>3, <1>4
<1> QED BY <1>4, <1>5 DEF n

LEMMA NoFrames == FramesAt(<<>>, Nothing) = {}
  BY DEF FramesAt

LEMMA ComingIs ==
  ASSUME NEW p, NEW o \in Seq(Halves), NEW l \in Seq(Items), NEW t,
         NEW x \in Coming(p, o, l, t)
  PROVE  /\ x = <<x[1], x[2]>> /\ x[1] \in Int /\ x[1] >= 0 /\ x[2] \in Halves
         /\ x[1] <= Len(o) + Len(l) + 1 /\ (x[1] = 0 => p # Nothing /\ x[2] = p)
         /\ t = Nothing => x[1] <= Len(o) + Len(l)
<1> DEFINE n == Len(o)
           m == Len(l)
<1>1. n \in Nat /\ m \in Nat /\ DOMAIN o = 1 .. n /\ DOMAIN l = 1 .. m
  OBVIOUS
<1>2. x \in Int \X Halves
  BY DEF Coming
<1>3. \/ x[1] = 0 /\ p # Nothing /\ x[2] = p
      \/ x[1] \in 1 .. n
      \/ x[1] - n \in 1 .. m
      \/ x[1] = n + m + 1 /\ t # Nothing
  BY <1>1 DEF Coming
<1> HIDE DEF n, m
<1>4. x[1] \in Int /\ x = <<x[1], x[2]>> /\ x[2] \in Halves
  BY <1>2
<1>5. x[1] >= 0 /\ x[1] <= n + m + 1 /\ (x[1] = 0 => p # Nothing /\ x[2] = p)
      /\ (t = Nothing => x[1] <= n + m)
  BY <1>1, <1>3, <1>4
<1> QED BY <1>4, <1>5 DEF n, m

LEMMA AnswersAtIs ==
  ASSUME NEW I, NEW b \in Int, NEW x \in AnswersAt(I, b)
  PROVE  /\ x = <<x[1], x[2]>> /\ x[1] \in Int /\ x[1] > b /\ x[2] \in Frames
         /\ \E p \in Requests : <<x[1], Half(p, 1)>> \in I /\ x[2] \in {Ans(p, TRUE), Ans(p, FALSE)}
<1>1. x \in Int \X Frames
  BY DEF AnswersAt
<1>2. x = <<x[1], x[2]>> /\ x[1] \in Int /\ x[2] \in Frames
  BY <1>1
<1>3. x[1] > b /\ \E p \in Requests : /\ <<x[1], Half(p, 1)>> \in I
                                      /\ x[2] \in {Ans(p, TRUE), Ans(p, FALSE)}
  BY DEF AnswersAt
<1> QED BY <1>2, <1>3

(* A part of a stream is as sound as the stream, and so is one moved to    *)
(* other places in the same order, with answers to noise put in.           *)
LEMMA PartIsSound ==
  ASSUME NEW S, NEW T \in SUBSET S, NEW a, NEW mp, NEW o
  PROVE  /\ Sound(S, a, mp, o) => Sound(T, a, mp, o)
         /\ PushesSound(S, a, mp) => PushesSound(T, a, mp)
BY DEF Sound, PushesSound

LEMMA NoiseIsSound ==
  ASSUME NEW a, NEW mp
  PROVE  /\ Expected(Ans(Noise, FALSE), a, mp, TRUE)
         /\ \A f : InOrder(f, Ans(Noise, FALSE), a) /\ InOrder(Ans(Noise, FALSE), f, a)
<1>1. ~AnswersRequest(Ans(Noise, FALSE)) /\ Ans(Noise, FALSE) # PushFrame
  BY FrameIs DEF AnswersRequest
<1> QED BY <1>1 DEF Expected, InOrder

MovesTo(m, S, T, isOdd) ==
  /\ m \in [Int -> Int] /\ \A i, j \in Int : i < j => m[i] < m[j]
  /\ \A x \in T : /\ x[1] \in Int
                  /\ <<m[x[1]], x[2]>> \in S \/ (x[2] = Ans(Noise, FALSE) /\ isOdd)

LEMMA MovedIsSound ==
  ASSUME NEW S, NEW T, NEW a, NEW mp \in BOOLEAN, NEW o \in BOOLEAN, NEW o2 \in BOOLEAN,
         Sound(S, a, mp, o), o => o2, NEW m, MovesTo(m, S, T, o2)
  PROVE  Sound(T, a, mp, o2)
<1>0. /\ m \in [Int -> Int] /\ \A i, j \in Int : i < j => m[i] < m[j]
      /\ \A x \in T : /\ x[1] \in Int
                      /\ <<m[x[1]], x[2]>> \in S \/ (x[2] = Ans(Noise, FALSE) /\ o2)
  BY DEF MovesTo
<1>1. \A x \in T : Expected(x[2], a, mp, o2)
  <2> TAKE x \in T
  <2>1. CASE <<m[x[1]], x[2]>> \in S
    <3>1. Expected(<<m[x[1]], x[2]>>[2], a, mp, o)
      BY <2>1 DEF Sound
    <3> QED BY <3>1 DEF Expected
  <2>2. CASE x[2] = Ans(Noise, FALSE) /\ o2
    <3>1. o2 = TRUE
      BY <2>2
    <3> QED BY <2>2, <3>1, NoiseIsSound
  <2> QED BY <1>0, <2>1, <2>2
<1>2. \A x, y \in T : x[1] < y[1] => InOrder(x[2], y[2], a)
  <2> SUFFICES ASSUME NEW x \in T, NEW y \in T, x[1] < y[1] PROVE InOrder(x[2], y[2], a)
    OBVIOUS
  <2> DEFINE u == <<m[x[1]], x[2]>>
             v == <<m[y[1]], y[2]>>
  <2>1. CASE u \in S /\ v \in S
    <3>1. u[1] < v[1]
      BY <1>0
    <3>2. InOrder(u[2], v[2], a)
      BY <2>1, <3>1 DEF Sound
    <3> QED BY <3>2
  <2>2. CASE x[2] = Ans(Noise, FALSE) \/ y[2] = Ans(Noise, FALSE)
    BY <2>2, NoiseIsSound
  <2> QED BY <1>0, <2>1, <2>2
<1> QED BY <1>1, <1>2 DEF Sound
-----------------------------------------------------------------------------
(* A new request comes last.                                               *)
IsNew(r, a) == \A k \in DOMAIN a : a[k].id # r.id

(* A request that is asked.                                                *)
LEMMA AppendIs ==
  ASSUME NEW a \in Seq(Requests), NEW r \in Requests
  PROVE  /\ Append(a, r) \in Seq(Requests)
         /\ Len(a) \in Nat /\ DOMAIN a = 1 .. Len(a)
         /\ DOMAIN Append(a, r) = 1 .. Len(a) + 1
         /\ \A k \in 1 .. Len(a) : Append(a, r)[k] = a[k]
         /\ Append(a, r)[Len(a) + 1] = r
OBVIOUS

(* Its id is new, so all ids are different still.                          *)
LEMMA AskedIsDistinct ==
  ASSUME NEW a \in Seq(Requests), NEW r \in Requests, IsNew(r, a), Distinct(a)
  PROVE  Distinct(Append(a, r))
<1> DEFINE b == Append(a, r)
           n == Len(a)
<1>1. n \in Nat /\ DOMAIN a = 1 .. n /\ DOMAIN b = 1 .. n + 1 /\ b[n + 1] = r
      /\ \A k \in 1 .. n : b[k] = a[k]
  BY AppendIs
<1> HIDE DEF b, n
<1> SUFFICES ASSUME NEW k \in 1 .. n + 1, NEW l \in 1 .. n + 1, b[k].id = b[l].id
             PROVE  k = l
  BY <1>1 DEF Distinct, b
<1>2. (k \in 1 .. n \/ k = n + 1) /\ (l \in 1 .. n \/ l = n + 1)
  BY <1>1
<1> QED BY <1>1, <1>2 DEF Distinct, IsNew

(* What was in order stays so.                                             *)
LEMMA AskedStaysInOrder ==
  ASSUME NEW a \in Seq(Requests), NEW r \in Requests, IsNew(r, a),
         NEW f, NEW g, InOrder(f, g, a),
         NEW mp, NEW o, NEW mp2, NEW o2, Expected(f, a, mp, o), Expected(g, a, mp2, o2)
  PROVE  InOrder(f, g, Append(a, r))
<1> DEFINE b == Append(a, r)
           n == Len(a)
<1>1. n \in Nat /\ DOMAIN a = 1 .. n /\ DOMAIN b = 1 .. n + 1 /\ b[n + 1] = r
      /\ \A k \in 1 .. n : b[k] = a[k]
  BY AppendIs
<1> HIDE DEF b, n
<1> SUFFICES ASSUME AnswersRequest(f)
             PROVE  /\ AnswersRequest(g) => Before(f.to, g.to, b)
                    /\ g = PushFrame /\ f.ok /\ f.to.kind = "unsubscribe" => SubscribedAfter(f.to, b)
  BY DEF InOrder, b
<1>2. f.to # r
  BY <1>1 DEF Expected, IsNew
<1>3. \A k \in DOMAIN b : b[k] = f.to => k \in 1 .. n
  BY <1>1, <1>2
<1>4. ASSUME AnswersRequest(g) PROVE Before(f.to, g.to, b)
  <2>1. g.to # r
    BY <1>1, <1>4 DEF Expected, IsNew
  <2>2. Before(f.to, g.to, a)
    BY <1>4 DEF InOrder
  <2> QED BY <1>1, <1>3, <2>1, <2>2 DEF Before
<1>5. ASSUME g = PushFrame, f.ok, f.to.kind = "unsubscribe" PROVE SubscribedAfter(f.to, b)
  <2>1. SubscribedAfter(f.to, a)
    BY <1>5 DEF InOrder
  <2> SUFFICES ASSUME NEW k \in DOMAIN b, b[k] = f.to
               PROVE  \E l \in DOMAIN b : k < l /\ b[l].kind = "subscribe"
    BY DEF SubscribedAfter
  <2>2. k \in 1 .. n /\ a[k] = f.to
    BY <1>1, <1>3
  <2>3. PICK l \in 1 .. n : k < l /\ a[l].kind = "subscribe"
    BY <1>1, <2>1, <2>2 DEF SubscribedAfter
  <2> QED BY <1>1, <2>3
<1> QED BY <1>4, <1>5

(* The answer to a new request comes after whatever is expected.           *)
LEMMA NewComesLast ==
  ASSUME NEW a \in Seq(Requests), NEW r \in Requests, IsNew(r, a), NEW f,
         NEW mp, NEW o, Expected(f, a, mp, o), NEW ok \in BOOLEAN
  PROVE  InOrder(f, Ans(r, ok), Append(a, r))
<1> DEFINE b == Append(a, r)
           n == Len(a)
<1>1. n \in Nat /\ DOMAIN a = 1 .. n /\ DOMAIN b = 1 .. n + 1 /\ b[n + 1] = r
      /\ \A k \in 1 .. n : b[k] = a[k]
  BY AppendIs
<1>2. Ans(r, ok).to = r /\ Ans(r, ok) # PushFrame
  BY FrameIs
<1> HIDE DEF b, n
<1> SUFFICES ASSUME AnswersRequest(f) PROVE Before(f.to, r, b)
  BY <1>2 DEF InOrder, b
<1>3. f.to # r /\ \A k \in 1 .. n : a[k] # r
  BY <1>1 DEF Expected, IsNew
<1> QED BY <1>1, <1>3 DEF Before

(* What is expected stays so.                                              *)
LEMMA AskedStaysExpected ==
  ASSUME NEW a \in Seq(Requests), NEW r \in Requests, NEW f,
         NEW mp, NEW o, NEW mp2, NEW o2, mp => mp2, o => o2, Expected(f, a, mp, o)
  PROVE  Expected(f, Append(a, r), mp2, o2)
<1> DEFINE b == Append(a, r)
           n == Len(a)
<1>1. n \in Nat /\ DOMAIN a = 1 .. n /\ DOMAIN b = 1 .. n + 1
      /\ \A k \in 1 .. n : b[k] = a[k]
  BY AppendIs
<1> HIDE DEF b, n
<1>2. AnswersRequest(f) => \E k \in DOMAIN b : b[k] = f.to
  <2> SUFFICES ASSUME AnswersRequest(f) PROVE \E k \in DOMAIN b : b[k] = f.to
    OBVIOUS
  <2>1. PICK k \in 1 .. n : a[k] = f.to
    BY <1>1 DEF Expected
  <2> QED BY <1>1, <2>1
<1> QED BY <1>2 DEF Expected, b

-----------------------------------------------------------------------------
(* The first n of the requests are over.                                   *)
CutTo(a, n, b) ==
  /\ n \in Nat /\ a \in Seq(Requests) /\ b \in Seq(Requests)
  /\ Len(a) = Len(b) + n
  /\ \A j \in 1 .. Len(b) : b[j] = a[j + n]

(* The first requests are forgotten: an answer came, or they are lost.     *)
LEMMA CutOrder ==
  ASSUME NEW a, NEW b, NEW n, CutTo(a, n, b), NEW f, NEW g, InOrder(f, g, a)
  PROVE  InOrder(f, g, b)
<1>1. /\ n \in Nat /\ Len(b) \in Nat /\ DOMAIN b = 1 .. Len(b) /\ Len(a) = Len(b) + n
      /\ DOMAIN a = 1 .. Len(a) /\ \A j \in 1 .. Len(b) : b[j] = a[j + n]
  BY DEF CutTo
<1>2. \A j \in DOMAIN b : j + n \in DOMAIN a /\ b[j] = a[j + n]
  BY <1>1
<1> SUFFICES ASSUME AnswersRequest(f)
             PROVE  /\ AnswersRequest(g) => Before(f.to, g.to, b)
                    /\ g = PushFrame /\ f.ok /\ f.to.kind = "unsubscribe" => SubscribedAfter(f.to, b)
  BY DEF InOrder
<1>3. ASSUME AnswersRequest(g) PROVE Before(f.to, g.to, b)
  <2>1. Before(f.to, g.to, a)
    BY <1>3 DEF InOrder
  <2> SUFFICES ASSUME NEW k \in DOMAIN b, NEW l \in DOMAIN b, b[k] = f.to, b[l] = g.to
               PROVE  k < l
    BY DEF Before
  <2>2. k + n < l + n
    BY <1>2, <2>1 DEF Before
  <2> QED BY <1>1, <2>2
<1>4. ASSUME g = PushFrame, f.ok, f.to.kind = "unsubscribe" PROVE SubscribedAfter(f.to, b)
  <2>1. SubscribedAfter(f.to, a)
    BY <1>4 DEF InOrder
  <2> SUFFICES ASSUME NEW k \in DOMAIN b, b[k] = f.to
               PROVE  \E l \in DOMAIN b : k < l /\ b[l].kind = "subscribe"
    BY DEF SubscribedAfter
  <2>2. PICK l \in DOMAIN a : k + n < l /\ a[l].kind = "subscribe"
    BY <1>2, <2>1 DEF SubscribedAfter
  <2>3. l - n \in 1 .. Len(b) /\ k < l - n /\ (l - n) + n = l
    BY <1>1, <2>2
  <2>4. b[l - n] = a[l]
    BY <1>1, <2>3
  <2> QED BY <1>1, <2>2, <2>3, <2>4
<1> QED BY <1>3, <1>4

(* A frame of which the request is not over is still expected.             *)
LEMMA CutExpected ==
  ASSUME NEW a, NEW b, NEW n, CutTo(a, n, b), NEW f, NEW mp, NEW mp2, NEW o,
         Expected(f, a, mp, o),
         AnswersRequest(f) => \A k \in DOMAIN a : a[k] = f.to => k > n,
         f = PushFrame => mp2
  PROVE  Expected(f, b, mp2, o)
<1>1. /\ n \in Nat /\ Len(b) \in Nat /\ DOMAIN b = 1 .. Len(b) /\ Len(a) = Len(b) + n
      /\ DOMAIN a = 1 .. Len(a) /\ \A j \in 1 .. Len(b) : b[j] = a[j + n]
  BY DEF CutTo
<1>2. ASSUME AnswersRequest(f) PROVE \E k \in DOMAIN b : b[k] = f.to
  <2>1. PICK k \in DOMAIN a : a[k] = f.to /\ k > n
    BY <1>2 DEF Expected
  <2>2. k - n \in 1 .. Len(b) /\ (k - n) + n = k
    BY <1>1, <2>1
  <2>3. b[k - n] = a[k]
    BY <1>1, <2>2
  <2> QED BY <1>1, <2>1, <2>2, <2>3
<1> QED BY <1>2 DEF Expected

(* The ids of those that are left.                                         *)
LEMMA CutDistinct ==
  ASSUME NEW a, NEW b, NEW n, CutTo(a, n, b), Distinct(a)
  PROVE  Distinct(b) /\ (Wanted(b) => Wanted(a))
<1>1. /\ n \in Nat /\ Len(b) \in Nat /\ DOMAIN b = 1 .. Len(b) /\ Len(a) = Len(b) + n
      /\ DOMAIN a = 1 .. Len(a) /\ \A j \in 1 .. Len(b) : b[j] = a[j + n]
  BY DEF CutTo
<1>2. \A j \in DOMAIN b : j + n \in DOMAIN a /\ b[j] = a[j + n]
  BY <1>1
<1>3. Distinct(b)
  <2> SUFFICES ASSUME NEW k \in DOMAIN b, NEW l \in DOMAIN b, b[k].id = b[l].id
               PROVE  k = l
    BY DEF Distinct
  <2>1. k + n = l + n
    BY <1>2 DEF Distinct
  <2> QED BY <1>1, <2>1
<1> QED BY <1>2, <1>3 DEF Wanted

(* Some requests are over.                                                 *)
LEMMA CutIsSound ==
  ASSUME NEW S, NEW T \in SUBSET S, NEW a, NEW b, NEW n, CutTo(a, n, b),
         NEW mp \in BOOLEAN, NEW mp2 \in BOOLEAN, NEW o, Sound(S, a, mp, o),
         \A x \in T : /\ AnswersRequest(x[2]) => \A k \in DOMAIN a : a[k] = x[2].to => k > n
                      /\ x[2] = PushFrame => mp2
  PROVE  /\ Sound(T, b, mp2, o)
         /\ PushesSound(S, a, mp) /\ mp2 => PushesSound(T, b, mp2)
<1>1. ASSUME NEW x \in T PROVE Expected(x[2], b, mp2, o)
  <2>1. Expected(x[2], a, mp, o)
    BY DEF Sound
  <2>2. /\ AnswersRequest(x[2]) => \A k \in DOMAIN a : a[k] = x[2].to => k > n
        /\ x[2] = PushFrame => mp2
    BY <1>1
  <2> QED BY <2>1, <2>2, CutExpected
<1>2. ASSUME NEW x \in T, NEW y \in T, x[1] < y[1] PROVE InOrder(x[2], y[2], b)
  <2>1. InOrder(x[2], y[2], a)
    BY <1>2 DEF Sound
  <2> QED BY <2>1, CutOrder
<1>3. ASSUME PushesSound(S, a, mp), mp2, NEW x \in T, x[1] < 0
      PROVE  InOrder(x[2], PushFrame, b)
  <2>1. InOrder(x[2], PushFrame, a)
    BY <1>3 DEF PushesSound
  <2> QED BY <2>1, CutOrder
<1> QED BY <1>1, <1>2, <1>3 DEF Sound, PushesSound
-----------------------------------------------------------------------------
(* The queue of frames.                                                    *)
LEMMA TailIs ==
  ASSUME NEW q \in Seq(Frames), q # <<>>
  PROVE  /\ Tail(q) \in Seq(Frames) /\ Head(q) \in Frames /\ Head(q) = q[1]
         /\ Len(q) \in Nat \ {0} /\ Len(Tail(q)) = Len(q) - 1
         /\ \A k \in 1 .. Len(q) - 1 : Tail(q)[k] = q[k + 1]
OBVIOUS

(* A frame that goes on the air keeps its place.                           *)
LEMMA FramesPumped ==
  ASSUME NEW q \in Seq(Frames), q # <<>>
  PROVE  FramesAt(Tail(q), Head(q)) = FramesAt(q, Nothing)
<1> DEFINE n == Len(q)
           t == Tail(q)
<1>1. /\ n \in Nat \ {0} /\ DOMAIN q = 1 .. n /\ DOMAIN t = 1 .. n - 1 /\ Len(t) = n - 1
      /\ \A k \in 1 .. n - 1 : t[k] = q[k + 1]
      /\ Head(q) = q[1] /\ Head(q) # Nothing
  BY TailIs, NothingAssumption
<1> HIDE DEF n, t
<1>2. ASSUME NEW x \in Int \X Frames
      PROVE  x \in FramesAt(t, Head(q)) <=> x \in FramesAt(q, Nothing)
  <2>1. x[1] \in Int
    OBVIOUS
  <2>2. x \in FramesAt(t, Head(q)) <=>
          \/ x[1] = -(n - 1) - 1 /\ x[2] = q[1]
          \/ (x[1] + (n - 1)) + 1 \in 1 .. n - 1 /\ x[2] = t[(x[1] + (n - 1)) + 1]
    BY <1>1 DEF FramesAt
  <2>3. x \in FramesAt(q, Nothing) <=>
          (x[1] + n) + 1 \in 1 .. n /\ x[2] = q[(x[1] + n) + 1]
    BY <1>1 DEF FramesAt, n
  <2>4. CASE x[1] = -n
    <3>1. -(n - 1) - 1 = -n /\ (x[1] + n) + 1 = 1 /\ ~((x[1] + (n - 1)) + 1 \in 1 .. n - 1)
          /\ 1 \in 1 .. n
      BY <1>1, <2>4
    <3> QED BY ONLY <2>2, <2>3, <2>4, <3>1
  <2>5. CASE x[1] # -n
    <3> DEFINE k == (x[1] + (n - 1)) + 1
    <3>1. k + 1 = (x[1] + n) + 1 /\ x[1] # -(n - 1) - 1 /\ (k \in 1 .. n - 1 <=> k + 1 \in 1 .. n)
      BY <1>1, <2>1, <2>5
    <3> HIDE DEF k
    <3>2. k \in 1 .. n - 1 => t[k] = q[k + 1]
      BY <1>1
    <3>3. x \in FramesAt(t, Head(q)) <=> k \in 1 .. n - 1 /\ x[2] = t[k]
      BY <2>2, <3>1 DEF k
    <3>4. x \in FramesAt(q, Nothing) <=> k + 1 \in 1 .. n /\ x[2] = q[k + 1]
      BY <2>3, <3>1
    <3> QED BY ONLY <3>1, <3>2, <3>3, <3>4
  <2> QED BY <2>4, <2>5
<1> QED BY <1>2 DEF FramesAt, t

(* ble_tx_pump.                                                            *)
LEMMA PumpIs ==
  ASSUME NEW q \in Seq(Frames), air \in Frames \cup {Nothing}, Pump(q)
  PROVE  /\ s_tx' \in Seq(Frames) /\ air' \in Frames \cup {Nothing}
         /\ FramesAt(s_tx', air') = FramesAt(q, air)
         /\ q = <<>> => s_tx' = <<>> /\ air' = air
<1>1. CASE IsConnected /\ air = Nothing /\ q # <<>>
  <2>1. air' = Head(q) /\ s_tx' = Tail(q)
    BY <1>1 DEF Pump
  <2>2. Tail(q) \in Seq(Frames) /\ Head(q) \in Frames
    BY <1>1, TailIs
  <2>3. FramesAt(Tail(q), Head(q)) = FramesAt(q, Nothing)
    BY <1>1, FramesPumped
  <2> QED BY <1>1, <2>1, <2>2, <2>3
<1>2. CASE ~(IsConnected /\ air = Nothing /\ q # <<>>)
  BY <1>2 DEF Pump
<1> QED BY <1>1, <1>2

(* A new frame comes after all others.                                     *)
LEMMA FramesAppended ==
  ASSUME NEW q \in Seq(Frames), NEW f \in Frames, NEW a, NEW x \in FramesAt(Append(q, f), a)
  PROVE  \/ x = <<-1, f>>
         \/ <<x[1] + 1, x[2]>> \in FramesAt(q, a) /\ x[1] < -1
<1> DEFINE n == Len(q)
           p == Append(q, f)
<1>1. /\ n \in Nat /\ DOMAIN q = 1 .. n /\ DOMAIN p = 1 .. n + 1 /\ Len(p) = n + 1
      /\ p \in Seq(Frames) /\ p[n + 1] = f /\ \A k \in 1 .. n : p[k] = q[k]
  OBVIOUS
<1> HIDE DEF n, p
<1>2. x = <<x[1], x[2]>> /\ x[1] \in Int /\ x[2] \in Frames
  BY <1>1, FramesAtIs DEF p
<1> DEFINE k == (x[1] + (n + 1)) + 1
           y == <<x[1] + 1, x[2]>>
<1>3. \/ x[1] = -(n + 1) - 1 /\ a # Nothing /\ x[2] = a
      \/ k \in 1 .. n + 1 /\ x[2] = p[k]
  BY <1>1 DEF FramesAt, p
<1>4. y \in Int \X Frames /\ y[1] = x[1] + 1 /\ y[2] = x[2]
  BY <1>2
<1>5. k = (y[1] + n) + 1 /\ k \in Int
  BY <1>1, <1>2
<1>6. x[1] = -1 <=> k = n + 1
  BY <1>1, <1>2
<1>7. x[1] = -(n + 1) - 1 => y[1] = -n - 1 /\ x[1] < -1
  BY <1>1, <1>2
<1>8. k \in 1 .. n => x[1] < -1
  BY <1>1, <1>2
<1> HIDE DEF k, y
<1>9. y \in FramesAt(q, a) <=>
        \/ y[1] = -n - 1 /\ a # Nothing /\ y[2] = a
        \/ k \in 1 .. n /\ y[2] = q[k]
  BY <1>1, <1>4, <1>5 DEF FramesAt, n
<1>10. CASE k = n + 1
  <2>1. x[1] # -(n + 1) - 1
    BY <1>1, <1>6, <1>10
  <2> QED BY <1>1, <1>2, <1>3, <1>6, <1>10, <2>1
<1>11. CASE k # n + 1 /\ k \in 1 .. n + 1
  <2>1. k \in 1 .. n
    BY <1>1, <1>11
  <2> QED BY <1>1, <1>3, <1>4, <1>7, <1>8, <1>9, <2>1 DEF y
<1>12. CASE k \notin 1 .. n + 1
  BY <1>3, <1>4, <1>7, <1>9, <1>12 DEF y
<1> QED BY <1>10, <1>11, <1>12

(* The frame on the air is the first.                                      *)
LEMMA FirstFrame ==
  ASSUME NEW q \in Seq(Frames), NEW a \in Frames
  PROVE  /\ <<-Len(q) - 1, a>> \in FramesAt(q, a) /\ -Len(q) - 1 \in Int /\ -Len(q) - 1 < 0
         /\ FramesAt(q, Nothing) \subseteq FramesAt(q, a)
         /\ \A x \in FramesAt(q, Nothing) : -Len(q) - 1 < x[1]
<1> DEFINE n == Len(q)
<1>1. n \in Nat /\ DOMAIN q = 1 .. n /\ a # Nothing
  BY NothingAssumption
<1>2. \A x \in FramesAt(q, Nothing) : x[1] \in Int /\ (x[1] + n) + 1 \in 1 .. n
  BY <1>1 DEF FramesAt
<1>3. FramesAt(q, Nothing) \subseteq FramesAt(q, a)
  BY DEF FramesAt
<1>4. <<-n - 1, a>> \in FramesAt(q, a)
  BY <1>1 DEF FramesAt
<1> HIDE DEF n
<1>5. \A x \in FramesAt(q, Nothing) : -n - 1 < x[1]
  BY <1>1, <1>2
<1>6. -n - 1 \in Int /\ -n - 1 < 0
  BY <1>1
<1> QED BY <1>3, <1>4, <1>5, <1>6 DEF n

(* Behind a packet in the reassembler comes nothing but what it has asked  *)
(* for.                                                                    *)
LEMMA SubscribeComesLast ==
  ASSUME NEW S, NEW a, NEW mp, NEW o, NEW p \in Requests, Sound(S, a, mp, o),
         <<0, Ans(p, TRUE)>> \in S, p.kind = "subscribe", Wanted(a) => mp
  PROVE  PushesSound(S, a, mp)
<1> DEFINE f == Ans(p, TRUE)
<1>1. f.to = p /\ AnswersRequest(f) /\ f # PushFrame
  BY FrameIs DEF AnswersRequest
<1> HIDE DEF f
<1>2. PICK k \in DOMAIN a : a[k] = p
  <2>1. Expected(<<0, f>>[2], a, mp, o)
    BY DEF Sound, f
  <2> QED BY <1>1, <2>1 DEF Expected
<1>3. mp
  BY <1>2 DEF Wanted
<1>4. ASSUME NEW x \in S, x[1] < 0, AnswersRequest(x[2]) PROVE SubscribedAfter(x[2].to, a)
  <2>1. InOrder(x[2], <<0, f>>[2], a)
    BY <1>4 DEF Sound, f
  <2>2. Before(x[2].to, p, a)
    BY <1>1, <1>4, <2>1 DEF InOrder
  <2> QED BY <1>2, <2>2 DEF Before, SubscribedAfter
<1>5. ASSUME NEW x \in S, x[1] < 0 PROVE InOrder(x[2], PushFrame, a)
  BY <1>4, <1>5, FrameIs DEF InOrder
<1> QED BY <1>3, <1>5 DEF PushesSound

(* What is whole stays whole when all of it moves.                         *)
LEMMA MovedStaysWhole ==
  ASSUME NEW S, NEW T, NEW b \in Int, NEW e \in Int, Alternate(S, b),
         \A x \in S : x[1] \in Int,
         \A x \in T : x[1] \in Int /\ (x[1] > b - e => <<x[1] + e, x[2]>> \in S),
         \A i \in Int, p \in Requests, k \in {1, 2} :
            i > b /\ <<i, Half(p, k)>> \in S => <<i - e, Half(p, k)>> \in T
  PROVE  Alternate(T, b - e)
<1> SUFFICES ASSUME NEW x \in T, x[1] > b - e
             PROVE  \E p \in Requests :
                      \/ x[2] = Half(p, 1) /\ <<x[1] + 1, Half(p, 2)>> \in T
                      \/ /\ x[2] = Half(p, 2) /\ x[1] - 1 > b - e
                         /\ <<x[1] - 1, Half(p, 1)>> \in T
  BY DEF Alternate
<1> DEFINE y == <<x[1] + e, x[2]>>
<1>1. y \in S /\ y[1] = x[1] + e /\ y[2] = x[2] /\ x[1] \in Int
  OBVIOUS
<1>2. y[1] > b /\ (y[1] + 1) - e = x[1] + 1 /\ (y[1] - 1) - e = x[1] - 1
      /\ y[1] + 1 > b /\ (y[1] - 1 > b => x[1] - 1 > b - e) /\ y[1] \in Int
  BY <1>1
<1> HIDE DEF y
<1>3. PICK p \in Requests :
        \/ y[2] = Half(p, 1) /\ <<y[1] + 1, Half(p, 2)>> \in S
        \/ y[2] = Half(p, 2) /\ y[1] - 1 > b /\ <<y[1] - 1, Half(p, 1)>> \in S
  BY <1>1, <1>2 DEF Alternate
<1>4. CASE y[2] = Half(p, 1) /\ <<y[1] + 1, Half(p, 2)>> \in S
  <2>1. y[1] + 1 \in Int
    BY <1>2
  <2>2. <<(y[1] + 1) - e, Half(p, 2)>> \in T
    BY <1>2, <1>4, <2>1
  <2> QED BY <1>1, <1>2, <1>4, <2>2
<1>5. CASE y[2] = Half(p, 2) /\ y[1] - 1 > b /\ <<y[1] - 1, Half(p, 1)>> \in S
  <2>1. y[1] - 1 \in Int
    BY <1>2
  <2>2. <<(y[1] - 1) - e, Half(p, 1)>> \in T
    BY <1>2, <1>5, <2>1
  <2> QED BY <1>1, <1>2, <1>5, <2>2
<1> QED BY <1>3, <1>4, <1>5

-----------------------------------------------------------------------------
(* Steps seen from the host.                                               *)
HostRefinement == [Host!Next]_(Host!vars)

(* A step of the device while the central is there: it notices nothing but *)
(* bytes that are lost.                                                    *)
LEMMA DeviceStep ==
  ASSUME HostInv, central, UNCHANGED <<central, asked, mayPush, heard>>,
         odd \in BOOLEAN, odd' \in BOOLEAN, odd => odd',
         NEW b \in Int, BeginsAt(b)', SoundFrom(b)'
  PROVE  HostInv' /\ HostRefinement
<1>1. HostInv'
  BY DEF HostInv
<1>0. central' = central /\ asked' = asked /\ mayPush' = mayPush /\ heard' = heard
  OBVIOUS
<1>2. CASE odd' = odd
  <2>1. (central' /\ odd') = (central /\ odd)
    BY <1>0, <1>2
  <2>2. UNCHANGED Host!vars
    BY <1>0, <2>1 DEF Host!vars
  <2> QED BY <1>1, <2>2 DEF HostRefinement
<1>3. CASE ~odd /\ odd'
  <2>1. Host!FallOutOfStep
    BY <1>0, <1>3 DEF Host!FallOutOfStep
  <2> QED BY <1>1, <2>1 DEF HostRefinement, Host!Next
<1> QED BY <1>1, <1>2, <1>3

(* No central, and none comes.                                             *)
LEMMA OutsideStep ==
  ASSUME central = FALSE, central' = FALSE, UNCHANGED <<asked, mayPush, heard>>
  PROVE  HostInv' /\ HostRefinement
  BY DEF HostInv, HostRefinement, Host!vars

(* The central goes.                                                       *)
LEMMA ClosingStep ==
  ASSUME central = TRUE, central' = FALSE, FreshHost
  PROVE  HostInv' /\ HostRefinement
<1>1. Host!Close
  BY DEF FreshHost, Host!Close, Host!NewSession
<1> QED BY <1>1 DEF HostInv, HostRefinement, Host!Next
-----------------------------------------------------------------------------
(* No central, and steps in which one goes.                                *)
LEMMA PartIsStale ==
  ASSUME NEW s, NEW t, Part(t, s), NEW on, Stale(s, on) PROVE Stale(t, on)
<1>1. PICK m \in Nat : From(t, s, m)
  BY DEF Part
<1>2. \A k \in DOMAIN t : k \in Nat /\ k >= 1
  BY DEF Part
<1> SUFFICES ASSUME NEW k \in DOMAIN t, Up(t[k].said) PROVE on /\ k = 1
  BY DEF Stale
<1>3. on /\ k + m = 1
  BY <1>1 DEF From, Stale
<1> QED BY <1>2, <1>3

LEMMA ItemArrives ==
  ASSUME NEW s \in Seq(Items), NEW i \in Items
  PROVE  /\ Append(s, i) \in Seq(Items) /\ Len(Append(s, i)) = Len(s) + 1 /\ Len(s) \in Nat
         /\ DOMAIN s = 1 .. Len(s) /\ DOMAIN Append(s, i) = 1 .. Len(s) + 1
         /\ \A k \in 1 .. Len(s) : Append(s, i)[k] = s[k]
         /\ Append(s, i)[Len(s) + 1] = i
         /\ \A on : ~Up(i.said) /\ Stale(s, on) => Stale(Append(s, i), on)
<1> DEFINE t == Append(s, i)
           L == Len(s)
<1>1. /\ t \in Seq(Items) /\ Len(t) = L + 1 /\ t[L + 1] = i /\ L \in Nat
      /\ \A k \in 1 .. L : t[k] = s[k]
  BY AppendProperties
<1> HIDE DEF t
<1>2. DOMAIN t = 1 .. L + 1 /\ DOMAIN s = 1 .. L
  BY <1>1
<1>3. \A k \in 1 .. L + 1 : k \in 1 .. L \/ k = L + 1
  BY <1>1
<1>4. ASSUME NEW on, ~Up(i.said), Stale(s, on) PROVE Stale(t, on)
  BY <1>1, <1>2, <1>3, <1>4 DEF Stale
<1> QED BY <1>1, <1>2, <1>4 DEF t

(* What the device holds stays as it is.                                   *)
deviceVars == <<out, part, s_tx, air, connected, s_was_connected, subscribed>>

LEMMA OutsideQuiet ==
  ASSUME SessionInv, central = FALSE, central' = FALSE, UNCHANGED deviceVars,
         UNCHANGED hostVars \/ FreshHost, pc' = pc \/ (pc # "feed" /\ pc' # "feed"), s_connected' \in BOOLEAN,
         stream' = FALSE, mod' # "held" => Stale(line', s_connected')
  PROVE  SessionInv' /\ HostRefinement
<1>1. /\ UNCHANGED <<out, part, s_tx, air, connected, s_was_connected, subscribed>>
      /\ UNCHANGED <<tail, asked, mayPush, heard>> /\ odd' \in BOOLEAN
  <2>1. mayPush \in BOOLEAN /\ odd \in BOOLEAN
    BY DEF SessionInv, SessionTypes
  <2>2. mayPush = FALSE /\ asked = <<>> /\ tail = Nothing /\ heard = "nothing"
    BY <2>1 DEF SessionInv, NobodyThere
  <2> QED BY <2>1, <2>2 DEF deviceVars, hostVars, FreshHost
<1>2. HostInv' /\ HostRefinement
  BY <1>1, OutsideStep
<1>3. SessionTypes'
  BY <1>1 DEF SessionInv, SessionTypes
<1>4. NobodyThere'
  BY <1>1 DEF SessionInv, NobodyThere, Stale
<1> QED BY <1>2, <1>3, <1>4 DEF SessionInv

LEMMA ClosingQuiet ==
  ASSUME SessionInv, central = TRUE, central' = FALSE, FreshHost,
         UNCHANGED <<deviceVars, pc>>, s_connected' \in BOOLEAN,
         stream' = FALSE, mod' # "held" => Stale(line', s_connected')
  PROVE  SessionInv' /\ HostRefinement
<1>1. /\ UNCHANGED <<out, part, s_tx, air, connected, s_was_connected, subscribed, pc>>
      /\ tail' = Nothing /\ odd' = FALSE /\ asked' = <<>> /\ mayPush' = FALSE
      /\ heard' = "nothing"
  BY DEF deviceVars, FreshHost
<1>2. HostInv' /\ HostRefinement
  BY ClosingStep
<1>3. SessionTypes'
  <2>1. asked' \in Seq(Requests)
    BY <1>1
  <2> QED BY <1>1, <2>1 DEF SessionInv, SessionTypes
<1>4. NobodyThere'
  BY <1>1 DEF SessionInv, NobodyThere, Stale
<1> QED BY <1>2, <1>3, <1>4 DEF SessionInv

(* BLE_RESET.                                                              *)
LEMMA SessionPins ==
  ASSUME BringUpInv, TrackInv, SessionInv, CutModule \/ RestoreModule
  PROVE  SessionInv' /\ HostRefinement
<1>1. ResetPin("held") /\ UNCHANGED <<deviceVars, pc>> /\ s_connected' \in {s_connected, FALSE}
  BY DEF CutModule, RestoreModule, rxVars, apiVars, txVars, drvVars, deviceVars
<1>2. mod' = "held" /\ central' = FALSE /\ stream' = FALSE /\ s_connected' \in BOOLEAN
  BY <1>1 DEF ResetPin, SessionInv, SessionTypes
<1>3. CASE central
  <2>1. central = TRUE /\ FreshHost
    BY <1>1, <1>3 DEF ResetPin, TrackInv
  <2> QED BY <1>1, <1>2, <2>1, ClosingQuiet
<1>4. CASE ~central
  <2>1. central = FALSE /\ UNCHANGED hostVars
    BY <1>1, <1>4 DEF ResetPin, TrackInv
  <2> QED BY <1>1, <1>2, <2>1, OutsideQuiet
<1> QED BY <1>3, <1>4

LEMMA SessionBringUp ==
  ASSUME BringUpInv, TrackInv, SessionInv, BringUp PROVE SessionInv' /\ HostRefinement
<1>1. /\ pc = "idle" /\ pc' = "edges" /\ UNCHANGED deviceVars /\ line \in Seq(Items)
      /\ s_connected' \in BOOLEAN
  BY DEF BringUp, ResetLow, ResetHigh, Dialogue, Step, Reboot, Failed, rxVars, apiVars, txVars,
         deviceVars, BringUpInv, LineTypes, SessionInv, SessionTypes
<1>2. s_state # "READY" /\ central = FALSE /\ stream = FALSE
  BY DEF BringUp, ResetLow, ResetHigh, Dialogue, Step, Reboot, Failed, TrackInv
<1>3. mod # "held" => Stale(line, s_connected)
  BY <1>2 DEF SessionInv, NobodyThere
<1>4. \A on : Stale(<<>>, on)
  BY DEF Stale
<1>5. CASE ResetLow
  <2>1. central' = FALSE /\ stream' = FALSE /\ UNCHANGED hostVars
    BY <1>2, <1>5 DEF ResetLow, ResetPin
  <2>2. mod' # "held" => Stale(line', s_connected')
    BY <1>4, <1>5 DEF ResetLow, ResetPin, Flushed
  <2> QED BY <1>1, <1>2, <2>1, <2>2, OutsideQuiet
<1>6. CASE ResetHigh \/ Reboot \/ Failed
  <2>1. central' = FALSE /\ stream' = FALSE /\ UNCHANGED <<mod, hostVars>>
    BY <1>2, <1>6 DEF ResetHigh, Reboot, Failed, SendCmd, NoCommand, hostVars
  <2>2. (line' = line /\ s_connected' = s_connected) \/ line' = <<>>
    BY <1>6 DEF ResetHigh, Reboot, Failed, Flushed, ScanAll
  <2>3. mod' # "held" => Stale(line', s_connected')
    BY <1>3, <1>4, <2>1, <2>2
  <2> QED BY <1>1, <1>2, <2>1, <2>3, OutsideQuiet
<1>7. CASE Dialogue
  <2>1. central' = FALSE /\ stream' = FALSE /\ UNCHANGED <<mod, hostVars>>
    BY <1>2, <1>7 DEF Dialogue, Step, SendCmd, NoCommand, hostVars
  <2>2. Part(line', line) /\ s_connected' = s_connected
    <3>1. ScanAll \/ \E what : RxContains(what) /\ ScanPast(what)
      BY <1>7 DEF Dialogue, Step
    <3>2. s_connected' = s_connected
      BY <1>7 DEF Dialogue, Step
    <3> QED BY <1>1, <3>1, <3>2, ScanAllLeaves, ScanPastLeaves
  <2>3. mod' # "held" => Stale(line', s_connected')
    BY <1>3, <2>1, <2>2, PartIsStale
  <2> QED BY <1>1, <1>2, <2>1, <2>3, OutsideQuiet
<1> QED BY <1>5, <1>6, <1>7 DEF BringUp

LEMMA SessionModBoots ==
  ASSUME BringUpInv, TrackInv, SessionInv, ModBoots PROVE SessionInv' /\ HostRefinement
<1>1. /\ mod = "boot" /\ line' = Append(line, Says("REBOOT")) /\ line \in Seq(Items)
      /\ UNCHANGED <<central, stream, pc, s_connected, hostVars, deviceVars>>
  BY DEF ModBoots, Receives, rxVars, apiVars, txVars, drvVars, deviceVars, BringUpInv, LineTypes
<1>2. central = FALSE /\ stream' = FALSE
  BY <1>1 DEF TrackInv
<1>3. Says("REBOOT") \in Items /\ ~Up(Says("REBOOT").said)
  BY SaysIsItem, UpIs DEF Said, Tokens
<1>4. Stale(line', s_connected')
  BY <1>1, <1>2, <1>3, ItemArrives DEF SessionInv, NobodyThere
<1>5. s_connected' \in BOOLEAN
  BY <1>1 DEF SessionInv, SessionTypes
<1> QED BY <1>1, <1>2, <1>4, <1>5, OutsideQuiet

(* Nothing moves that is of the session.                                   *)
LEMMA SessionQuiet ==
  ASSUME SessionInv,
         UNCHANGED <<deviceVars, hostVars, central, stream, mod, line, s_connected, pc>>
  PROVE  SessionInv' /\ HostRefinement
<1>1. /\ UNCHANGED <<out, part, s_tx, air, connected, s_was_connected, subscribed>>
      /\ UNCHANGED <<tail, odd, asked, mayPush, heard, central, stream, mod, line, s_connected, pc>>
  BY DEF deviceVars, hostVars
<1>2. HostRefinement
  BY <1>1 DEF HostRefinement, Host!vars
<1>3. SessionTypes' /\ NobodyThere'
  BY <1>1 DEF SessionInv, SessionTypes, NobodyThere, Stale
<1>4. \A b : BeginsAt(b)' = BeginsAt(b) /\ SoundFrom(b)' = SoundFrom(b)
  BY <1>1 DEF BeginsAt, OpenAhead, AtOpen, NoStream, SoundFrom, Incoming, Stream
<1>5. HostInv'
  BY <1>1, <1>4 DEF SessionInv, HostInv
<1> QED BY <1>2, <1>3, <1>5 DEF SessionInv

LEMMA SessionQuietSteps ==
  ASSUME SessionInv, TimePasses \/ PartialAges \/ CommandIsLost \/ UNCHANGED vars
  PROVE  SessionInv' /\ HostRefinement
<1>1. UNCHANGED <<deviceVars, hostVars, central, stream, mod, line, s_connected, pc>>
  BY DEF TimePasses, PartialAges, CommandIsLost, vars, modVars, drvVars, rxVars, apiVars,
         txVars, deviceVars
<1> QED BY <1>1, SessionQuiet

LEMMA SessionModAnswers ==
  ASSUME BringUpInv, TrackInv, SessionInv, ModAnswers PROVE SessionInv' /\ HostRefinement
<1>1. /\ UNCHANGED <<central, stream, pc, s_connected, hostVars, deviceVars>> /\ line \in Seq(Items)
      /\ cmd # Nothing
  BY DEF ModAnswers, rxVars, apiVars, txVars, drvVars, deviceVars, BringUpInv, LineTypes
<1>2. CASE central
  <2>1. s_state = "READY" /\ mod = "data" /\ cmd = "R,1"
    BY <1>1, <1>2 DEF TrackInv
  <2>2. UNCHANGED <<mod, line>>
    BY <2>1 DEF ModAnswers
  <2> QED BY <1>1, <2>2, SessionQuiet
<1>3. CASE ~central
  <2>1. central = FALSE /\ stream' = FALSE
    BY <1>1, <1>3 DEF TrackInv
  <2>2. s_connected' \in BOOLEAN
    BY <1>1 DEF SessionInv, SessionTypes
  <2>3. CASE UNCHANGED <<mod, line>>
    BY <1>1, <2>3, SessionQuiet
  <2>4. CASE mod # "held" /\ \E what \in {"CMD>", "AOK"} : line' = Append(line, Says(what))
    <3>1. PICK what \in {"CMD>", "AOK"} : line' = Append(line, Says(what))
      BY <2>4
    <3>2. Says(what) \in Items /\ ~Up(Says(what).said)
      BY SaysIsItem DEF Said, Tokens, Up
    <3>3. Stale(line', s_connected')
      BY <1>1, <1>3, <2>4, <3>1, <3>2, ItemArrives DEF SessionInv, NobodyThere
    <3> QED BY <1>1, <2>1, <2>2, <3>3, OutsideQuiet
  <2>5. CASE mod = "cmd" /\ UNCHANGED line
    <3>1. Stale(line', s_connected')
      BY <1>1, <1>3, <2>5 DEF SessionInv, NobodyThere
    <3> QED BY <1>1, <2>1, <2>2, <3>1, OutsideQuiet
  <2>6. \/ UNCHANGED <<mod, line>>
        \/ mod # "held" /\ \E what \in {"CMD>", "AOK"} : line' = Append(line, Says(what))
        \/ mod = "cmd" /\ UNCHANGED line
    BY DEF ModAnswers, Receives
  <2> QED BY <2>3, <2>4, <2>5, <2>6
<1> QED BY <1>2, <1>3

(* Of a central that goes when its coming has been noticed there is at     *)
(* most the OPEN that comes next.                                          *)
LEMMA NoticedLeavesStale ==
  ASSUME BringUpInv, SessionInv, central, connected PROVE Stale(line, s_connected)
<1>1. PICK b \in Int : BeginsAt(b)
  BY DEF SessionInv, HostInv
<1>2. /\ b = -1 \/ (b = Len(out) + 1 /\ out = <<>>)
      /\ s_connected /\ \A k \in DOMAIN line : k + Len(out) > b => ~IsToken(line[k])
  BY <1>1 DEF BeginsAt, AtOpen
<1>3. \A k \in DOMAIN line : k \in Nat /\ k >= 1
  BY DEF BringUpInv, LineTypes
<1>4. Len(out) \in Nat /\ Len(<<>>) = 0
  BY DEF SessionInv, SessionTypes
<1>5. \A k \in DOMAIN line : k + Len(out) > b \/ k = 1
  BY <1>2, <1>3, <1>4
<1>6. \A k \in DOMAIN line : Up(line[k].said) => k = 1
  BY <1>2, <1>5 DEF Up, IsToken, Tokens
<1> QED BY <1>2, <1>6 DEF Stale

LEMMA SessionModResets ==
  ASSUME BringUpInv, TrackInv, SessionInv, Between = "noticed", ModResets
  PROVE  SessionInv' /\ HostRefinement
<1>1. /\ mod \in {"data", "cmd"} /\ central' = FALSE /\ stream' = FALSE /\ FreshHost
      /\ UNCHANGED <<line, deviceVars, pc, s_connected>>
  BY DEF ModResets, rxVars, apiVars, txVars, drvVars, deviceVars
<1>2. s_connected' \in BOOLEAN
  BY <1>1 DEF SessionInv, SessionTypes
<1>3. CASE central
  <2>1. central = TRUE /\ Noticed
    BY <1>3 DEF ModResets, Settled, TrackInv
  <2>2. connected
    BY <2>1 DEF Noticed, SessionInv, NobodyThere
  <2>3. Stale(line', s_connected')
    BY <1>1, <1>3, <2>2, NoticedLeavesStale
  <2> QED BY <1>1, <1>2, <2>1, <2>3, ClosingQuiet
<1>4. CASE ~central
  <2>1. central = FALSE
    BY <1>4 DEF TrackInv
  <2>3. Stale(line', s_connected')
    BY <1>1, <1>4 DEF SessionInv, NobodyThere
  <2> QED BY <1>1, <1>2, <2>1, <2>3, OutsideQuiet
<1> QED BY <1>3, <1>4
-----------------------------------------------------------------------------
(* The central comes, and what it sends.                                   *)
LEMMA BeginsWithin ==
  ASSUME BringUpInv, SessionInv, NEW b \in Int, BeginsAt(b)
  PROVE  b <= Len(out) + Len(line) /\ Len(out) \in Nat /\ Len(line) \in Nat
<1>1. Len(out) \in Nat /\ Len(line) \in Nat /\ connected \in BOOLEAN /\ s_connected \in BOOLEAN
  BY DEF BringUpInv, LineTypes, SessionInv, SessionTypes
<1>2. b = -1 \/ b <= Len(out) \/ b <= Len(out) + Len(line) \/ AtOpen(b)
  BY <1>1 DEF BeginsAt, OpenAhead
<1>3. AtOpen(b) => b = Len(out) + 1 /\ Len(line) >= 1
  BY <1>1 DEF AtOpen, BringUpInv, LineTypes
<1> QED BY <1>1, <1>2, <1>3

LEMMA ItemIs ==
  /\ \A i \in Items : i.data \in Halves
  /\ \A h \in Halves : /\ [said |-> "data", data |-> h] \in Items
                       /\ [said |-> "data", data |-> h].data = h
                       /\ ~IsToken([said |-> "data", data |-> h])
<1>1. \A i \in Items : i.data \in Halves
  BY DEF Items, Halves, Garbage
<1>2. "data" \notin Tokens
  BY DEF Tokens
<1>3. \A h \in Halves : [said |-> "data", data |-> h] \in Items
                        /\ [said |-> "data", data |-> h].data = h
                        /\ [said |-> "data", data |-> h].said = "data"
  BY DEF Items
<1> QED BY <1>1, <1>2, <1>3 DEF IsToken

LEMMA ComingTail ==
  ASSUME NEW p, NEW o \in Seq(Halves), NEW l \in Seq(Items), NEW t \in Halves \cup {Nothing}, NEW x
  PROVE  x \in Coming(p, o, l, t) <=>
           \/ x \in Coming(p, o, l, Nothing)
           \/ t # Nothing /\ x = <<Len(o) + Len(l) + 1, t>>
<1>1. Len(o) \in Nat /\ Len(l) \in Nat
  OBVIOUS
<1>2. Len(o) + Len(l) + 1 \in Int
  BY <1>1
<1> QED BY <1>2 DEF Coming

LEMMA ComingMore ==
  ASSUME NEW p, NEW o \in Seq(Halves), NEW l \in Seq(Items), NEW i \in Items,
         NEW t \in Halves \cup {Nothing}, NEW x
  PROVE  x \in Coming(p, o, Append(l, i), t) <=>
           \/ x \in Coming(p, o, l, Nothing)
           \/ x = <<Len(o) + Len(l) + 1, i.data>>
           \/ t # Nothing /\ x = <<Len(o) + Len(l) + 2, t>>
<1> DEFINE n == Len(o)
           m == Len(l)
           q == Append(l, i)
<1>1. n \in Nat /\ m \in Nat
  OBVIOUS
<1>2. /\ Len(q) = m + 1 /\ DOMAIN l = 1 .. m /\ DOMAIN q = 1 .. m + 1
      /\ \A k \in 1 .. m : q[k] = l[k]
      /\ q[m + 1] = i
  BY ItemArrives
<1>3. i.data \in Halves
  BY ItemIs
<1> HIDE DEF n, m, q
<1>5. x \in Coming(p, o, q, t) <=>
        \/ x \in Coming(p, o, q, Nothing)
        \/ t # Nothing /\ x = <<n + m + 2, t>>
  <2>1. n + Len(q) + 1 = n + m + 2 /\ q \in Seq(Items)
    BY <1>1, <1>2, ItemArrives DEF q
  <2>2. x \in Coming(p, o, q, t) <=>
        \/ x \in Coming(p, o, q, Nothing)
        \/ t # Nothing /\ x = <<Len(o) + Len(q) + 1, t>>
    BY ONLY <2>1, o \in Seq(Halves), t \in Halves \cup {Nothing}, ComingTail, Zenon
  <2> QED BY <2>1, <2>2 DEF n
<1>6. x \in Coming(p, o, q, Nothing) <=>
        \/ x \in Coming(p, o, l, Nothing)
        \/ x = <<n + m + 1, i.data>>
  <2>1. n + m + 1 \in Int /\ (n + m + 1) - n = m + 1 /\ m + 1 \in 1 .. m + 1
    BY <1>1
  <2>2. ASSUME NEW j \in Int PROVE j - n \in 1 .. m + 1 <=> j - n \in 1 .. m \/ j = n + m + 1
    BY <1>1
  <2>3. ASSUME NEW y \in Int \X Halves
        PROVE  y \in Coming(p, o, q, Nothing) <=>
                 y \in Coming(p, o, l, Nothing) \/ y = <<n + m + 1, i.data>>
    <3>1. y[1] \in Int /\ y = <<y[1], y[2]>>
      OBVIOUS
    <3>2. y[1] - n \in 1 .. m + 1 /\ y[2] = q[y[1] - n].data <=>
            \/ y[1] - n \in 1 .. m /\ y[2] = l[y[1] - n].data
            \/ y[1] = n + m + 1 /\ y[2] = i.data
      <4>1. y[1] - n \in 1 .. m + 1 <=> y[1] - n \in 1 .. m \/ y[1] = n + m + 1
        BY <2>2, <3>1
      <4>2. y[1] = n + m + 1 => y[1] - n = m + 1 /\ ~(y[1] - n \in 1 .. m)
        BY <1>1, <3>1
      <4>3. y[1] - n \in 1 .. m => q[y[1] - n] = l[y[1] - n]
        BY <1>2
      <4> QED BY <1>2, <4>1, <4>2, <4>3
    <3>3. y \in Coming(p, o, q, Nothing) <=>
            \/ y[1] = 0 /\ p # Nothing /\ y[2] = p
            \/ y[1] \in DOMAIN o /\ y[2] = o[y[1]]
            \/ y[1] - n \in 1 .. m + 1 /\ y[2] = q[y[1] - n].data
      BY <1>2 DEF Coming, n
    <3>4. y \in Coming(p, o, l, Nothing) <=>
            \/ y[1] = 0 /\ p # Nothing /\ y[2] = p
            \/ y[1] \in DOMAIN o /\ y[2] = o[y[1]]
            \/ y[1] - n \in 1 .. m /\ y[2] = l[y[1] - n].data
      BY <1>2 DEF Coming, n
    <3>5. y[1] = n + m + 1 /\ y[2] = i.data <=> y = <<n + m + 1, i.data>>
      BY <3>1
    <3> QED BY ONLY <3>2, <3>3, <3>4, <3>5
  <2>4. x \in Coming(p, o, q, Nothing) \/ x \in Coming(p, o, l, Nothing)
          \/ x = <<n + m + 1, i.data>> => x \in Int \X Halves
    BY <1>3, <2>1 DEF Coming
  <2> QED BY <2>3, <2>4
<1> QED BY <1>5, <1>6 DEF n, m, q

(* Half a packet arrives behind the place where the session begins.        *)
LEMMA BeginsStill ==
  ASSUME BringUpInv, SessionInv, NEW b \in Int, BeginsAt(b),
         NEW i \in Items, ~IsToken(i), line' = Append(line, i),
         stream', UNCHANGED <<out, part, connected, s_connected, air, pc, odd>>
  PROVE  BeginsAt(b)'
<1> DEFINE n == Len(out)
           m == Len(line)
<1>1. /\ n \in Nat /\ m \in Nat /\ b <= n + m
  BY BeginsWithin
<1>2. /\ Len(line') = m + 1 /\ DOMAIN line = 1 .. m /\ DOMAIN line' = 1 .. m + 1
      /\ \A k \in 1 .. m : line'[k] = line[k]
      /\ line'[m + 1] = i
  BY ItemArrives DEF BringUpInv, LineTypes
<1>3. stream' /\ UNCHANGED <<out, part, connected, s_connected, air, pc, odd>> /\ Len(out') = n
  OBVIOUS
<1> HIDE DEF n, m
<1>4. \A k \in 1 .. m + 1 : k \in 1 .. m \/ k = m + 1
  BY <1>1
<1>5. \A k \in DOMAIN line' : k + n > b => ~IsToken(line'[k])
  BY <1>2, <1>4 DEF BeginsAt, n
<1>6. ASSUME ~s_connected PROVE OpenAhead(b)'
  <2>1. OpenAhead(b)
    BY <1>6 DEF BeginsAt
  <2>2. b <= n + (m + 1)
    BY <1>1
  <2>3. b > n => b - n \in 1 .. m
    BY <1>1
  <2>4. b > n => Up(line'[b - n].said)
    BY <1>2, <2>1, <2>3 DEF OpenAhead, n
  <2>5. \A k \in DOMAIN line' : k + n < b /\ Up(line'[k].said) =>
          k + n = b - 1 /\ line'[k + 1].said = "OPEN"
    <3> SUFFICES ASSUME NEW k \in DOMAIN line', k + n < b, Up(line'[k].said)
                 PROVE  k + n = b - 1 /\ line'[k + 1].said = "OPEN"
      OBVIOUS
    <3>1. k \in 1 .. m
      BY <1>1, <1>2, <1>4
    <3>2. k + n = b - 1 /\ line[k + 1].said = "OPEN"
      BY <1>2, <2>1, <3>1 DEF OpenAhead, n
    <3>3. k + 1 \in 1 .. m
      BY <1>1, <3>1, <3>2
    <3> QED BY <1>2, <3>2, <3>3
  <2>6. b >= n /\ (b = n => odd)
    BY <2>1 DEF OpenAhead, n
  <2> QED BY <1>2, <1>3, <2>2, <2>4, <2>5, <2>6 DEF OpenAhead
<1>7. /\ b \in Int /\ b >= -1
      /\ connected => s_connected /\ (b = -1 \/ (AtOpen(b) /\ out = <<>> /\ part = Nothing))
      /\ ~connected => air = Nothing
      /\ ~connected /\ s_connected => (b <= n \/ AtOpen(b)) /\ pc \in {"feed", "read"}
  BY DEF BeginsAt, n
<1>8. ASSUME AtOpen(b) PROVE AtOpen(b)'
  <2>1. 1 \in 1 .. m
    <3>1. line # <<>> /\ line \in Seq(Items)
      BY <1>8 DEF AtOpen, BringUpInv, LineTypes
    <3> QED BY <3>1 DEF m
  <2>2. line' # <<>>
    BY <1>1, <1>2
  <2> QED BY <1>2, <1>3, <1>8, <2>1, <2>2 DEF AtOpen, n
<1> QED BY <1>3, <1>5, <1>6, <1>7, <1>8 DEF BeginsAt

LEMMA SessionSendsRest ==
  ASSUME BringUpInv, TrackInv, SessionInv, HostSendsRest PROVE SessionInv' /\ HostRefinement
<1> DEFINE i == [said |-> "data", data |-> tail]
<1>1. /\ tail # Nothing /\ tail' = Nothing /\ line' = Append(line, i)
      /\ UNCHANGED <<central, stream, mod, deviceVars, s_connected, pc, odd, asked, mayPush, heard>>
  BY DEF HostSendsRest, Receives, modVars, drvVars, rxVars, apiVars, txVars, deviceVars
<1>2. UNCHANGED <<out, part, s_tx, air, connected, s_was_connected, subscribed>>
  BY <1>1 DEF deviceVars
<1>3. central /\ stream /\ tail \in Halves /\ line \in Seq(Items) /\ out \in Seq(Halves)
  BY <1>1 DEF SessionInv, NobodyThere, SessionTypes, BringUpInv, LineTypes
<1>4. i \in Items /\ i.data = tail /\ ~IsToken(i)
  BY <1>3, ItemIs
<1> HIDE DEF i
<1>5. Incoming' = Incoming
  <2>1. \A x : x \in Coming(part, out, Append(line, i), Nothing) <=>
               x \in Coming(part, out, line, tail)
    <3> TAKE x
    <3>1. x \in Coming(part, out, Append(line, i), Nothing) <=>
              \/ x \in Coming(part, out, line, Nothing)
              \/ x = <<Len(out) + Len(line) + 1, i.data>>
              \/ Nothing # Nothing /\ x = <<Len(out) + Len(line) + 2, Nothing>>
      BY ONLY <1>3, <1>4, ComingMore, Zenon
    <3>2. x \in Coming(part, out, line, tail) <=>
              \/ x \in Coming(part, out, line, Nothing)
              \/ tail # Nothing /\ x = <<Len(out) + Len(line) + 1, tail>>
      <4>1. tail \in Halves \cup {Nothing}
        BY <1>3
      <4> QED BY ONLY <1>3, <4>1, ComingTail, Zenon
    <3> QED BY <1>1, <1>4, <3>1, <3>2
  <2>2. Coming(part, out, Append(line, i), Nothing) = Coming(part, out, line, tail)
    BY <2>1 DEF Coming
  <2> QED BY <1>1, <1>2, <2>2 DEF Incoming
<1>6. PICK b \in Int : BeginsAt(b) /\ SoundFrom(b)
  BY <1>3 DEF SessionInv, HostInv
<1>7. BeginsAt(b)'
  BY <1>1, <1>2, <1>3, <1>4, <1>6, BeginsStill
<1>8. SoundFrom(b)'
  BY <1>1, <1>2, <1>5, <1>6 DEF SoundFrom, Stream
<1>9. HostInv' /\ HostRefinement
  BY <1>1, <1>3, <1>7, <1>8, DeviceStep DEF SessionInv, SessionTypes
<1>10. SessionTypes' /\ NobodyThere'
  BY <1>1, <1>2, <1>3 DEF SessionInv, SessionTypes, NobodyThere
<1> QED BY <1>9, <1>10 DEF SessionInv

LEMMA SessionCentral ==
  ASSUME BringUpInv, TrackInv, SessionInv, Between = "noticed", CentralChanges
  PROVE  SessionInv' /\ HostRefinement
<1> DEFINE what == IF central THEN "CLOSE" ELSE "CONNECT"
<1>1. /\ mod = "data" /\ mod' = mod /\ air = Nothing /\ s_state = "READY" /\ Noticed
      /\ central' = ~central /\ stream' = FALSE /\ FreshHost /\ line' = Append(line, Says(what))
      /\ UNCHANGED <<deviceVars, pc, s_connected>> /\ line \in Seq(Items)
  BY DEF CentralChanges, Settled, Receives, rxVars, apiVars, txVars, drvVars, deviceVars,
         BringUpInv, LineTypes
<1>2. s_connected' \in BOOLEAN /\ central \in BOOLEAN
  BY <1>1 DEF SessionInv, SessionTypes, TrackInv
<1>3. Says(what) \in Items /\ Says(what).said = what
  BY SaysIsItem DEF Said, Tokens
<1>4. CASE central = TRUE
  <2>1. connected
    BY <1>1, <1>4 DEF Noticed, SessionInv, NobodyThere
  <2>2. Stale(line, s_connected) /\ ~Up(Says(what).said)
    BY <1>3, <1>4, <2>1, NoticedLeavesStale, UpIs
  <2>3. Stale(line', s_connected')
    BY <1>1, <1>3, <2>2, ItemArrives
  <2> QED BY <1>1, <1>2, <1>4, <2>3, ClosingQuiet
<1>5. CASE central = FALSE
  <2> DEFINE n == Len(out)
             m == Len(line)
  <2>1. /\ UNCHANGED <<out, part, s_tx, air, connected, s_was_connected, subscribed>>
        /\ tail' = Nothing /\ odd' = FALSE /\ asked' = <<>> /\ mayPush' = FALSE
        /\ heard' = "nothing" /\ central' = TRUE /\ UNCHANGED <<pc, s_connected>> /\ stream' = FALSE
    BY <1>1, <1>5 DEF deviceVars, FreshHost
  <2>2. ~connected /\ s_connected = FALSE /\ s_tx = <<>>
        /\ \A k \in DOMAIN line : ~Up(line[k].said)
    BY <1>1, <1>2, <1>5 DEF Noticed, IsConnected, SessionInv, NobodyThere, Stale
  <2>3. /\ Len(line') = m + 1 /\ DOMAIN line = 1 .. m /\ DOMAIN line' = 1 .. m + 1
        /\ \A k \in 1 .. m : line'[k] = line[k]
        /\ line'[m + 1] = Says(what) /\ m \in Nat /\ line' \in Seq(Items)
    BY <1>1, <1>3, ItemArrives
  <2>4. n \in Nat /\ out \in Seq(Halves) /\ Len(out') = n
    BY <2>1 DEF SessionInv, SessionTypes
  <2>5. what = "CONNECT" /\ Up(what)
    BY <1>5, UpIs
  <2> HIDE DEF n, m, what
  <2>0. PICK b \in Int : b = n + m + 1
    BY <2>3, <2>4
  <2>6. b \in Int /\ b >= -1 /\ b > n /\ b - n = m + 1 /\ b <= n + (m + 1)
    BY <2>0, <2>3, <2>4
  <2>7. \A k \in 1 .. m + 1 : (k \in 1 .. m \/ k = m + 1) /\ ~(k + n > b)
    BY <2>0, <2>3, <2>4
  <2>8. OpenAhead(b)'
    <3>1. \A k \in 1 .. m + 1 : k + n < b => ~Up(line'[k].said)
      <4>1. (m + 1) + n < b => FALSE
        BY <2>0, <2>3, <2>4
      <4> QED BY <2>2, <2>3, <2>7, <4>1 
    <3>2. Up(line'[b - n].said) /\ b # n
      BY <1>3, <2>3, <2>4, <2>5, <2>6
    <3>3. b >= n
      BY <2>4, <2>6
    <3> QED BY <2>3, <2>4, <2>6, <3>1, <3>2, <3>3 DEF OpenAhead
  <2>18. NoStream(b)'
    <3>1. \A k \in 1 .. m + 1 : line'[k].said # "OPEN"
      <4>1. \A k \in 1 .. m : line'[k].said # "OPEN"
        BY <2>2, <2>3, UpIs
      <4> QED BY <1>3, <2>3, <2>5, <2>7, <4>1
    <3> QED BY <2>0, <2>1, <2>2, <2>3, <2>4, <3>1 DEF NoStream
  <2>9. BeginsAt(b)'
    BY <1>1, <2>1, <2>2, <2>3, <2>4, <2>6, <2>7, <2>8, <2>18 DEF BeginsAt
  <2>10. \A x \in Incoming' : ~(x[1] > b)
    <3> TAKE x \in Incoming'
    <3>1. x \in Coming(part', out', line', Nothing)
      BY <2>1 DEF Incoming
    <3>2. x[1] \in Int /\ x[1] <= Len(out') + Len(line')
      BY <2>1, <2>3, <2>4, <3>1, ComingIs
    <3> QED BY <2>0, <2>3, <2>4, <3>2
  <2>11. Stream(b)' = {}
    <3>1. AnswersAt(Incoming', b) = {}
      <4> SUFFICES ASSUME NEW x \in AnswersAt(Incoming', b) PROVE FALSE
        OBVIOUS
      <4>1. PICK p \in Requests : <<x[1], Half(p, 1)>> \in Incoming' /\ x[1] > b
        BY <2>6, AnswersAtIs
      <4> QED BY <2>10, <4>1
    <3>2. FramesAt(s_tx', air') = {}
      BY <1>1, <2>1, <2>2, NoFrames
    <3> QED BY <3>1, <3>2 DEF Stream
  <2>12. SoundFrom(b)'
    BY <2>1, <2>2, <2>10, <2>11 DEF SoundFrom, Alternate, Sound, PushesSound
  <2>13. Distinct(asked') /\ ~Wanted(asked')
    BY <2>1 DEF Distinct, Wanted
  <2>14. HostInv'
    BY <2>6, <2>9, <2>12, <2>13 DEF HostInv
  <2>15. HostRefinement
    <3>1. Host!Open
      BY <1>5, <2>1 DEF Host!Open, Host!NewSession
    <3> QED BY <3>1 DEF HostRefinement, Host!Next
  <2>16. SessionTypes'
    <3>1. asked' \in Seq(Requests)
      BY <2>1
    <3> QED BY <2>1, <3>1 DEF SessionInv, SessionTypes
  <2>17. NobodyThere'
    BY <2>1 DEF SessionInv, NobodyThere
  <2> QED BY <2>14, <2>15, <2>16, <2>17 DEF SessionInv
<1> QED BY <1>2, <1>4, <1>5

(* The stream opens behind what has been received, and begins the session. *)
LEMMA SessionStreamOpens ==
  ASSUME BringUpInv, TrackInv, SessionInv, StreamOpens PROVE SessionInv' /\ HostRefinement
<1> DEFINE n == Len(out)
           m == Len(line)
           i == Says("OPEN")
<1>1. /\ central /\ ~stream /\ stream' = TRUE /\ line' = Append(line, i)
      /\ UNCHANGED <<central, mod, s_connected, pc, tail, odd, asked, mayPush, heard>>
      /\ UNCHANGED <<out, part, s_tx, air, connected, s_was_connected, subscribed>>
  BY DEF StreamOpens, Receives, drvVars, rxVars, apiVars, txVars, hostVars
<1>2. /\ tail = Nothing /\ out \in Seq(Halves) /\ line \in Seq(Items) /\ odd \in BOOLEAN
      /\ s_connected \in BOOLEAN
  BY <1>1 DEF SessionInv, NobodyThere, SessionTypes, BringUpInv, LineTypes
<1>3. i \in Items /\ i.said = "OPEN" /\ Up(i.said)
  BY SaysIsItem, UpIs DEF Said, Tokens
<1> HIDE DEF i
<1>4. /\ Len(line') = m + 1 /\ DOMAIN line = 1 .. m /\ DOMAIN line' = 1 .. m + 1
      /\ \A k \in 1 .. m : line'[k] = line[k]
      /\ line'[m + 1] = i /\ m \in Nat /\ n \in Nat /\ line' \in Seq(Items)
  BY <1>1, <1>2, <1>3, ItemArrives
<1>5. PICK b \in Int : BeginsAt(b) /\ SoundFrom(b)
  BY <1>1 DEF SessionInv, HostInv
<1>6. NoStream(b)
  BY <1>1, <1>5 DEF BeginsAt
<1>7. PICK c \in Int : c = n + m + 1 /\ c >= -1
  <2>1. n + m + 1 \in Int /\ n + m + 1 >= -1
    BY <1>4
  <2> QED BY <2>1
<1> HIDE DEF n, m
<1>8. \A k \in 1 .. m + 1 : ~(k + n > c) /\ (k + n < c => k \in 1 .. m)
  BY <1>4, <1>7
<1>9. ASSUME ~s_connected PROVE OpenAhead(c)'
  <2>1. b = n + m /\ OpenAhead(b) /\ \A k \in 1 .. m : line[k].said # "OPEN"
    BY <1>4, <1>5, <1>6, <1>9 DEF NoStream, BeginsAt, n, m
  <2>2. ASSUME NEW k \in 1 .. m + 1, k + n < c, Up(line'[k].said)
        PROVE  k + n = c - 1 /\ line'[k + 1].said = "OPEN"
    <3>1. k \in 1 .. m /\ Up(line[k].said)
      BY <1>4, <1>8, <2>2
    <3>2. ~(k + n < b)
      <4>1. ASSUME k + n < b PROVE FALSE
        <5>1. line[k + 1].said = "OPEN" /\ k + n = b - 1
          BY <1>4, <2>1, <3>1, <4>1 DEF OpenAhead, n
        <5>2. k + 1 \in 1 .. m
          BY <1>4, <2>1, <3>1, <5>1
        <5> QED BY <2>1, <5>1, <5>2
      <4> QED BY <4>1
    <3>3. k = m /\ k + 1 = m + 1 /\ k + n = c - 1
      BY <1>4, <1>7, <2>1, <3>1, <3>2
    <3> QED BY <1>3, <1>4, <3>3
  <2>3. c >= n /\ c <= n + (m + 1) /\ c # n /\ c - n = m + 1
    BY <1>4, <1>7
  <2> QED BY <1>1, <1>3, <1>4, <2>2, <2>3 DEF OpenAhead, n
<1>10. ASSUME s_connected PROVE AtOpen(c)'
  <2>1. m = 0
    BY <1>6, <1>10 DEF NoStream, m
  <2>2. line' # <<>> /\ line'[1].said = "OPEN" /\ c = n + 1
    <3>1. m + 1 = 1 /\ c = n + 1
      BY <1>4, <1>7, <2>1
    <3>2. Len(line') = 1 /\ line'[1] = i
      BY <1>4, <3>1
    <3>3. line' # <<>>
      BY <3>2
    <3> QED BY <1>3, <3>1, <3>2, <3>3
  <2> QED BY <1>1, <2>2 DEF AtOpen, n
<1>11. BeginsAt(c)'
  <2>1. /\ connected => s_connected /\ out = <<>> /\ part = Nothing
        /\ ~connected => air = Nothing
        /\ ~connected /\ s_connected => pc \in {"feed", "read"}
    BY <1>5, <1>6 DEF BeginsAt, NoStream
  <2>2. \A k \in DOMAIN line' : k + Len(out') > c => ~IsToken(line'[k])
    BY <1>1, <1>4, <1>8 DEF n
  <2> QED BY <1>1, <1>7, <1>9, <1>10, <2>1, <2>2 DEF BeginsAt
<1>12. \A x \in Incoming' : ~(x[1] > c)
  <2> TAKE x \in Incoming'
  <2>1. x \in Coming(part', out', line', Nothing)
    BY <1>1, <1>2 DEF Incoming
  <2>2. x[1] \in Int /\ x[1] <= Len(out') + Len(line')
    BY <1>1, <1>2, <1>4, <2>1, ComingIs
  <2> QED BY <1>1, <1>4, <1>7, <2>2 DEF n
<1>13. Stream(c)' \subseteq Stream(b)
  <2>1. ASSUME NEW x \in AnswersAt(Incoming', c) PROVE FALSE
    <3>1. PICK p \in Requests : <<x[1], Half(p, 1)>> \in Incoming' /\ x[1] > c
      BY <2>1, AnswersAtIs
    <3> QED BY <1>12, <3>1
  <2> QED BY <1>1, <2>1 DEF Stream
<1>14. SoundFrom(c)'
  <2>1. /\ Sound(Stream(b), asked, mayPush, odd)
        /\ connected /\ subscribed => PushesSound(Stream(b), asked, mayPush)
    BY <1>5 DEF SoundFrom
  <2>2. /\ Sound(Stream(c)', asked, mayPush, odd)
        /\ connected /\ subscribed => PushesSound(Stream(c)', asked, mayPush)
    BY <1>13, <2>1, PartIsSound
  <2>3. Alternate(Incoming', c)
    BY <1>12 DEF Alternate
  <2> QED BY <1>1, <2>2, <2>3 DEF SoundFrom
<1>15. HostInv' /\ HostRefinement
  BY <1>1, <1>2, <1>11, <1>14, DeviceStep DEF SessionInv
<1>16. SessionTypes' /\ NobodyThere'
  BY <1>1 DEF SessionInv, SessionTypes, NobodyThere
<1> QED BY <1>15, <1>16 DEF SessionInv

LEMMA SessionAsks ==
  ASSUME BringUpInv, TrackInv, SessionInv, NEW kind \in Kinds, HostAsks(kind)
  PROVE  SessionInv' /\ HostRefinement
<1> DEFINE r == [id |-> CHOOSE i \in Fresh : TRUE, kind |-> kind]
           i1 == [said |-> "data", data |-> Half(r, 1)]
           a == asked
           c == Append(asked, r)
<1>1. /\ stream /\ central /\ tail = Nothing /\ Fresh # {} /\ asked' = c /\ line' = Append(line, i1)
      /\ tail' = Half(r, 2) /\ mayPush' = (mayPush \/ kind = "subscribe")
      /\ UNCHANGED <<central, stream, mod, deviceVars, s_connected, pc, odd, heard>>
  BY DEF TrackInv, HostAsks, Receives, modVars, drvVars, rxVars, apiVars, txVars, deviceVars, Half
<1>2. UNCHANGED <<out, part, s_tx, air, connected, s_was_connected, subscribed>>
  BY <1>1 DEF deviceVars
<1>3. r \in Requests /\ IsNew(r, a) /\ r.kind = kind /\ kind \in Kind
  <2>1. (CHOOSE i \in Fresh : TRUE) \in Fresh
    BY <1>1
  <2>2. r.id \in Ids /\ \A k \in DOMAIN a : a[k].id # r.id
    BY <2>1 DEF Fresh
  <2>3. kind \in Kind
    BY BleAssumption
  <2> QED BY <2>2, <2>3 DEF Requests, IsNew
<1>4. /\ Half(r, 1) \in Halves /\ Half(r, 2) \in Halves /\ Half(r, 2) # Nothing
      /\ i1 \in Items /\ i1.data = Half(r, 1) /\ ~IsToken(i1)
      /\ \A q \in Requests : Half(q, 1) # Half(r, 2) /\ (Half(q, 1) = Half(r, 1) => q = r)
  <2>1. Half(r, 1) \in Halves /\ Half(r, 2) \in Halves
        /\ Half(r, 1).of = r /\ Half(r, 2).half = 2
    BY <1>3, HalfIs
  <2>2. \A q \in Requests : Half(q, 1).of = q /\ Half(q, 1).half = 1
    BY HalfIs
  <2>3. Half(r, 2) # Nothing
    BY <2>1, NothingAssumption
  <2>4. i1 \in Items /\ i1.data = Half(r, 1) /\ ~IsToken(i1)
    BY <2>1, ItemIs
  <2> HIDE DEF r, i1
  <2>5. ASSUME NEW q \in Requests
        PROVE  Half(q, 1) # Half(r, 2) /\ (Half(q, 1) = Half(r, 1) => q = r)
    BY <2>1, <2>2
  <2> QED BY <2>1, <2>3, <2>4, <2>5
<1> HIDE DEF r, i1
<1>5. /\ a \in Seq(Requests) /\ mayPush \in BOOLEAN /\ odd \in BOOLEAN
      /\ out \in Seq(Halves) /\ line \in Seq(Items) /\ s_tx \in Seq(Frames)
      /\ Distinct(a) /\ (Wanted(a) => mayPush)
  BY <1>1 DEF SessionInv, SessionTypes, HostInv, BringUpInv, LineTypes
<1>6. PICK b \in Int : BeginsAt(b) /\ SoundFrom(b)
  BY <1>1 DEF SessionInv, HostInv
<1>7. PICK p \in Int : p = Len(out) + Len(line) + 1 /\ b < p /\ p >= 0 /\ p + 1 = Len(out) + Len(line) + 2
  <2>1. b <= Len(out) + Len(line) /\ Len(out) \in Nat /\ Len(line) \in Nat
    BY <1>6, BeginsWithin
  <2> QED BY <2>1
<1>8. \A x : x \in Incoming' <=>
               x \in Incoming \/ x = <<p, Half(r, 1)>> \/ x = <<p + 1, Half(r, 2)>>
  <2> TAKE x
  <2>1. x \in Coming(part, out, Append(line, i1), Half(r, 2)) <=>
           \/ x \in Coming(part, out, line, Nothing)
           \/ x = <<Len(out) + Len(line) + 1, i1.data>>
           \/ Half(r, 2) # Nothing /\ x = <<Len(out) + Len(line) + 2, Half(r, 2)>>
    <3>1. Half(r, 2) \in Halves \cup {Nothing} /\ i1 \in Items
      BY <1>4
    <3>2. out \in Seq(Halves) /\ line \in Seq(Items)
      BY <1>5
    <3>3. ASSUME NEW h \in Halves \cup {Nothing}
          PROVE  x \in Coming(part, out, Append(line, i1), h) <=>
                   \/ x \in Coming(part, out, line, Nothing)
                   \/ x = <<Len(out) + Len(line) + 1, i1.data>>
                   \/ h # Nothing /\ x = <<Len(out) + Len(line) + 2, h>>
      BY <3>1, <3>2, ComingMore
    <3> QED BY <3>1, <3>3
  <2> QED BY <1>1, <1>2, <1>4, <1>7, <2>1 DEF Incoming
<1>9. \A x \in Incoming : x[1] \in Int /\ x[1] < p
  <2> TAKE x \in Incoming
  <2>1. x \in Coming(part, out, line, Nothing)
    BY <1>1 DEF Incoming
  <2>2. x[1] \in Int /\ x[1] <= Len(out) + Len(line)
    BY ONLY <1>5, <2>1, ComingIs
  <2> QED BY <1>5, <1>7, <2>2
<1>10. \A x \in Stream(b) : x[1] \in Int /\ x[1] < p
  <2> TAKE x \in Stream(b)
  <2>1. CASE x \in FramesAt(s_tx, air)
    BY <1>5, <1>7, <2>1, FramesAtIs
  <2>2. CASE x \in AnswersAt(Incoming, b)
    <3>1. PICK q \in Requests : <<x[1], Half(q, 1)>> \in Incoming
      BY <2>2, AnswersAtIs
    <3> QED BY <1>9, <3>1
  <2> QED BY <2>1, <2>2 DEF Stream
<1>11. \A x \in Stream(b)' : x \in Stream(b) \/ \E ok \in BOOLEAN : x = <<p, Ans(r, ok)>>
  <2> TAKE x \in Stream(b)'
  <2>1. x \in FramesAt(s_tx, air) \/ x \in AnswersAt(Incoming', b)
    BY <1>2 DEF Stream
  <2>2. CASE x \in AnswersAt(Incoming', b)
    <3>1. x = <<x[1], x[2]>> /\ x[1] \in Int /\ x[1] > b /\ x[2] \in Frames
      BY <2>2, AnswersAtIs
    <3>2. PICK q \in Requests : /\ <<x[1], Half(q, 1)>> \in Incoming'
                                /\ x[2] \in {Ans(q, TRUE), Ans(q, FALSE)}
      BY <2>2, AnswersAtIs
    <3>3. CASE <<x[1], Half(q, 1)>> \in Incoming
      <4>1. x \in AnswersAt(Incoming, b)
        BY <3>1, <3>2, <3>3 DEF AnswersAt
      <4> QED BY <4>1 DEF Stream
    <3>4. CASE x[1] = p /\ q = r
      BY <3>1, <3>2, <3>4
    <3>5. <<x[1], Half(q, 1)>> \in Incoming \/ <<x[1], Half(q, 1)>> = <<p, Half(r, 1)>>
            \/ <<x[1], Half(q, 1)>> = <<p + 1, Half(r, 2)>>
      BY <1>8, <3>2
    <3>6. <<x[1], Half(q, 1)>> \in Incoming \/ (x[1] = p /\ q = r)
      BY <1>4, <3>5
    <3> QED BY <3>3, <3>4, <3>6
  <2> QED BY <2>1, <2>2 DEF Stream
<1>12. /\ mayPush' \in BOOLEAN /\ (mayPush => mayPush') /\ Sound(Stream(b), a, mayPush, odd)
       /\ odd' = odd
  BY <1>1, <1>5, <1>6 DEF SoundFrom
<1>13. c \in Seq(Requests) /\ Distinct(c) /\ (Wanted(c) => mayPush')
  <2>1. /\ c \in Seq(Requests) /\ Len(a) \in Nat /\ DOMAIN a = 1 .. Len(a)
        /\ DOMAIN c = 1 .. Len(a) + 1 /\ \A k \in 1 .. Len(a) : c[k] = a[k]
        /\ c[Len(a) + 1] = r
    BY <1>3, <1>5, AppendIs
  <2>2. Distinct(c)
    BY <1>3, <1>5, AskedIsDistinct
  <2> HIDE DEF c
  <2>3. ASSUME NEW k \in DOMAIN c, c[k].kind = "subscribe" PROVE mayPush'
    <3>1. CASE k = Len(a) + 1
      BY <1>1, <1>3, <2>1, <2>3, <3>1
    <3>2. CASE k \in 1 .. Len(a)
      BY <1>5, <1>12, <2>1, <2>3, <3>2 DEF Wanted
    <3> QED BY <2>1, <3>1, <3>2
  <2> QED BY <2>1, <2>2, <2>3 DEF Wanted
<1>14. ASSUME NEW x \in Stream(b)
       PROVE  Expected(x[2], a, mayPush, odd) /\ Expected(x[2], c, mayPush', odd)
  <2>1. Expected(x[2], a, mayPush, odd)
    BY <1>12 DEF Sound
  <2> QED BY <1>3, <1>5, <1>12, <2>1, AskedStaysExpected
<1>15. ASSUME NEW ok \in BOOLEAN PROVE Expected(Ans(r, ok), c, mayPush', odd)
  <2>1. Ans(r, ok).to = r /\ Ans(r, ok) # PushFrame /\ r # Noise
    BY <1>3, FrameIs
  <2>2. Len(a) + 1 \in DOMAIN c /\ c[Len(a) + 1] = r
    BY <1>3, <1>5, AppendIs
  <2> HIDE DEF c
  <2> QED BY <2>1, <2>2 DEF Expected
<1>16. \A x \in Stream(b)' : Expected(x[2], c, mayPush', odd)
  BY <1>11, <1>14, <1>15
<1>17. ASSUME NEW x \in Stream(b)', NEW y \in Stream(b)', x[1] < y[1]
       PROVE  InOrder(x[2], y[2], c)
  <2>1. x \in Stream(b)
    <3>1. x[1] = p => ~(x[1] < y[1])
      BY <1>10, <1>11
    <3> QED BY <1>11, <1>17, <3>1
  <2>2. Expected(x[2], a, mayPush, odd)
    BY <1>14, <2>1
  <2>3. CASE y \in Stream(b)
    <3>1. InOrder(x[2], y[2], a) /\ Expected(y[2], a, mayPush, odd)
      BY <1>12, <1>17, <2>1, <2>3 DEF Sound
    <3> QED BY ONLY <1>3, <1>5, <2>2, <3>1, AskedStaysInOrder, Zenon
  <2>4. ASSUME NEW ok \in BOOLEAN, y = <<p, Ans(r, ok)>> PROVE InOrder(x[2], y[2], c)
    <3>1. InOrder(x[2], Ans(r, ok), c)
      BY ONLY <1>3, <1>5, <2>2, ok \in BOOLEAN, NewComesLast, Zenon
    <3> QED BY <2>4, <3>1
  <2> QED BY <1>11, <2>3, <2>4
<1>18. Sound(Stream(b)', c, mayPush', odd)
  BY <1>16, <1>17 DEF Sound
<1>19. ASSUME connected, subscribed PROVE PushesSound(Stream(b)', c, mayPush')
  <2>1. PushesSound(Stream(b), a, mayPush)
    BY <1>6, <1>19 DEF SoundFrom
  <2>2. mayPush'
    BY <1>12, <2>1 DEF PushesSound
  <2>3. ASSUME NEW x \in Stream(b)', x[1] < 0 PROVE InOrder(x[2], PushFrame, c)
    <3>1. x \in Stream(b)
      <4>1. ~(p < 0)
        BY <1>7
      <4> QED BY <1>11, <2>3, <4>1
    <3>2. InOrder(x[2], PushFrame, a) /\ Expected(x[2], a, mayPush, odd)
      BY <1>14, <2>1, <2>3, <3>1 DEF PushesSound
    <3>3. Expected(PushFrame, a, TRUE, TRUE)
      BY FrameIs DEF Expected
    <3> QED BY ONLY <1>3, <1>5, <3>2, <3>3, AskedStaysInOrder, Zenon
  <2> QED BY <2>2, <2>3 DEF PushesSound
<1>20. ASSUME ~odd PROVE Alternate(Incoming', b)
  <2>1. Alternate(Incoming, b)
    BY <1>6, <1>20 DEF SoundFrom
  <2>2. <<p, Half(r, 1)>> \in Incoming' /\ <<p + 1, Half(r, 2)>> \in Incoming'
        /\ Incoming \subseteq Incoming'
    BY <1>8
  <2>3. (p + 1) - 1 = p /\ p > b
    BY <1>7
  <2> SUFFICES ASSUME NEW x \in Incoming', x[1] > b
               PROVE  \E q \in Requests :
                        \/ x[2] = Half(q, 1) /\ <<x[1] + 1, Half(q, 2)>> \in Incoming'
                        \/ /\ x[2] = Half(q, 2) /\ x[1] - 1 > b
                           /\ <<x[1] - 1, Half(q, 1)>> \in Incoming'
    BY DEF Alternate
  <2>4. CASE x \in Incoming
    BY <2>1, <2>2, <2>4 DEF Alternate
  <2>5. CASE x = <<p, Half(r, 1)>>
    BY <1>3, <2>2, <2>5
  <2>6. CASE x = <<p + 1, Half(r, 2)>>
    BY <1>3, <2>2, <2>3, <2>6
  <2> QED BY <1>8, <2>4, <2>5, <2>6
<1>21. BeginsAt(b)'
  BY <1>1, <1>2, <1>4, <1>6, BeginsStill
<1>22. SoundFrom(b)'
  BY <1>1, <1>2, <1>12, <1>18, <1>19, <1>20 DEF SoundFrom
<1>23. HostInv'
  BY <1>1, <1>13, <1>21, <1>22 DEF HostInv
<1>24. HostRefinement
  <2>1. r.kind # "over"
    BY <1>3 DEF Kind
  <2>2. Host!Ask(r)
    BY <1>1, <1>3, <2>1 DEF Host!Ask, IsNew
  <2> QED BY <1>3, <2>2 DEF HostRefinement, Host!Next
<1>25. SessionTypes'
  BY <1>1, <1>2, <1>3, <1>12, <1>13 DEF SessionInv, SessionTypes
<1>26. NobodyThere'
  BY <1>1, <1>2 DEF SessionInv, NobodyThere
<1> QED BY <1>23, <1>24, <1>25, <1>26 DEF SessionInv

LEMMA SessionLoses ==
  ASSUME BringUpInv, TrackInv, SessionInv, RequestIsLost PROVE SessionInv' /\ HostRefinement
<1>1. /\ asked # <<>> /\ ~InDevice(Head(asked).id) /\ asked' = Tail(asked)
      /\ UNCHANGED <<central, stream, mod, line, deviceVars, s_connected, pc, tail, odd, mayPush, heard>>
  BY DEF RequestIsLost, modVars, drvVars, rxVars, apiVars, txVars, deviceVars
<1>2. UNCHANGED <<out, part, s_tx, air, connected, s_was_connected, subscribed>>
  BY <1>1 DEF deviceVars
<1>3. central /\ stream
  BY <1>1 DEF SessionInv, NobodyThere
<1>4. /\ asked \in Seq(Requests) /\ mayPush \in BOOLEAN /\ odd \in BOOLEAN
      /\ Distinct(asked) /\ (Wanted(asked) => mayPush) /\ s_tx \in Seq(Frames)
      /\ air \in Frames \cup {Nothing}
      /\ tail \in {Half(p, 2) : p \in Requests} \cup {Nothing}
  BY <1>3 DEF SessionInv, SessionTypes, HostInv
<1>5. /\ CutTo(asked, 1, Tail(asked)) /\ Tail(asked) \in Seq(Requests)
      /\ 1 \in DOMAIN asked /\ asked[1] = Head(asked)
  BY <1>1, <1>4 DEF CutTo
<1>6. PICK b \in Int : BeginsAt(b) /\ SoundFrom(b)
  BY <1>3 DEF SessionInv, HostInv
<1>7. Incoming' = Incoming /\ Stream(b)' = Stream(b) /\ BeginsAt(b)'
  BY <1>1, <1>2, <1>6 DEF Incoming, Stream, BeginsAt, OpenAhead, AtOpen, NoStream
<1>8. ASSUME NEW x \in Stream(b), AnswersRequest(x[2]) PROVE x[2].to # asked[1]
  <2>1. InDevice(x[2].to.id)
    <3>1. CASE x \in FramesAt(s_tx, air)
      <4>1. (air # Nothing /\ x[2] = air) \/ \E k \in DOMAIN s_tx : x[2] = s_tx[k]
        BY <3>1 DEF FramesAt
      <4> QED BY <4>1 DEF InDevice
    <3>2. CASE x \in AnswersAt(Incoming, b)
      <4>1. PICK p \in Requests : /\ <<x[1], Half(p, 1)>> \in Incoming
                                  /\ x[2] \in {Ans(p, TRUE), Ans(p, FALSE)}
        BY <3>2, AnswersAtIs
      <4>2. x[2].to = p /\ Half(p, 1).of = p /\ Half(p, 1).half = 1
        <5>1. Half(p, 1).of = p /\ Half(p, 1).half = 1
          BY DEF Half
        <5>2. Ans(p, TRUE).to = p /\ Ans(p, FALSE).to = p
          BY DEF Ans
        <5> QED BY <4>1, <5>1, <5>2
      <4>3. \/ part # Nothing /\ part = Half(p, 1)
            \/ \E k \in DOMAIN out : out[k] = Half(p, 1)
            \/ \E k \in DOMAIN line : line[k].data = Half(p, 1)
            \/ tail # Nothing
        BY <4>1 DEF Incoming, Coming
      <4> QED BY <4>2, <4>3 DEF InDevice
    <3> QED BY <3>1, <3>2 DEF Stream
  <2> QED BY <1>1, <1>5, <2>1
<1>9. \A x \in Stream(b) : AnswersRequest(x[2]) => \A k \in DOMAIN asked : asked[k] = x[2].to => k > 1
  <2> SUFFICES ASSUME NEW x \in Stream(b), AnswersRequest(x[2]), NEW k \in DOMAIN asked,
                      asked[k] = x[2].to
               PROVE  k > 1
    OBVIOUS
  <2>1. k # 1
    BY <1>8
  <2>2. k \in Nat /\ k >= 1
    BY <1>4
  <2> QED BY <2>1, <2>2
<1>10. Sound(Stream(b), asked, mayPush, odd)
  BY <1>6 DEF SoundFrom
<1>11. \A x \in Stream(b) : x[2] = PushFrame => mayPush
  BY <1>10 DEF Sound, Expected
<1>12. /\ Sound(Stream(b), Tail(asked), mayPush, odd)
       /\ PushesSound(Stream(b), asked, mayPush) => PushesSound(Stream(b), Tail(asked), mayPush)
  <2>1. PushesSound(Stream(b), asked, mayPush) => mayPush
    BY DEF PushesSound
  <2> QED BY <1>4, <1>5, <1>9, <1>10, <1>11, <2>1, CutIsSound
<1>13. Distinct(Tail(asked)) /\ (Wanted(Tail(asked)) => Wanted(asked))
  BY <1>4, <1>5, CutDistinct
<1>14. SoundFrom(b)'
  BY <1>1, <1>2, <1>6, <1>7, <1>12 DEF SoundFrom
<1>15. HostInv'
  BY <1>1, <1>4, <1>7, <1>13, <1>14 DEF HostInv
<1>16. HostRefinement
  <2>1. Host!Lose
    BY <1>1 DEF Host!Lose
  <2> QED BY <2>1 DEF HostRefinement, Host!Next
<1>17. SessionTypes' /\ NobodyThere'
  BY <1>1, <1>2, <1>3, <1>5 DEF SessionInv, SessionTypes, NobodyThere
<1> QED BY <1>15, <1>16, <1>17 DEF SessionInv

(* What the host hears.                                                    *)
LEMMA SessionHears ==
  ASSUME BringUpInv, TrackInv, SessionInv, HostReads, stream
  PROVE  HostInv' /\ HostRefinement /\ asked' \in Seq(Requests) /\ mayPush' \in BOOLEAN
<1> DEFINE f == air
           k == IF \E j \in DOMAIN asked : asked[j] = f.to
                THEN CHOOSE j \in DOMAIN asked : asked[j] = f.to ELSE 0
<1>1. /\ air # Nothing /\ air' = Nothing
      /\ UNCHANGED <<central, stream, mod, line, s_connected, out, part, connected, subscribed>>
      /\ UNCHANGED <<s_tx, pc, tail, odd>>
  BY DEF HostReads, modVars, drvVars, rxVars, apiVars
<1>0. central
  BY DEF TrackInv
<1>2. HostHears(f)
  <2>1. mod = "data"
    BY <1>0 DEF TrackInv
  <2> QED BY <2>1 DEF HostReads
<1>3. /\ asked \in Seq(Requests) /\ mayPush \in BOOLEAN /\ odd \in BOOLEAN /\ f \in Frames
      /\ s_tx \in Seq(Frames) /\ Distinct(asked) /\ (Wanted(asked) => mayPush)
  BY <1>0, <1>1 DEF SessionInv, SessionTypes, HostInv
<1>4. PICK b \in Int : BeginsAt(b) /\ SoundFrom(b)
  BY <1>0 DEF SessionInv, HostInv
<1>5. connected /\ b >= -1 /\ Sound(Stream(b), asked, mayPush, odd)
  BY <1>1, <1>4 DEF BeginsAt, SoundFrom
<1>6. PICK c \in Int : c = -Len(s_tx) - 1 /\ c < 0
  BY <1>3, FirstFrame
<1>7. /\ <<c, f>> \in FramesAt(s_tx, air) /\ FramesAt(s_tx, Nothing) \subseteq FramesAt(s_tx, air)
      /\ \A x \in FramesAt(s_tx, Nothing) : c < x[1]
  BY <1>3, <1>6, FirstFrame
<1>8. Stream(b)' = FramesAt(s_tx, Nothing) \cup AnswersAt(Incoming, b)
  BY <1>1 DEF Stream, Incoming
<1>9. Stream(b)' \subseteq Stream(b) /\ <<c, f>> \in Stream(b)
  BY <1>7, <1>8 DEF Stream
<1>10. \A x \in Stream(b)' : c < x[1]
  <2>1. ASSUME NEW x \in AnswersAt(Incoming, b) PROVE c < x[1]
    <3>1. x[1] \in Int /\ x[1] > b
      BY AnswersAtIs
    <3> QED BY <1>5, <1>6, <3>1
  <2> QED BY <1>7, <1>8, <2>1
<1>11. /\ Expected(f, asked, mayPush, odd)
       /\ \A x \in Stream(b)' : InOrder(f, x[2], asked)
  <2>1. Expected(<<c, f>>[2], asked, mayPush, odd)
    BY <1>5, <1>9 DEF Sound
  <2>2. \A x \in Stream(b)' : InOrder(<<c, f>>[2], x[2], asked)
    <3> TAKE x \in Stream(b)'
    <3>1. <<c, f>>[1] < x[1]
      BY <1>10
    <3> QED BY <1>5, <1>9, <3>1 DEF Sound
  <2> QED BY <2>1, <2>2
<1>12. BeginsAt(b)' /\ (~odd => Alternate(Incoming, b)') /\ odd' = odd
       /\ central' /\ connected' = connected /\ subscribed' = subscribed
  BY <1>0, <1>1, <1>4 DEF BeginsAt, OpenAhead, AtOpen, NoStream, SoundFrom, Incoming
<1>13. Host!Next => HostRefinement
  BY DEF HostRefinement
<1>14. ASSUME /\ Sound(Stream(b)', asked', mayPush', odd) /\ Distinct(asked')
              /\ (Wanted(asked') => mayPush')
              /\ connected /\ subscribed => PushesSound(Stream(b)', asked', mayPush')
       PROVE  HostInv'
  <2>1. SoundFrom(b)'
    BY <1>12, <1>14 DEF SoundFrom
  <2> QED BY <1>12, <1>14, <2>1 DEF HostInv
<1>15. ASSUME asked' = asked, mayPush' = mayPush PROVE HostInv'
  <2>1. Sound(Stream(b)', asked, mayPush, odd)
    BY <1>5, <1>9, PartIsSound
  <2>2. connected /\ subscribed => PushesSound(Stream(b)', asked, mayPush)
    BY <1>4, <1>9, PartIsSound DEF SoundFrom
  <2> QED BY <1>3, <1>14, <1>15, <2>1, <2>2
<1> HIDE DEF f
<1>16. CASE f.what = "push"
  <2>1. heard' = "push" /\ asked' = asked /\ mayPush' = mayPush
    BY <1>2, <1>16 DEF HostHears
  <2>2. f = PushFrame
    BY <1>3, <1>16, FrameIs
  <2>3. mayPush
    BY <1>11, <2>2 DEF Expected
  <2>4. Host!HearPush
    BY <1>0, <1>1, <2>1, <2>3 DEF Host!HearPush
  <2> QED BY <1>3, <1>13, <1>15, <2>1, <2>4 DEF Host!Next
<1>17. CASE f.what # "push" /\ f.to = Noise
  <2>1. heard' = "noise" /\ asked' = asked /\ mayPush' = mayPush
    BY <1>2, <1>17 DEF HostHears
  <2>2. f.what = "answer"
    BY <1>3, <1>17, FrameIs
  <2>3. odd
    BY <1>11, <1>17, <2>2 DEF Expected
  <2>4. Host!HearNoise
    BY <1>0, <1>1, <2>1, <2>3 DEF Host!HearNoise
  <2> QED BY <1>3, <1>13, <1>15, <2>1, <2>4 DEF Host!Next
<1>18. CASE f.what # "push" /\ f.to # Noise
  <2>1. AnswersRequest(f) /\ f.to \in Requests /\ f.ok \in BOOLEAN
    <3>1. f # PushFrame
      BY <1>18, FrameIs
    <3> QED BY <1>3, <1>18, <3>1, FrameIs DEF AnswersRequest
  <2>2. k \in DOMAIN asked /\ asked[k] = f.to
    BY <1>11, <2>1 DEF Expected
  <2>3. k \in Nat /\ k > 0 /\ k <= Len(asked) /\ Len(asked) \in Nat
    BY <1>3, <2>2
  <2>4. /\ heard' = (IF f.ok THEN "answer" ELSE "refusal")
        /\ asked' = SubSeq(asked, k + 1, Len(asked))
        /\ mayPush' = (IF f.to.kind # "unsubscribe" \/ ~f.ok THEN mayPush
                       ELSE \E j \in DOMAIN asked' : asked'[j].kind = "subscribe")
    <3>1. k # 0
      BY <2>3
    <3> QED BY <1>2, <1>18, <3>1, Zenon DEF HostHears
  <2> HIDE DEF k
  <2>5. CutTo(asked, k, asked') /\ asked' \in Seq(Requests)
    BY <1>3, <2>3, <2>4 DEF CutTo
  <2>6. mayPush' = IF f.to.kind = "unsubscribe" /\ f.ok THEN Wanted(asked') ELSE mayPush
    BY <2>1, <2>4 DEF Wanted
  <2>7. mayPush' \in BOOLEAN
    BY <1>3, <2>6 DEF Wanted
  <2>8. HostRefinement
    <3>1. CASE f.ok
      <4>1. Host!HearAnswer(k)
        BY <1>0, <1>1, <2>2, <2>4, <3>1 DEF Host!HearAnswer
      <4> QED BY <1>13, <2>2, <4>1 DEF Host!Next
    <3>2. CASE ~f.ok
      <4>1. Host!HearRefusal(k)
        BY <1>0, <1>1, <2>2, <2>4, <3>2 DEF Host!HearRefusal
      <4> QED BY <1>13, <2>2, <4>1 DEF Host!Next
    <3> QED BY <3>1, <3>2
  <2>9. ASSUME NEW g, InOrder(f, g, asked), AnswersRequest(g), NEW l \in DOMAIN asked,
               asked[l] = g.to
        PROVE  l > k
    BY <2>1, <2>2, <2>3, <2>9, <1>3 DEF InOrder, Before
  <2>10. InOrder(f, PushFrame, asked) /\ f.to.kind = "unsubscribe" /\ f.ok => Wanted(asked')
    <3> SUFFICES ASSUME InOrder(f, PushFrame, asked), f.to.kind = "unsubscribe", f.ok
                 PROVE  Wanted(asked')
      OBVIOUS
    <3>1. SubscribedAfter(f.to, asked)
      BY <2>1 DEF InOrder
    <3>2. PICK l \in DOMAIN asked : k < l /\ asked[l].kind = "subscribe"
      BY <2>2, <3>1 DEF SubscribedAfter
    <3>3. /\ l - k \in 1 .. Len(asked') /\ (l - k) + k = l
          /\ DOMAIN asked' = 1 .. Len(asked')
      BY <1>3, <2>3, <2>5, <3>2 DEF CutTo
    <3>4. asked'[l - k] = asked[l]
      BY <2>5, <3>3 DEF CutTo
    <3> QED BY <3>2, <3>3, <3>4 DEF Wanted
  <2>11. ASSUME NEW x \in Stream(b)'
         PROVE  /\ AnswersRequest(x[2]) =>
                     \A l \in DOMAIN asked : asked[l] = x[2].to => l > k
                /\ x[2] = PushFrame => mayPush'
    <3>1. InOrder(f, x[2], asked)
      BY <1>11
    <3>2. x[2] = PushFrame => mayPush
      BY <1>5, <1>9 DEF Sound, Expected
    <3> QED BY <2>6, <2>9, <2>10, <3>1, <3>2
  <2>12. /\ Sound(Stream(b)', asked', mayPush', odd)
         /\ PushesSound(Stream(b), asked, mayPush) /\ mayPush'
              => PushesSound(Stream(b)', asked', mayPush')
    BY <1>3, <1>5, <1>9, <2>5, <2>7, <2>11, CutIsSound
  <2>13. ASSUME connected, subscribed PROVE PushesSound(Stream(b)', asked', mayPush')
    <3>1. PushesSound(Stream(b), asked, mayPush)
      BY <1>4, <2>13 DEF SoundFrom
    <3>2. mayPush'
      <4>1. InOrder(<<c, f>>[2], PushFrame, asked) /\ mayPush
        BY <1>6, <1>9, <3>1 DEF PushesSound
      <4> QED BY <2>6, <2>10, <4>1
    <3> QED BY <2>12, <3>1, <3>2
  <2>14. Distinct(asked') /\ (Wanted(asked') => mayPush')
    BY <1>3, <2>5, <2>6, CutDistinct
  <2>15. HostInv'
    BY <1>14, <2>12, <2>13, <2>14
  <2> QED BY <2>5, <2>7, <2>8, <2>15
<1> QED BY <1>16, <1>17, <1>18

(* The link is up, the stream is not open: nobody hears the frame.         *)
LEMMA NobodyHears ==
  ASSUME BringUpInv, TrackInv, SessionInv, HostReads, central, ~stream
  PROVE  HostInv' /\ HostRefinement
<1>1. /\ air # Nothing /\ air' = Nothing
      /\ UNCHANGED <<central, stream, line, s_connected, out, part, connected, subscribed>>
      /\ UNCHANGED <<s_tx, pc, tail, odd, asked, mayPush, heard>>
  BY DEF HostReads, modVars, drvVars, rxVars, apiVars
<1>2. air \in Frames /\ s_tx \in Seq(Frames) /\ odd \in BOOLEAN
  BY <1>1 DEF SessionInv, SessionTypes
<1>3. PICK b \in Int : BeginsAt(b) /\ SoundFrom(b)
  BY DEF SessionInv, HostInv
<1>4. BeginsAt(b)'
  BY <1>1, <1>3 DEF BeginsAt, OpenAhead, AtOpen, NoStream
<1>5. Stream(b)' \subseteq Stream(b)
  <2>1. FramesAt(s_tx, Nothing) \subseteq FramesAt(s_tx, air)
    BY <1>2, FirstFrame
  <2> QED BY <1>1, <2>1 DEF Stream, Incoming
<1>6. SoundFrom(b)'
  <2>1. /\ Sound(Stream(b), asked, mayPush, odd) /\ (~odd => Alternate(Incoming, b))
        /\ connected /\ subscribed => PushesSound(Stream(b), asked, mayPush)
    BY <1>3 DEF SoundFrom
  <2>2. /\ Sound(Stream(b)', asked, mayPush, odd)
        /\ connected /\ subscribed => PushesSound(Stream(b)', asked, mayPush)
    BY <1>5, <2>1, PartIsSound
  <2> QED BY <1>1, <2>1, <2>2 DEF SoundFrom, Incoming
<1> QED BY <1>1, <1>2, <1>4, <1>6, DeviceStep DEF SessionInv

LEMMA SessionReads ==
  ASSUME BringUpInv, TrackInv, SessionInv, HostReads PROVE SessionInv' /\ HostRefinement
<1>1. /\ air' = Nothing
      /\ UNCHANGED <<central, stream, mod, line, s_connected, out, part, connected, subscribed>>
      /\ UNCHANGED <<s_tx, pc, tail, odd, s_was_connected>>
  BY DEF HostReads, modVars, drvVars, rxVars, apiVars
<1>2. CASE central
  <2>1. HostInv' /\ HostRefinement /\ asked' \in Seq(Requests) /\ mayPush' \in BOOLEAN
        /\ (~stream => UNCHANGED <<asked, mayPush, heard>>)
    <3>1. CASE stream
      BY <3>1, SessionHears
    <3>2. CASE ~stream
      <4>1. UNCHANGED <<asked, mayPush, heard>>
        BY <3>2 DEF HostReads
      <4> QED BY <1>2, <3>2, <4>1, NobodyHears DEF SessionInv, SessionTypes
    <3> QED BY <3>1, <3>2
  <2>2. SessionTypes'
    BY <1>1, <2>1 DEF SessionInv, SessionTypes
  <2>3. NobodyThere'
    BY <1>1, <1>2, <2>1 DEF SessionInv, NobodyThere
  <2> QED BY <2>1, <2>2, <2>3 DEF SessionInv
<1>3. CASE ~central
  <2>1. central = FALSE /\ UNCHANGED <<asked, mayPush, heard>>
    BY <1>3 DEF TrackInv, HostReads
  <2>2. HostInv' /\ HostRefinement
    BY <1>1, <2>1, OutsideStep
  <2>3. SessionTypes'
    BY <1>1, <2>1 DEF SessionInv, SessionTypes
  <2>4. NobodyThere'
    BY <1>1, <2>1 DEF SessionInv, NobodyThere, Stale
  <2> QED BY <2>2, <2>3, <2>4 DEF SessionInv
<1> QED BY <1>2, <1>3

(* Something to push.                                                      *)
LEMMA PushIsSound ==
  ASSUME NEW S, NEW T, NEW a, NEW mp, NEW o, Sound(S, a, mp, o), PushesSound(S, a, mp),
         \A x \in T : \/ x = <<-1, PushFrame>>
                      \/ x[1] \in Int /\ x[1] < -1 /\ <<x[1] + 1, x[2]>> \in S
                      \/ x[1] \in Int /\ x[1] > -1 /\ <<x[1], x[2]>> \in S
  PROVE  Sound(T, a, mp, o) /\ PushesSound(T, a, mp)
<1>1. ~AnswersRequest(PushFrame) /\ PushFrame.what = "push" /\ mp
  BY FrameIs DEF PushesSound
<1>2. \A g : InOrder(PushFrame, g, a)
  BY <1>1 DEF InOrder
<1>3. \A x \in T : Expected(x[2], a, mp, o)
  <2> TAKE x \in T
  <2>1. CASE x = <<-1, PushFrame>>
    BY <1>1, <2>1 DEF Expected
  <2>2. ASSUME NEW i \in Int, <<i, x[2]>> \in S PROVE Expected(x[2], a, mp, o)
    <3>1. Expected(<<i, x[2]>>[2], a, mp, o)
      BY <2>2 DEF Sound
    <3> QED BY <3>1
  <2>3. x[1] \in Int => x[1] + 1 \in Int
    OBVIOUS
  <2> QED BY <2>1, <2>2, <2>3
<1>4. \A x \in T : x[1] < 0 => InOrder(x[2], PushFrame, a)
  <2> SUFFICES ASSUME NEW x \in T, x[1] < 0 PROVE InOrder(x[2], PushFrame, a)
    OBVIOUS
  <2>1. CASE x = <<-1, PushFrame>>
    BY <1>2, <2>1
  <2>2. CASE x[1] \in Int /\ x[1] < -1 /\ <<x[1] + 1, x[2]>> \in S
    <3>1. <<x[1] + 1, x[2]>>[1] < 0
      BY <2>2
    <3>2. InOrder(<<x[1] + 1, x[2]>>[2], PushFrame, a)
      BY <2>2, <3>1 DEF PushesSound
    <3> QED BY <3>2
  <2>3. CASE x[1] \in Int /\ x[1] > -1 /\ <<x[1], x[2]>> \in S
    BY <2>3
  <2> QED BY <2>1, <2>2, <2>3
<1>5. \A x, y \in T : x[1] < y[1] => InOrder(x[2], y[2], a)
  <2> SUFFICES ASSUME NEW x \in T, NEW y \in T, x[1] < y[1] PROVE InOrder(x[2], y[2], a)
    OBVIOUS
  <2>1. CASE x = <<-1, PushFrame>>
    BY <1>2, <2>1
  <2>2. CASE y = <<-1, PushFrame>>
    <3>1. CASE x # <<-1, PushFrame>>
      <4>1. x[1] \in Int
        BY <3>1
      <4>2. x[1] < 0
        BY <2>2, <4>1
      <4> QED BY <1>4, <2>2, <4>2
    <3> QED BY <2>1, <3>1
  <2>3. ASSUME NEW i \in Int, NEW j \in Int, i < j, <<i, x[2]>> \in S, <<j, y[2]>> \in S
        PROVE  InOrder(x[2], y[2], a)
    <3>1. <<i, x[2]>>[1] < <<j, y[2]>>[1]
      BY <2>3
    <3>2. InOrder(<<i, x[2]>>[2], <<j, y[2]>>[2], a)
      BY <2>3, <3>1 DEF Sound
    <3> QED BY <3>2
  <2>4. CASE x # <<-1, PushFrame>> /\ y # <<-1, PushFrame>>
    <3>1. x[1] \in Int /\ y[1] \in Int
      BY <2>4
    <3>2. CASE x[1] < -1 /\ <<x[1] + 1, x[2]>> \in S
      <4>1. CASE y[1] < -1 /\ <<y[1] + 1, y[2]>> \in S
        <5>1. x[1] + 1 < y[1] + 1 /\ x[1] + 1 \in Int /\ y[1] + 1 \in Int
          BY <3>1
        <5> QED BY <2>3, <3>2, <4>1, <5>1
      <4>2. CASE y[1] > -1 /\ <<y[1], y[2]>> \in S
        <5>1. x[1] + 1 < y[1] /\ x[1] + 1 \in Int
          BY <3>1, <3>2, <4>2
        <5> QED BY <2>3, <3>1, <3>2, <4>2, <5>1
      <4> QED BY <2>4, <4>1, <4>2
    <3>3. CASE x[1] > -1 /\ <<x[1], x[2]>> \in S
      <4>1. y[1] > -1 /\ ~(y[1] < -1)
        BY <3>1, <3>3
      <4>2. <<y[1], y[2]>> \in S
        BY <2>4, <4>1
      <4> QED BY <2>3, <3>1, <3>3, <4>2
    <3> QED BY <2>4, <3>2, <3>3
  <2> QED BY <2>1, <2>2, <2>4
<1> QED BY <1>1, <1>3, <1>4, <1>5 DEF Sound, PushesSound

LEMMA SessionApiUpdate ==
  ASSUME BringUpInv, TrackInv, SessionInv, ApiUpdate PROVE SessionInv' /\ HostRefinement
<1>1. /\ pc = "idle" /\ connected /\ subscribed /\ Pump(Append(s_tx, PushFrame))
      /\ UNCHANGED <<central, stream, mod, line, s_connected, out, part, connected, subscribed>>
      /\ UNCHANGED <<pc, tail, odd, asked, mayPush, heard, s_was_connected>>
  BY DEF ApiUpdate, Send, modVars, drvVars, rxVars, apiVars, hostVars
<1>2. s_tx \in Seq(Frames) /\ air \in Frames \cup {Nothing} /\ PushFrame \in Frames
  BY FrameIs DEF SessionInv, SessionTypes
<1>3. /\ s_tx' \in Seq(Frames) /\ air' \in Frames \cup {Nothing}
      /\ FramesAt(s_tx', air') = FramesAt(Append(s_tx, PushFrame), air)
  <2>1. Append(s_tx, PushFrame) \in Seq(Frames)
    BY <1>2
  <2> QED BY <1>1, <1>2, <2>1, PumpIs
<1>4. SessionTypes'
  BY <1>1, <1>3 DEF SessionInv, SessionTypes
<1>5. NobodyThere'
  BY <1>1 DEF SessionInv, NobodyThere, Stale
<1>6. CASE central
  <2>1. PICK b \in Int : BeginsAt(b) /\ SoundFrom(b)
    BY <1>6 DEF SessionInv, HostInv
  <2>2. b >= -1 /\ s_connected /\ odd \in BOOLEAN
    BY <1>1, <2>1 DEF BeginsAt, SessionInv, SessionTypes
  <2>3. BeginsAt(b)'
    BY <1>1, <2>1, <2>2 DEF BeginsAt, AtOpen, NoStream
  <2>4. \A x \in Stream(b)' :
           \/ x = <<-1, PushFrame>>
           \/ x[1] \in Int /\ x[1] < -1 /\ <<x[1] + 1, x[2]>> \in Stream(b)
           \/ x[1] \in Int /\ x[1] > -1 /\ <<x[1], x[2]>> \in Stream(b)
    <3> TAKE x \in Stream(b)'
    <3>1. CASE x \in FramesAt(s_tx', air')
      <4>1. x \in FramesAt(Append(s_tx, PushFrame), air)
        BY <1>3, <3>1
      <4>2. x = <<-1, PushFrame>>
            \/ (<<x[1] + 1, x[2]>> \in FramesAt(s_tx, air) /\ x[1] < -1)
        BY <1>2, <4>1, FramesAppended
      <4>3. x[1] \in Int
        <5>1. Append(s_tx, PushFrame) \in Seq(Frames)
          BY <1>2
        <5> QED BY <4>1, <5>1, FramesAtIs
      <4> QED BY <4>2, <4>3 DEF Stream
    <3>2. CASE x \in AnswersAt(Incoming, b)
      <4>1. x[1] \in Int /\ x[1] > b /\ x = <<x[1], x[2]>>
        BY <3>2, AnswersAtIs
      <4> QED BY <2>2, <3>2, <4>1 DEF Stream
    <3>3. Incoming' = Incoming
      BY <1>1 DEF Incoming
    <3> QED BY <3>1, <3>2, <3>3 DEF Stream
  <2>5. Sound(Stream(b)', asked, mayPush, odd) /\ PushesSound(Stream(b)', asked, mayPush)
    BY <1>1, <2>1, <2>4, PushIsSound DEF SoundFrom
  <2>6. SoundFrom(b)'
    BY <1>1, <2>1, <2>5 DEF SoundFrom, Incoming
  <2>7. HostInv' /\ HostRefinement
    BY <1>1, <1>6, <2>2, <2>3, <2>6, DeviceStep DEF SessionInv
  <2> QED BY <1>4, <1>5, <2>7 DEF SessionInv
<1>7. CASE ~central
  <2>1. central = FALSE
    BY <1>7 DEF TrackInv
  <2>2. HostInv' /\ HostRefinement
    BY <1>1, <2>1, OutsideStep
  <2> QED BY <1>4, <1>5, <2>2 DEF SessionInv
<1> QED BY <1>6, <1>7
-----------------------------------------------------------------------------
(* svc_ble_task after the last chunk: the stalled packet and the edges.    *)
LEMMA OddIsSound ==
  ASSUME NEW S, NEW T \in SUBSET S, NEW a, NEW mp, NEW o, NEW o2, o => o2, Sound(S, a, mp, o)
  PROVE  Sound(T, a, mp, o2)
BY DEF Sound, Expected

LEMMA ComingWithout ==
  ASSUME NEW p, NEW q, q = p \/ q = Nothing, NEW o \in Seq(Halves), NEW l \in Seq(Items), NEW t
  PROVE  Coming(q, o, l, t) \subseteq Coming(p, o, l, t)
         /\ (q = Nothing => \A x \in Coming(q, o, l, t) : x[1] \in Int /\ x[1] >= 1)
<1>1. Coming(q, o, l, t) \subseteq Coming(p, o, l, t)
  BY DEF Coming
<1>2. ASSUME q = Nothing, NEW x \in Coming(q, o, l, t) PROVE x[1] \in Int /\ x[1] >= 1
  <2>1. x[1] \in Int /\ x[1] >= 0 /\ x[1] # 0
    BY <1>2, ComingIs
  <2> QED BY <2>1
<1> QED BY <1>1, <1>2

LEMMA SmallerStream ==
  ASSUME NEW I, NEW J \in SUBSET I, NEW b \in Int, NEW c \in Int,
         \A x \in J : x[1] > c => x[1] > b
  PROVE  AnswersAt(J, c) \subseteq AnswersAt(I, b)
<1> SUFFICES ASSUME NEW x \in AnswersAt(J, c) PROVE x \in AnswersAt(I, b)
  OBVIOUS
<1>1. x \in Int \X Frames /\ x[1] > c
  BY DEF AnswersAt
<1>2. PICK p \in Requests : /\ <<x[1], Half(p, 1)>> \in J
                            /\ x[2] \in {Ans(p, TRUE), Ans(p, FALSE)}
  BY DEF AnswersAt
<1>3. <<x[1], Half(p, 1)>>[1] = x[1]
  OBVIOUS
<1>4. x[1] > b
  BY <1>1, <1>2, <1>3
<1> QED BY <1>1, <1>2, <1>4 DEF AnswersAt

LEMMA SessionTaskEnds ==
  ASSUME BringUpInv, TrackInv, SessionInv, TaskEnds PROVE SessionInv' /\ HostRefinement
<1> DEFINE now == IsConnected
           edge == now # s_was_connected
           q == IF edge THEN <<>> ELSE s_tx
<1>1. /\ pc' = "idle" /\ pc # "feed" /\ s_was_connected' = now /\ Pump(q)
      /\ IF edge THEN connected' = now /\ subscribed' = FALSE
                 ELSE connected' = connected /\ subscribed' = subscribed
      /\ IF old \/ (edge /\ now) THEN part' = Nothing /\ odd' = (odd \/ part # Nothing)
                                 ELSE part' = part /\ odd' = odd
      /\ UNCHANGED <<central, stream, mod, line, s_connected, s_state, out>>
      /\ UNCHANGED <<tail, asked, mayPush, heard>>
  BY DEF TaskEnds, Reading, EdgeQueue, Abandoned, Collected, modVars, drvVars
<1>2. /\ s_tx \in Seq(Frames) /\ air \in Frames \cup {Nothing} /\ out = <<>>
      /\ connected = s_was_connected /\ connected \in BOOLEAN /\ s_connected \in BOOLEAN
      /\ (~connected => s_tx = <<>>) /\ odd \in BOOLEAN /\ subscribed \in BOOLEAN
      /\ part \in Halves \cup {Nothing} /\ line \in Seq(Items)
  BY <1>1 DEF SessionInv, SessionTypes, NobodyThere, BringUpInv, LineTypes
<1>3. now \in BOOLEAN
  BY <1>2 DEF IsConnected
<1>4. q \in Seq(Frames)
  <2>1. <<>> \in Seq(Frames)
    OBVIOUS
  <2> QED BY <1>2, <2>1
<1>5. connected' = now /\ subscribed' \in BOOLEAN /\ odd' \in BOOLEAN /\ (odd => odd')
      /\ (part' = part \/ part' = Nothing)
  BY <1>1, <1>2
<1>6. ~now => q = <<>>
  BY <1>2
<1> HIDE DEF q
<1>7. /\ s_tx' \in Seq(Frames) /\ air' \in Frames \cup {Nothing}
      /\ FramesAt(s_tx', air') = FramesAt(q, air)
      /\ (q = <<>> => s_tx' = <<>> /\ air' = air)
  BY <1>1, <1>2, <1>4, PumpIs
<1> HIDE DEF now
<1>8. SessionTypes'
  BY <1>1, <1>2, <1>3, <1>5, <1>7 DEF SessionInv, SessionTypes
<1>9. NobodyThere'
  <2>1. connected' = s_was_connected' /\ (pc' # "feed" => out' = <<>>)
        /\ (~connected' => s_tx' = <<>>)
    BY <1>1, <1>2, <1>5, <1>6, <1>7
  <2> QED BY <1>1, <2>1 DEF SessionInv, NobodyThere, Stale
<1>10. CASE ~central
  <2>1. central = FALSE
    BY <1>10 DEF TrackInv
  <2>2. HostInv' /\ HostRefinement
    BY <1>1, <2>1, OutsideStep
  <2> QED BY <1>8, <1>9, <2>2 DEF SessionInv
<1>11. CASE central
  <2>1. PICK b \in Int : BeginsAt(b) /\ SoundFrom(b)
    BY <1>11 DEF SessionInv, HostInv
  <2>2. now = s_connected
    BY <1>2, <1>11 DEF TrackInv, IsConnected, now
  <2>3. /\ Incoming' \subseteq Incoming
        /\ part' = Nothing => \A x \in Incoming' : x[1] \in Int /\ x[1] >= 1
    <3>1. /\ Coming(part', out, line, tail) \subseteq Coming(part, out, line, tail)
          /\ part' = Nothing => \A x \in Coming(part', out, line, tail) : x[1] \in Int /\ x[1] >= 1
      <4>1. out \in Seq(Halves) /\ line \in Seq(Items) /\ (part' = part \/ part' = Nothing)
        BY <1>2, <1>5
      <4> QED BY ONLY <4>1, ComingWithout
    <3> QED BY <1>1, <3>1 DEF Incoming
  <2>4. ~odd' => Incoming' = Incoming /\ ~odd
    BY <1>1, <1>2 DEF Incoming
  <2>5. Sound(Stream(b), asked, mayPush, odd) /\ (~odd => Alternate(Incoming, b))
    BY <2>1 DEF SoundFrom
  <2>6. CASE ~edge
    <3>1. connected = s_connected /\ connected' = connected /\ subscribed' = subscribed /\ q = s_tx
      BY <1>1, <1>2, <2>2, <2>6 DEF q
    <3>2. BeginsAt(b)'
      <4>1. OpenAhead(b) => OpenAhead(b)'
        BY <1>1, <1>5 DEF OpenAhead
      <4>2. ~connected => air' = Nothing
        BY <1>2, <1>7, <2>1, <3>1 DEF BeginsAt
      <4>3. AtOpen(b) => AtOpen(b)'
        BY <1>1 DEF AtOpen
      <4>4. NoStream(b) => NoStream(b)'
        BY <1>1, <1>5, <3>1 DEF NoStream
      <4>5. connected => part' = Nothing \/ part' = part
        BY <1>5
      <4> QED BY <1>1, <2>1, <3>1, <4>1, <4>2, <4>3, <4>4, <4>5 DEF BeginsAt
    <3>3. Stream(b)' \subseteq Stream(b)
      <4>1. AnswersAt(Incoming', b) \subseteq AnswersAt(Incoming, b)
        BY <2>3, SmallerStream
      <4> QED BY <1>7, <3>1, <4>1 DEF Stream
    <3>4. Sound(Stream(b)', asked, mayPush, odd')
      BY <1>5, <2>5, <3>3, OddIsSound
    <3>5. connected' /\ subscribed' => PushesSound(Stream(b)', asked, mayPush)
      BY <2>1, <3>1, <3>3, PartIsSound DEF SoundFrom
    <3>6. SoundFrom(b)'
      BY <1>1, <2>4, <2>5, <3>4, <3>5 DEF SoundFrom
    <3>7. HostInv' /\ HostRefinement
      BY <1>1, <1>2, <1>5, <1>11, <3>2, <3>6, DeviceStep DEF SessionInv
    <3> QED BY <1>8, <1>9, <3>7 DEF SessionInv
  <2>7. CASE edge
    <3>1. s_connected = TRUE /\ connected = FALSE /\ air = Nothing /\ (b <= 0 \/ AtOpen(b))
      <4>1. connected => s_connected
        BY <2>1 DEF BeginsAt
      <4>2. s_connected # connected
        BY <1>2, <2>2, <2>7
      <4>3. s_connected = TRUE /\ connected = FALSE
        BY <1>2, <4>1, <4>2
      <4>4. Len(out) = 0
        BY <1>2
      <4> QED BY <2>1, <4>3, <4>4 DEF BeginsAt
    <3>2. connected' = TRUE /\ subscribed' = FALSE /\ part' = Nothing /\ q = <<>>
      BY <1>1, <2>2, <2>7, <3>1 DEF q
    <3>3. PICK c \in Int : c = -1
      OBVIOUS
    <3>12. NoStream(b) => \A x \in Int : NoStream(x)'
      BY <1>1, <1>2, <3>1, <3>2 DEF NoStream
    <3>11. CASE AtOpen(b)
      <4>1. AtOpen(b)' /\ b = 1
        BY <1>1, <1>2, <3>11 DEF AtOpen
      <4>2. BeginsAt(b)'
        BY <1>1, <1>2, <2>1, <3>1, <3>2, <3>12, <4>1 DEF BeginsAt
      <4>3. Stream(b)' \subseteq Stream(b)
        <5>1. AnswersAt(Incoming', b) \subseteq AnswersAt(Incoming, b)
          BY <2>3, SmallerStream
        <5>2. FramesAt(s_tx', air') = {}
          BY <1>7, <3>1, <3>2, NoFrames
        <5> QED BY <5>1, <5>2 DEF Stream
      <4>4. Sound(Stream(b)', asked, mayPush, odd')
        BY <1>5, <2>5, <4>3, OddIsSound
      <4>5. SoundFrom(b)'
        BY <1>1, <2>4, <2>5, <3>2, <4>4 DEF SoundFrom
      <4>6. HostInv' /\ HostRefinement
        BY <1>1, <1>2, <1>5, <1>11, <4>2, <4>5, DeviceStep DEF SessionInv
      <4> QED BY <1>8, <1>9, <4>6 DEF SessionInv
    <3> SUFFICES ASSUME b <= 0 PROVE SessionInv' /\ HostRefinement
      BY <3>1, <3>11
    <3>4. BeginsAt(c)'
      <4>1. \A k \in DOMAIN line : k + Len(out) > b
        <5> TAKE k \in DOMAIN line
        <5>1. k \in Nat /\ k >= 1 /\ Len(out) = 0
          BY <1>2
        <5> QED BY <3>1, <5>1
      <4>2. \A k \in DOMAIN line : ~IsToken(line[k])
        BY <2>1, <4>1 DEF BeginsAt
      <4>3. c >= -1
        BY <3>3
      <4> QED BY <1>1, <1>2, <2>1, <3>1, <3>2, <3>3, <3>12, <4>2, <4>3 DEF BeginsAt
    <3>5. \A x \in Incoming' : x[1] \in Int /\ x[1] >= 1 /\ x[1] > b /\ x[1] > c
                               /\ (x[1] - 1 > b => x[1] - 1 > c)
      <4> TAKE x \in Incoming'
      <4>1. x[1] \in Int /\ x[1] >= 1
        BY <2>3, <3>2
      <4> QED BY <3>1, <3>3, <4>1
    <3>6. Stream(c)' \subseteq Stream(b)
      <4>1. AnswersAt(Incoming', c) \subseteq AnswersAt(Incoming, b)
        BY <2>3, <3>5, SmallerStream
      <4>2. FramesAt(s_tx', air') = {}
        BY <1>7, <3>1, <3>2, NoFrames
      <4> QED BY <4>1, <4>2 DEF Stream
    <3>7. Sound(Stream(c)', asked, mayPush, odd')
      BY <1>5, <2>5, <3>6, OddIsSound
    <3>8. ASSUME ~odd' PROVE Alternate(Incoming', c)
      BY <2>4, <2>5, <3>5, <3>8 DEF Alternate
    <3>9. SoundFrom(c)'
      BY <1>1, <3>2, <3>7, <3>8 DEF SoundFrom
    <3>10. HostInv' /\ HostRefinement
      BY <1>1, <1>2, <1>5, <1>11, <3>4, <3>9, DeviceStep DEF SessionInv
    <3> QED BY <1>8, <1>9, <3>10 DEF SessionInv
  <2> QED BY <2>6, <2>7
<1> QED BY <1>10, <1>11
-----------------------------------------------------------------------------
(* svc_api_reassembler_feed_byte and the dispatch.                         *)

(* The rest of the chunk moves up.                                         *)
LEMMA ComingFed ==
  ASSUME NEW p \in Halves \cup {Nothing}, NEW q, NEW o \in Seq(Halves), o # <<>>,
         NEW l \in Seq(Items), NEW t
  PROVE  /\ Tail(o) \in Seq(Halves) /\ Len(Tail(o)) = Len(o) - 1 /\ Len(o) \in Nat \ {0}
         /\ Head(o) \in Halves /\ <<1, Head(o)>> \in Coming(p, o, l, t)
         /\ p # Nothing => <<0, p>> \in Coming(p, o, l, t)
         /\ \A h : <<1, h>> \in Coming(p, o, l, t) => h = Head(o)
         /\ \A x \in Coming(q, Tail(o), l, t) :
               \/ x[1] = 0 /\ q # Nothing /\ x[2] = q
               \/ x[1] \in Int /\ x[1] >= 1 /\ <<x[1] + 1, x[2]>> \in Coming(p, o, l, t)
         /\ \A i \in Int, h \in Halves :
               i >= 2 /\ <<i, h>> \in Coming(p, o, l, t) => <<i - 1, h>> \in Coming(q, Tail(o), l, t)
<1> DEFINE n == Len(o)
           m == Len(l)
           r == Tail(o)
<1>1. /\ n \in Nat \ {0} /\ m \in Nat /\ DOMAIN o = 1 .. n /\ DOMAIN l = 1 .. m
      /\ r \in Seq(Halves) /\ Len(r) = n - 1 /\ DOMAIN r = 1 .. n - 1
      /\ Head(o) = o[1] /\ Head(o) \in Halves
  OBVIOUS
<1>2. \A k \in 1 .. n - 1 : r[k] = o[k + 1]
  OBVIOUS
<1> HIDE DEF n, m, r
<1>3. ASSUME NEW i \in Int, NEW h
      PROVE  <<i, h>> \in Coming(p, o, l, t) <=>
                /\ h \in Halves
                /\ \/ i = 0 /\ p # Nothing /\ h = p
                   \/ i \in 1 .. n /\ h = o[i]
                   \/ i - n \in 1 .. m /\ h = l[i - n].data
                   \/ i = n + m + 1 /\ t # Nothing /\ h = t
  BY <1>1 DEF Coming, n, m
<1>4. ASSUME NEW i \in Int, NEW h
      PROVE  <<i, h>> \in Coming(q, r, l, t) <=>
                /\ h \in Halves
                /\ \/ i = 0 /\ q # Nothing /\ h = q
                   \/ i \in 1 .. n - 1 /\ h = r[i]
                   \/ i - (n - 1) \in 1 .. m /\ h = l[i - (n - 1)].data
                   \/ i = (n - 1) + m + 1 /\ t # Nothing /\ h = t
  BY <1>1 DEF Coming, m
<1>5. ASSUME NEW i \in Int, i >= 1, NEW h
      PROVE  <<i, h>> \in Coming(q, r, l, t) <=> <<i + 1, h>> \in Coming(p, o, l, t)
  <2>1. i + 1 \in Int /\ i # 0 /\ i + 1 # 0
    BY <1>5
  <2>2. (i + 1) - n = i - (n - 1) /\ (i + 1 = n + m + 1 <=> i = (n - 1) + m + 1)
    BY <1>1
  <2>3. i \in 1 .. n - 1 <=> i + 1 \in 1 .. n
    BY <1>1, <1>5
  <2>4. i \in 1 .. n - 1 => r[i] = o[i + 1]
    BY <1>2
  <2>5. <<i, h>> \in Coming(q, r, l, t) <=>
                /\ h \in Halves
                /\ \/ i \in 1 .. n - 1 /\ h = r[i]
                   \/ i - (n - 1) \in 1 .. m /\ h = l[i - (n - 1)].data
                   \/ i = (n - 1) + m + 1 /\ t # Nothing /\ h = t
    BY <1>4, <2>1
  <2>6. <<i + 1, h>> \in Coming(p, o, l, t) <=>
                /\ h \in Halves
                /\ \/ i + 1 \in 1 .. n /\ h = o[i + 1]
                   \/ (i + 1) - n \in 1 .. m /\ h = l[(i + 1) - n].data
                   \/ i + 1 = n + m + 1 /\ t # Nothing /\ h = t
    BY <1>3, <2>1
  <2> QED BY ONLY <2>2, <2>3, <2>4, <2>5, <2>6
<1>6. 1 \in 1 .. n /\ ~(1 - n \in 1 .. m) /\ 1 # n + m + 1
  BY <1>1
<1>7. <<1, Head(o)>> \in Coming(p, o, l, t) /\ \A h : <<1, h>> \in Coming(p, o, l, t) => h = Head(o)
  <2>1. 1 \in Int /\ 1 # 0
    OBVIOUS
  <2> QED BY <1>1, <1>3, <1>6, <2>1
<1>8. p # Nothing => <<0, p>> \in Coming(p, o, l, t)
  <2>1. 0 \in Int
    OBVIOUS
  <2> QED BY <1>3, <2>1
<1>9. ASSUME NEW x \in Coming(q, r, l, t)
      PROVE  \/ x[1] = 0 /\ q # Nothing /\ x[2] = q
             \/ x[1] \in Int /\ x[1] >= 1 /\ <<x[1] + 1, x[2]>> \in Coming(p, o, l, t)
  <2>1. /\ x = <<x[1], x[2]>> /\ x[1] \in Int /\ x[1] >= 0
        /\ (x[1] = 0 => q # Nothing /\ x[2] = q)
    BY <1>1, ComingIs
  <2>2. x[1] = 0 \/ x[1] >= 1
    BY <2>1
  <2>3. x[1] >= 1 => <<x[1] + 1, x[2]>> \in Coming(p, o, l, t)
    BY <1>5, <2>1
  <2> QED BY <2>1, <2>2, <2>3
<1>10. ASSUME NEW i \in Int, NEW h \in Halves, i >= 2, <<i, h>> \in Coming(p, o, l, t)
       PROVE  <<i - 1, h>> \in Coming(q, r, l, t)
  <2>1. i - 1 \in Int /\ i - 1 >= 1 /\ (i - 1) + 1 = i
    BY <1>10
  <2> QED BY <1>5, <1>10, <2>1
<1> QED BY <1>1, <1>7, <1>8, <1>9, <1>10 DEF n, r

(* What becomes of the half at the head of the chunk.                      *)
NoiseAnswered(h) ==
  IF part = Nothing THEN h.half # 1 ELSE part.half # 1
Whole(p, ok, h) ==
  part # Nothing /\ part.half = 1 /\ p = part.of /\ ok = (h = Half(part.of, 2))
LEMMA FeedIs ==
  ASSUME Feed, SessionInv, NEW h, h = Head(out)
  PROVE  /\ part' \in {Nothing, part, h}
         /\ part' # Nothing => \/ part = Nothing /\ part' = h
                               \/ part # Nothing /\ part.half # 1 /\ part' = part
         /\ part = Nothing /\ part' = Nothing => h.half # 1
         /\ \/ NoPacket
            \/ Dispatch(Noise, FALSE) /\ NoiseAnswered(h)
            \/ \E ok \in BOOLEAN : Dispatch(part.of, ok) /\ Whole(part.of, ok, h)
<1>1. CASE part = Nothing
  <2>1. FeedFirst(h)
    BY <1>1 DEF Feed
  <2>2. h # Nothing
    <3>1. out \in Seq(Halves) /\ out # <<>>
      BY DEF Feed, SessionInv, SessionTypes
    <3>2. h \in Halves
      BY <3>1
    <3> QED BY <3>2, NothingAssumption
  <2> QED BY <1>1, <2>1, <2>2 DEF FeedFirst, Collects, Collected, NoiseAnswered
<1>2. CASE part # Nothing
  <2>1. FeedNext(h)
    BY <1>2 DEF Feed
  <2>2. CASE part.half = 1
    <3>1. PICK ok \in BOOLEAN : ok = (h = [of |-> part.of, half |-> 2])
      OBVIOUS
    <3>2. part' = Nothing /\ Dispatch(part.of, ok)
      BY <2>1, <2>2, <3>1 DEF FeedNext, Collected
    <3>3. Whole(part.of, ok, h)
      BY <1>2, <2>2, <3>1 DEF Whole, Half
    <3> QED BY <1>2, <3>2, <3>3
  <2>3. CASE part.half # 1
    BY <1>2, <2>1, <2>3 DEF FeedNext, Collects, Collected, NoiseAnswered
  <2> QED BY <2>2, <2>3
<1> QED BY <1>1, <1>2

(* send_via_ble.                                                           *)
LEMMA SendIs ==
  ASSUME SessionTypes, NEW f \in Frames, NEW urgent, Send(f, urgent)
  PROVE  /\ s_tx' \in Seq(Frames) /\ air' \in Frames \cup {Nothing}
         /\ ~connected => s_tx' = s_tx /\ air' = air
         /\ \/ FramesAt(s_tx', air') = FramesAt(s_tx, air)
            \/ \A x \in FramesAt(s_tx', air') :
                 x = <<-1, f>> \/ (<<x[1] + 1, x[2]>> \in FramesAt(s_tx, air) /\ x[1] < -1)
<1>1. s_tx \in Seq(Frames) /\ air \in Frames \cup {Nothing}
  BY DEF SessionTypes
<1>2. CASE UNCHANGED txVars
  BY <1>1, <1>2 DEF txVars
<1>3. CASE connected /\ Pump(Append(s_tx, f))
  <2>1. Append(s_tx, f) \in Seq(Frames)
    BY <1>1
  <2>2. /\ s_tx' \in Seq(Frames) /\ air' \in Frames \cup {Nothing}
        /\ FramesAt(s_tx', air') = FramesAt(Append(s_tx, f), air)
    BY <1>1, <1>3, <2>1, PumpIs
  <2>3. \A x \in FramesAt(Append(s_tx, f), air) :
          x = <<-1, f>> \/ (<<x[1] + 1, x[2]>> \in FramesAt(s_tx, air) /\ x[1] < -1)
    BY <1>1, FramesAppended
  <2> QED BY <1>3, <2>2, <2>3
<1> QED BY <1>2, <1>3 DEF Send

(* What the reassembler and the dispatch leave of the stream: everything   *)
(* moves up, and the answer to a packet takes its place.                   *)
LEMMA FedKeepsPackets ==
  ASSUME SessionInv, Feed, NEW h, h = Head(out), line \in Seq(Items)
  PROVE  /\ h \in Halves /\ h # Nothing /\ <<1, h>> \in Incoming
         /\ part # Nothing => part \in Halves /\ <<0, part>> \in Incoming
         /\ \A g : <<1, g>> \in Incoming => g = h
         /\ \A x \in Incoming' :
               \/ x[1] = 0 /\ part' # Nothing /\ x[2] = part'
               \/ x[1] \in Int /\ x[1] >= 1 /\ <<x[1] + 1, x[2]>> \in Incoming
         /\ \A i \in Int, g \in Halves : i >= 2 /\ <<i, g>> \in Incoming => <<i - 1, g>> \in Incoming'
         /\ out' \in Seq(Halves) /\ Len(out') = Len(out) - 1 /\ Len(out) \in Nat \ {0}
         /\ part' \in Halves \cup {Nothing}
         /\ part' # Nothing => <<0, part'>> \in Incoming'
<1>1. /\ out # <<>> /\ out' = Tail(out) /\ line' = line /\ tail' = tail
      /\ out \in Seq(Halves) /\ part \in Halves \cup {Nothing}
  BY DEF Feed, SessionInv, SessionTypes
<1>2. /\ h \in Halves /\ <<1, h>> \in Incoming
      /\ part # Nothing => <<0, part>> \in Incoming
      /\ \A g : <<1, g>> \in Incoming => g = h
      /\ \A x \in Incoming' :
               \/ x[1] = 0 /\ part' # Nothing /\ x[2] = part'
               \/ x[1] \in Int /\ x[1] >= 1 /\ <<x[1] + 1, x[2]>> \in Incoming
      /\ \A i \in Int, g \in Halves : i >= 2 /\ <<i, g>> \in Incoming => <<i - 1, g>> \in Incoming'
      /\ out' \in Seq(Halves) /\ Len(out') = Len(out) - 1 /\ Len(out) \in Nat \ {0}
  <2> DEFINE I == Coming(part, out, line, tail)
             J == Coming(part', Tail(out), line, tail)
  <2>1. /\ Tail(out) \in Seq(Halves) /\ Len(Tail(out)) = Len(out) - 1 /\ Len(out) \in Nat \ {0}
        /\ Head(out) \in Halves /\ <<1, Head(out)>> \in I
        /\ part # Nothing => <<0, part>> \in I
        /\ \A g : <<1, g>> \in I => g = Head(out)
        /\ \A x \in J :
               \/ x[1] = 0 /\ part' # Nothing /\ x[2] = part'
               \/ x[1] \in Int /\ x[1] >= 1 /\ <<x[1] + 1, x[2]>> \in I
        /\ \A i \in Int, g \in Halves : i >= 2 /\ <<i, g>> \in I => <<i - 1, g>> \in J
    <3>1. /\ part \in Halves \cup {Nothing} /\ out \in Seq(Halves) /\ out # <<>>
          /\ line \in Seq(Items)
      BY <1>1
    <3> QED BY ONLY <3>1, ComingFed, Zenon
  <2> HIDE DEF I, J
  <2>2. Incoming = I /\ Incoming' = J
    BY <1>1 DEF Incoming, I, J
  <2> QED BY <1>1, <2>1, <2>2
<1>3. part' \in Halves \cup {Nothing}
  BY <1>1, <1>2, FeedIs
<1>4. part' # Nothing => <<0, part'>> \in Incoming'
  BY <1>1, <1>2, <1>3 DEF Incoming, Coming
<1>5. h # Nothing
  BY <1>2, NothingAssumption
<1> QED BY <1>1, <1>2, <1>3, <1>4, <1>5

(* Where the session begins then.                                          *)
BeginsThen(b) == IF b >= 0 THEN b - 1 ELSE -1

LEMMA BeginsFed ==
  ASSUME BringUpInv, SessionInv, Feed, NEW b \in Int, BeginsAt(b), NEW c \in Int, c = BeginsThen(b),
         ~connected => air' = air
  PROVE  BeginsAt(c)' /\ (connected => c = -1 /\ b = -1) /\ (b >= 0 => c = b - 1)
         /\ (b < 0 => b = -1 /\ c = -1)
<1> DEFINE n == Len(out)
<1>1. /\ line' = line /\ connected' = connected /\ s_connected' = s_connected
      /\ stream' = stream /\ out # <<>>
      /\ pc' \in {"feed", "read"} /\ odd \in BOOLEAN /\ (odd => odd') /\ line \in Seq(Items)
  BY DEF Feed, modVars, drvVars, SessionInv, SessionTypes, BringUpInv, LineTypes
<1>2. n \in Nat \ {0} /\ Len(out') = n - 1
  BY <1>1, FedKeepsPackets
<1>3. b >= -1 /\ b \in Int /\ (b >= 0 => c = b - 1) /\ (b < 0 => b = -1 /\ c = -1)
  BY DEF BeginsAt, BeginsThen
<1>4. c \in Int /\ c >= -1
  BY <1>3
<1>5. connected => b = -1 /\ c = -1 /\ s_connected'
  BY <1>1, <1>3 DEF BeginsAt
<1> HIDE DEF n
<1>6. ~connected' => air' = Nothing
  BY <1>1 DEF BeginsAt
<1>7. ~connected' /\ s_connected' => (c <= Len(out') \/ AtOpen(c)') /\ pc' \in {"feed", "read"}
  <2> SUFFICES ASSUME ~connected', s_connected' PROVE c <= n - 1 \/ AtOpen(c)'
    BY <1>1, <1>2
  <2>1. b <= n \/ AtOpen(b)
    BY <1>1 DEF BeginsAt, n
  <2>2. CASE b <= n
    BY <1>2, <1>3, <2>2
  <2>3. CASE AtOpen(b)
    <3>1. b = n + 1
      BY <2>3 DEF AtOpen, n
    <3>2. c = Len(out') + 1
      BY <1>2, <1>3, <3>1
    <3> QED BY <1>1, <2>3, <3>2 DEF AtOpen
  <2> QED BY <2>1, <2>2, <2>3
<1>8. ASSUME ~s_connected' PROVE OpenAhead(c)'
  <2>1. OpenAhead(b)
    BY <1>1, <1>8 DEF BeginsAt
  <2>2. /\ b >= n /\ b <= n + Len(line) /\ (b = n => odd)
        /\ b > n => Up(line[b - n].said)
        /\ \A k \in DOMAIN line : k + n < b /\ Up(line[k].said) =>
             k + n = b - 1 /\ line[k + 1].said = "OPEN"
    BY <2>1 DEF OpenAhead, n
  <2>3. Len(line) \in Nat /\ DOMAIN line = 1 .. Len(line)
    BY <1>1
  <2>4. c = b - 1
    BY <1>2, <1>3, <2>2
  <2>5. c >= n - 1 /\ c <= (n - 1) + Len(line) /\ (c > n - 1 => b > n) /\ (c = n - 1 => b = n)
        /\ c - (n - 1) = b - n
    BY <1>2, <1>3, <2>2, <2>3, <2>4
  <2>6. \A k \in DOMAIN line : (k + (n - 1) < c => k + n < b) /\ (k + n = b - 1 => k + (n - 1) = c - 1)
    BY <1>2, <1>3, <2>3, <2>4
  <2> QED BY <1>1, <1>2, <2>2, <2>5, <2>6 DEF OpenAhead
<1>9. \A k \in DOMAIN line : k + (n - 1) > c => ~IsToken(line[k])
  <2> SUFFICES ASSUME NEW k \in DOMAIN line, k + (n - 1) > c PROVE ~IsToken(line[k])
    OBVIOUS
  <2>1. k \in Nat /\ k >= 1
    BY <1>1
  <2>2. k + n > b
    BY <1>2, <1>3, <2>1
  <2> QED BY <2>2 DEF BeginsAt, n
<1>10. \A k \in DOMAIN line' : k + Len(out') > c => ~IsToken(line'[k])
  BY <1>1, <1>2, <1>9
<1>11. connected' => c = -1 /\ s_connected'
  BY <1>1, <1>5
<1>12. ASSUME ~stream PROVE NoStream(c)'
  <2>1. NoStream(b)
    BY <1>12 DEF BeginsAt
  <2>2. ~s_connected => b = n + Len(line)
    BY <2>1 DEF NoStream, n
  <2>3. Len(line) \in Nat
    BY <1>1
  <2>4. ~s_connected => c = (n - 1) + Len(line)
    BY <1>2, <1>3, <2>2, <2>3
  <2> QED BY <1>1, <1>2, <2>1, <2>4 DEF NoStream
<1>13. BeginsAt(c)'
  BY <1>1, <1>4, <1>6, <1>7, <1>8, <1>10, <1>11, <1>12 DEF BeginsAt
<1> QED BY <1>3, <1>5, <1>13

(* Whole packets stay whole.                                               *)
LEMMA FedStaysWhole ==
  ASSUME SessionInv, Feed, line \in Seq(Items), ~odd', NEW b \in Int, NEW c \in Int,
         Alternate(Incoming, b), (b >= 0 => c = b - 1), (b < 0 => b = -1 /\ c = -1)
  PROVE  Alternate(Incoming', c)
<1> DEFINE h == Head(out)
<1>1. /\ h \in Halves /\ h # Nothing /\ <<1, h>> \in Incoming
      /\ part # Nothing => part \in Halves /\ <<0, part>> \in Incoming
      /\ \A g : <<1, g>> \in Incoming => g = h
      /\ \A x \in Incoming' :
            \/ x[1] = 0 /\ part' # Nothing /\ x[2] = part'
            \/ x[1] \in Int /\ x[1] >= 1 /\ <<x[1] + 1, x[2]>> \in Incoming
      /\ \A i \in Int, g \in Halves : i >= 2 /\ <<i, g>> \in Incoming => <<i - 1, g>> \in Incoming'
      /\ part' # Nothing => <<0, part'>> \in Incoming'
  BY FedKeepsPackets
<1>2. /\ part' \in {Nothing, part, h}
      /\ part' # Nothing => \/ part = Nothing /\ part' = h
                            \/ part # Nothing /\ part.half # 1 /\ part' = part
      /\ part = Nothing /\ part' = Nothing => h.half # 1
  BY FeedIs
<1>3. part # Nothing => h = Half(part.of, 2)
  BY DEF Feed, Half
<1> HIDE DEF h
<1>4. \A p : Half(p, 1).half = 1 /\ Half(p, 2).half = 2
  BY DEF Half
<1>5. \A p \in Requests : Half(p, 1) \in Halves /\ Half(p, 2) \in Halves
  BY HalfIs
<1>6. \A g : <<0, g>> \in Incoming => part # Nothing /\ g = part
  BY DEF Incoming, Coming, SessionInv, SessionTypes
<1>7. ASSUME NEW i \in Int, i > b, NEW g, <<i, g>> \in Incoming
      PROVE  \E p \in Requests :
               \/ g = Half(p, 1) /\ <<i + 1, Half(p, 2)>> \in Incoming
               \/ g = Half(p, 2) /\ i - 1 > b /\ <<i - 1, Half(p, 1)>> \in Incoming
  <2>1. <<i, g>>[1] > b
    BY <1>7
  <2>2. PICK p \in Requests :
               \/ <<i, g>>[2] = Half(p, 1) /\ <<<<i, g>>[1] + 1, Half(p, 2)>> \in Incoming
               \/ <<i, g>>[2] = Half(p, 2) /\ <<i, g>>[1] - 1 > b
                  /\ <<<<i, g>>[1] - 1, Half(p, 1)>> \in Incoming
    BY <1>7, <2>1 DEF Alternate
  <2> QED BY <2>2
<1> SUFFICES ASSUME NEW x \in Incoming', x[1] > c
             PROVE  \E p \in Requests :
                      \/ x[2] = Half(p, 1) /\ <<x[1] + 1, Half(p, 2)>> \in Incoming'
                      \/ /\ x[2] = Half(p, 2) /\ x[1] - 1 > c
                         /\ <<x[1] - 1, Half(p, 1)>> \in Incoming'
  BY DEF Alternate
<1>8. CASE x[1] \in Int /\ x[1] >= 1 /\ <<x[1] + 1, x[2]>> \in Incoming
  <2>1. PICK i \in Int : i = x[1] + 1
    BY <1>8
  <2>2. i > b /\ i - 1 = x[1] /\ i >= 2 /\ i + 1 \in Int /\ i + 1 >= 2 /\ (i + 1) - 1 = x[1] + 1
        /\ i - 1 \in Int /\ (i - 1) - 1 = x[1] - 1
    BY <1>8, <2>1
  <2>3. PICK p \in Requests :
           \/ x[2] = Half(p, 1) /\ <<i + 1, Half(p, 2)>> \in Incoming
           \/ x[2] = Half(p, 2) /\ i - 1 > b /\ <<i - 1, Half(p, 1)>> \in Incoming
    BY <1>7, <1>8, <2>1, <2>2
  <2>4. CASE x[2] = Half(p, 1) /\ <<i + 1, Half(p, 2)>> \in Incoming
    <3>1. <<(i + 1) - 1, Half(p, 2)>> \in Incoming'
      BY <1>1, <1>5, <2>2, <2>4
    <3> QED BY <2>2, <2>4, <3>1
  <2>5. CASE x[2] = Half(p, 2) /\ i - 1 > b /\ <<i - 1, Half(p, 1)>> \in Incoming
    <3>1. CASE i - 1 >= 2
      <4>1. <<(i - 1) - 1, Half(p, 1)>> \in Incoming'
        BY <1>1, <1>5, <2>2, <2>5, <3>1
      <4>2. x[1] - 1 > c
        BY <2>2, <2>5, <3>1
      <4> QED BY <2>2, <2>5, <4>1, <4>2
    <3>2. CASE ~(i - 1 >= 2)
      <4>1. x[1] = 1 /\ i - 1 = 1
        BY <1>8, <2>2, <3>2
      <4>2. h = Half(p, 1)
        BY <1>1, <2>5, <4>1
      <4>3. part = Nothing
        BY <1>3, <1>4, <4>2
      <4>4. part' = h
        BY <1>2, <1>4, <4>2, <4>3
      <4>5. <<0, Half(p, 1)>> \in Incoming'
        BY <1>1, <4>2, <4>4
      <4>6. x[1] - 1 = 0 /\ 0 > c
        BY <2>5, <4>1
      <4> QED BY <2>5, <4>5, <4>6
    <3> QED BY <3>1, <3>2
  <2> QED BY <2>3, <2>4, <2>5
<1>9. CASE x[1] = 0 /\ part' # Nothing /\ x[2] = part'
  <2>1. 1 > b /\ 0 - 1 = -1 /\ 1 - 1 = 0 /\ 1 + 1 = 2 /\ 0 + 1 = 1 /\ 2 - 1 = 1
    BY <1>9
  <2>2. PICK p \in Requests :
           \/ h = Half(p, 1) /\ <<2, Half(p, 2)>> \in Incoming
           \/ h = Half(p, 2) /\ <<0, Half(p, 1)>> \in Incoming
    BY <1>1, <1>7, <2>1
  <2>3. CASE h = Half(p, 1) /\ <<2, Half(p, 2)>> \in Incoming
    <3>1. part' = h
      BY <1>2, <1>3, <1>4, <1>9, <2>3
    <3>2. <<2 - 1, Half(p, 2)>> \in Incoming'
      <4>1. 2 \in Int /\ 2 >= 2
        OBVIOUS
      <4> QED BY <1>1, <1>5, <2>3, <4>1
    <3> QED BY <1>9, <2>1, <2>3, <3>1, <3>2
  <2>4. CASE h = Half(p, 2) /\ <<0, Half(p, 1)>> \in Incoming
    <3>1. part = Half(p, 1) /\ part # Nothing
      BY <1>6, <2>4
    <3> QED BY <1>2, <1>4, <1>9, <3>1
  <2> QED BY <2>2, <2>3, <2>4
<1> QED BY <1>1, <1>8, <1>9

LEMMA FedAnswers ==
  ASSUME SessionInv, Feed, line \in Seq(Items), NEW b \in Int, NEW c \in Int,
         (b >= 0 => c = b - 1), (b < 0 => b = -1 /\ c = -1),
         NEW x \in AnswersAt(Incoming', c)
  PROVE  x[1] \in Int /\ x[1] >= 0 /\ <<x[1] + 1, x[2]>> \in AnswersAt(Incoming, b)
<1> DEFINE h == Head(out)
<1>1. /\ <<1, h>> \in Incoming
      /\ \A y \in Incoming' :
            \/ y[1] = 0 /\ part' # Nothing /\ y[2] = part'
            \/ y[1] \in Int /\ y[1] >= 1 /\ <<y[1] + 1, y[2]>> \in Incoming
  BY FedKeepsPackets
<1>2. part' # Nothing => \/ part = Nothing /\ part' = h
                         \/ part # Nothing /\ part.half # 1 /\ part' = part
  BY FeedIs
<1> HIDE DEF h
<1>3. x = <<x[1], x[2]>> /\ x[1] \in Int /\ x[1] > c /\ x[2] \in Frames
  BY AnswersAtIs
<1>4. PICK p \in Requests : /\ <<x[1], Half(p, 1)>> \in Incoming'
                            /\ x[2] \in {Ans(p, TRUE), Ans(p, FALSE)}
  BY AnswersAtIs
<1>5. \/ x[1] = 0 /\ part' # Nothing /\ Half(p, 1) = part'
      \/ x[1] >= 1 /\ <<x[1] + 1, Half(p, 1)>> \in Incoming
  <2>1. <<x[1], Half(p, 1)>>[1] = x[1] /\ <<x[1], Half(p, 1)>>[2] = Half(p, 1)
    OBVIOUS
  <2> QED BY <1>1, <1>4, <2>1
<1>6. <<x[1] + 1, Half(p, 1)>> \in Incoming /\ x[1] >= 0
  <2>1. CASE x[1] = 0 /\ part' # Nothing /\ Half(p, 1) = part'
    <3>1. Half(p, 1).half = 1
      BY DEF Half
    <3>2. part' = h
      BY <1>2, <2>1, <3>1
    <3> QED BY <1>1, <2>1, <3>2
  <2>2. CASE x[1] >= 1 /\ <<x[1] + 1, Half(p, 1)>> \in Incoming
    BY <1>3, <2>2
  <2> QED BY <1>5, <2>1, <2>2
<1>7. x[1] + 1 > b /\ x[1] + 1 \in Int
  BY <1>3, <1>6
<1>8. <<x[1] + 1, x[2]>> \in Int \X Frames
  BY <1>3, <1>7
<1> QED BY <1>3, <1>4, <1>6, <1>7, <1>8 DEF AnswersAt

(* Noise is answered only when bytes were lost.                            *)
LEMMA NoiseIsOdd ==
  ASSUME SessionInv, Feed, line \in Seq(Items), NEW h, h = Head(out), NoiseAnswered(h),
         NEW b \in Int, b = -1
  PROVE  ~Alternate(Incoming, b)
<1> SUFFICES ASSUME Alternate(Incoming, b) PROVE FALSE
  OBVIOUS
<1>1. /\ <<1, h>> \in Incoming
      /\ part # Nothing => part \in Halves /\ <<0, part>> \in Incoming
  BY FedKeepsPackets
<1>2. \A p : Half(p, 1).half = 1 /\ Half(p, 2).half = 2
  BY DEF Half
<1>3. \A g : <<0, g>> \in Incoming => part # Nothing /\ g = part
  BY DEF Incoming, Coming, SessionInv, SessionTypes
<1>4. ASSUME NEW i \in Int, i > b, NEW g, <<i, g>> \in Incoming
      PROVE  \E p \in Requests :
               \/ g = Half(p, 1)
               \/ g = Half(p, 2) /\ i - 1 > b /\ <<i - 1, Half(p, 1)>> \in Incoming
  <2>1. <<i, g>>[1] > b
    BY <1>4
  <2>2. PICK p \in Requests :
               \/ <<i, g>>[2] = Half(p, 1) /\ <<<<i, g>>[1] + 1, Half(p, 2)>> \in Incoming
               \/ <<i, g>>[2] = Half(p, 2) /\ <<i, g>>[1] - 1 > b
                  /\ <<<<i, g>>[1] - 1, Half(p, 1)>> \in Incoming
    BY <1>4, <2>1 DEF Alternate
  <2> QED BY <2>2
<1>5. CASE part = Nothing
  <2>1. 1 > b /\ 1 - 1 = 0
    OBVIOUS
  <2>2. PICK p \in Requests : h = Half(p, 1) \/ <<0, Half(p, 1)>> \in Incoming
    BY <1>1, <1>4, <2>1
  <2> QED BY <1>2, <1>3, <1>5, <2>2 DEF NoiseAnswered
<1>6. CASE part # Nothing
  <2>1. 0 > b /\ ~(0 - 1 > b) /\ 0 \in Int /\ <<0, part>> \in Incoming
    BY <1>1, <1>6
  <2>2. PICK p \in Requests : part = Half(p, 1)
    <3>1. \E p \in Requests : \/ part = Half(p, 1)
                              \/ part = Half(p, 2) /\ 0 - 1 > b /\ <<0 - 1, Half(p, 1)>> \in Incoming
      BY <1>4, <2>1
    <3> QED BY <2>1, <3>1
  <2> QED BY <1>2, <1>6, <2>2 DEF NoiseAnswered
<1> QED BY <1>5, <1>6

(* The frames then: as they were, or with one that answers the packet that *)
(* was in the reassembler, or noise.                                       *)
Answered(f, S) ==
  \/ f = Ans(Noise, FALSE) /\ odd'
  \/ AnswersRequest(f) /\ <<0, f>> \in S
LEMMA FedFrames ==
  ASSUME SessionInv, Feed, line \in Seq(Items), NEW b \in Int,
         connected => b = -1, ~odd => Alternate(Incoming, b)
  PROVE  /\ s_tx' \in Seq(Frames) /\ air' \in Frames \cup {Nothing}
         /\ ~connected => s_tx' = s_tx /\ air' = air
         /\ subscribed' \in BOOLEAN
         /\ \/ /\ FramesAt(s_tx', air') = FramesAt(s_tx, air)
            \/ \E f \in Frames :
                 /\ Answered(f, Stream(b))
                 /\ \A x \in FramesAt(s_tx', air') :
                       x = <<-1, f>> \/ (<<x[1] + 1, x[2]>> \in FramesAt(s_tx, air) /\ x[1] < -1)
                 /\ subscribed' => ~(f.what = "answer" /\ f.ok /\ f.to.kind = "unsubscribe")
         /\ connected /\ subscribed' /\ ~subscribed =>
              \E p \in Requests : p.kind = "subscribe" /\ <<0, Ans(p, TRUE)>> \in Stream(b)
<1> DEFINE h == Head(out)
<1>1. /\ SessionTypes /\ subscribed \in BOOLEAN /\ s_tx \in Seq(Frames)
      /\ air \in Frames \cup {Nothing} /\ connected \in BOOLEAN
      /\ part \in Halves \cup {Nothing} /\ odd \in BOOLEAN /\ (odd => odd')
  BY DEF SessionInv, SessionTypes, Feed
<1>2. \/ NoPacket
      \/ Dispatch(Noise, FALSE) /\ NoiseAnswered(h)
      \/ \E ok \in BOOLEAN : Dispatch(part.of, ok) /\ Whole(part.of, ok, h)
  BY FeedIs
<1> HIDE DEF h
<1>3. CASE NoPacket
  BY <1>1, <1>3 DEF NoPacket, txVars
<1>4. CASE Dispatch(Noise, FALSE) /\ NoiseAnswered(h)
  <2> DEFINE f == Ans(Noise, FALSE)
  <2>1. subscribed' = subscribed /\ Send(f, TRUE) /\ f \in Frames /\ f.ok = FALSE
    <3>1. f \in Frames /\ f.ok = FALSE
      BY FrameIs
    <3> QED BY <1>4, <3>1 DEF Dispatch, Ans
  <2> HIDE DEF f
  <2>2. /\ s_tx' \in Seq(Frames) /\ air' \in Frames \cup {Nothing}
        /\ ~connected => s_tx' = s_tx /\ air' = air
        /\ \/ FramesAt(s_tx', air') = FramesAt(s_tx, air)
           \/ \A x \in FramesAt(s_tx', air') :
                 x = <<-1, f>> \/ (<<x[1] + 1, x[2]>> \in FramesAt(s_tx, air) /\ x[1] < -1)
    BY <1>1, <2>1, SendIs
  <2>3. CASE ~connected
    BY <1>1, <2>1, <2>2, <2>3
  <2>4. CASE connected
    <3>1. odd'
      <4>1. ~Alternate(Incoming, b)
        BY <1>4, <2>4, NoiseIsOdd DEF h
      <4> QED BY <1>1, <4>1
    <3>2. Answered(f, Stream(b))
      BY <3>1 DEF Answered, f
    <3> QED BY <1>1, <2>1, <2>2, <3>2
  <2> QED BY <1>1, <2>3, <2>4
<1>5. ASSUME NEW ok \in BOOLEAN, Dispatch(part.of, ok), Whole(part.of, ok, h)
      PROVE  /\ s_tx' \in Seq(Frames) /\ air' \in Frames \cup {Nothing}
             /\ ~connected => s_tx' = s_tx /\ air' = air
             /\ subscribed' \in BOOLEAN
             /\ \/ /\ FramesAt(s_tx', air') = FramesAt(s_tx, air)
                \/ \E f \in Frames :
                     /\ Answered(f, Stream(b))
                     /\ \A x \in FramesAt(s_tx', air') :
                          x = <<-1, f>> \/ (<<x[1] + 1, x[2]>> \in FramesAt(s_tx, air) /\ x[1] < -1)
                     /\ subscribed' => ~(f.what = "answer" /\ f.ok /\ f.to.kind = "unsubscribe")
             /\ connected /\ subscribed' /\ ~subscribed =>
                  \E p \in Requests : p.kind = "subscribe" /\ <<0, Ans(p, TRUE)>> \in Stream(b)
  <2> DEFINE p == part.of
             f == Ans(p, ok)
  <2>1. p \in Requests /\ part = Half(p, 1) /\ part # Nothing
    <3>1. part # Nothing /\ part.half = 1
      BY <1>5 DEF Whole
    <3> QED BY <1>1, <3>1, HalfIs
  <2>2. f \in Frames /\ f.to = p /\ f.ok = ok /\ AnswersRequest(f)
    BY <2>1, FrameIs DEF AnswersRequest
  <2>3. /\ Send(f, TRUE)
        /\ subscribed' = CASE ok /\ p.kind = "subscribe" -> TRUE
                           [] ok /\ p.kind = "unsubscribe" -> FALSE
                           [] OTHER -> subscribed
    BY <1>5 DEF Dispatch, Ans
  <2>4. <<0, Half(p, 1)>> \in Incoming
    BY <2>1, FedKeepsPackets
  <2> HIDE DEF p
  <2>5. connected => <<0, f>> \in Stream(b)
    <3> SUFFICES ASSUME connected PROVE <<0, f>> \in AnswersAt(Incoming, b)
      BY DEF Stream
    <3>1. <<0, f>> \in Int \X Frames /\ 0 > b
      BY <2>2
    <3>2. f \in {Ans(p, TRUE), Ans(p, FALSE)}
      OBVIOUS
    <3> HIDE DEF f
    <3> QED BY <2>1, <2>4, <3>1, <3>2 DEF AnswersAt
  <2>6. connected => Answered(f, Stream(b))
    BY <2>2, <2>5 DEF Answered
  <2>7. subscribed' \in BOOLEAN /\ (subscribed' => ~(ok /\ p.kind = "unsubscribe"))
        /\ (subscribed' /\ ~subscribed => ok /\ p.kind = "subscribe")
    BY <1>1, <2>3
  <2>8. connected /\ subscribed' /\ ~subscribed =>
          \E q \in Requests : q.kind = "subscribe" /\ <<0, Ans(q, TRUE)>> \in Stream(b)
    BY <2>1, <2>5, <2>7
  <2> HIDE DEF f
  <2>9. /\ s_tx' \in Seq(Frames) /\ air' \in Frames \cup {Nothing}
        /\ ~connected => s_tx' = s_tx /\ air' = air
        /\ \/ FramesAt(s_tx', air') = FramesAt(s_tx, air)
           \/ \A x \in FramesAt(s_tx', air') :
                 x = <<-1, f>> \/ (<<x[1] + 1, x[2]>> \in FramesAt(s_tx, air) /\ x[1] < -1)
    BY <1>1, <2>2, <2>3, SendIs
  <2> QED BY <1>1, <2>2, <2>6, <2>7, <2>8, <2>9
<1> QED BY <1>2, <1>3, <1>4, <1>5

(* What is on its way stays sound.                                         *)
LEMMA FedIsSound ==
  ASSUME SessionInv, Feed, line \in Seq(Items), NEW b \in Int, NEW c \in Int,
         (b >= 0 => c = b - 1), (b < 0 => b = -1 /\ c = -1),
         connected => b = -1, SoundFrom(b), Wanted(asked) => mayPush
  PROVE  /\ s_tx' \in Seq(Frames) /\ air' \in Frames \cup {Nothing} /\ subscribed' \in BOOLEAN
         /\ ~connected => s_tx' = s_tx /\ air' = air
         /\ Sound(Stream(c)', asked, mayPush, odd')
         /\ connected /\ subscribed' => PushesSound(Stream(c)', asked, mayPush)
<1> DEFINE S == Stream(b)
           T == Stream(c)'
           F == FramesAt(s_tx, air)
           G == FramesAt(s_tx', air')
<1>1. /\ mayPush \in BOOLEAN /\ odd \in BOOLEAN /\ odd' \in BOOLEAN /\ (odd => odd')
      /\ s_tx \in Seq(Frames) /\ subscribed \in BOOLEAN
  BY DEF SessionInv, SessionTypes, Feed
<1>2. /\ Sound(S, asked, mayPush, odd) /\ (~odd => Alternate(Incoming, b))
      /\ connected /\ subscribed => PushesSound(S, asked, mayPush)
  BY DEF SoundFrom
<1>3. /\ s_tx' \in Seq(Frames) /\ air' \in Frames \cup {Nothing}
      /\ ~connected => s_tx' = s_tx /\ air' = air
      /\ subscribed' \in BOOLEAN
      /\ \/ G = F
         \/ \E f \in Frames :
              /\ Answered(f, S)
              /\ \A x \in G : x = <<-1, f>> \/ (<<x[1] + 1, x[2]>> \in F /\ x[1] < -1)
              /\ subscribed' => ~(f.what = "answer" /\ f.ok /\ f.to.kind = "unsubscribe")
      /\ connected /\ subscribed' /\ ~subscribed =>
           \E p \in Requests : p.kind = "subscribe" /\ <<0, Ans(p, TRUE)>> \in S
  BY <1>2, FedFrames
<1>4. T = G \cup AnswersAt(Incoming', c)
  BY DEF Stream
<1>5. \A x \in AnswersAt(Incoming', c) : x[1] \in Int /\ x[1] >= 0 /\ <<x[1] + 1, x[2]>> \in S
  BY FedAnswers DEF Stream
<1>6. F \subseteq S /\ (\A x \in F : x = <<x[1], x[2]>> /\ x[1] \in Int /\ x[1] <= -1)
      /\ \A x \in G : x[1] \in Int /\ x[1] <= -1
  <2>1. F \subseteq S
    BY DEF Stream
  <2>2. \A x \in F : x = <<x[1], x[2]>> /\ x[1] \in Int /\ x[1] <= -1
    BY <1>1, FramesAtIs
  <2>3. \A x \in G : x[1] \in Int /\ x[1] <= -1
    BY <1>3, FramesAtIs
  <2> QED BY <2>1, <2>2, <2>3
<1>7. connected /\ subscribed' => PushesSound(S, asked, mayPush)
  <2> SUFFICES ASSUME connected, subscribed', ~subscribed PROVE PushesSound(S, asked, mayPush)
    BY <1>1, <1>2
  <2>1. PICK p \in Requests : p.kind = "subscribe" /\ <<0, Ans(p, TRUE)>> \in S
    BY <1>3
  <2> HIDE DEF S
  <2> QED BY <1>2, <2>1, SubscribeComesLast
<1> HIDE DEF S, T, F, G
<1>8. CASE G = F
  <2> DEFINE m == [i \in Int |-> IF i < 0 THEN i ELSE i + 1]
  <2>1. m \in [Int -> Int] /\ \A i, j \in Int : i < j => m[i] < m[j]
    OBVIOUS
  <2>2. \A i \in Int : (i <= -1 => m[i] = i) /\ (i >= 0 => m[i] = i + 1)
    OBVIOUS
  <2> HIDE DEF m
  <2>3. \A x \in T : x[1] \in Int /\ <<m[x[1]], x[2]>> \in S
    <3>1. ASSUME NEW x \in F PROVE x[1] \in Int /\ <<m[x[1]], x[2]>> \in S
      <4>1. x[1] \in Int /\ m[x[1]] = x[1] /\ <<x[1], x[2]>> \in S
        BY <1>6, <2>2, <3>1
      <4> QED BY ONLY <4>1
    <3>2. ASSUME NEW x \in AnswersAt(Incoming', c) PROVE x[1] \in Int /\ <<m[x[1]], x[2]>> \in S
      <4>1. x[1] \in Int /\ m[x[1]] = x[1] + 1 /\ <<x[1] + 1, x[2]>> \in S
        BY <1>5, <2>2, <3>2
      <4> QED BY ONLY <4>1
    <3> QED BY <1>4, <1>8, <3>1, <3>2
  <2>4. Sound(T, asked, mayPush, odd')
    <3>1. Sound(S, asked, mayPush, odd)
      BY <1>2
    <3>2. mayPush \in BOOLEAN /\ odd \in BOOLEAN /\ odd' \in BOOLEAN /\ (odd => odd')
      BY <1>1
    <3>3. MovesTo(m, S, T, odd')
      BY <2>1, <2>3 DEF MovesTo
    <3> QED BY ONLY <3>1, <3>2, <3>3, MovedIsSound
  <2>5. ASSUME connected, subscribed' PROVE PushesSound(T, asked, mayPush)
    <3>1. ASSUME NEW x \in T, x[1] < 0 PROVE x \in S
      <4>1. x \in AnswersAt(Incoming', c) => x[1] \in Int /\ x[1] >= 0
        BY <1>5
      <4>2. x \notin AnswersAt(Incoming', c)
        BY <3>1, <4>1
      <4> QED BY <1>4, <1>6, <1>8, <4>2
    <3> QED BY <1>7, <2>5, <3>1 DEF PushesSound
  <2> QED BY <1>3, <2>4, <2>5 DEF T
<1>9. ASSUME NEW f \in Frames, Answered(f, S),
             \A x \in G : x = <<-1, f>> \/ (<<x[1] + 1, x[2]>> \in F /\ x[1] < -1),
             subscribed' => ~(f.what = "answer" /\ f.ok /\ f.to.kind = "unsubscribe")
      PROVE  /\ Sound(T, asked, mayPush, odd')
             /\ connected /\ subscribed' => PushesSound(T, asked, mayPush)
  <2> DEFINE m == [i \in Int |-> i + 1]
  <2>1. m \in [Int -> Int] /\ \A i, j \in Int : i < j => m[i] < m[j]
    OBVIOUS
  <2>2. (\A i \in Int : m[i] = i + 1) /\ m[-1] = 0
    OBVIOUS
  <2> HIDE DEF m
  <2>3. \A x \in T : /\ x[1] \in Int
                     /\ <<m[x[1]], x[2]>> \in S \/ (x[2] = Ans(Noise, FALSE) /\ odd')
    <3> TAKE x \in T
    <3>1. CASE x \in AnswersAt(Incoming', c)
      BY <1>5, <2>2, <3>1
    <3>2. CASE x \in G /\ <<x[1] + 1, x[2]>> \in F
      BY <1>6, <2>2, <3>2
    <3>3. CASE x = <<-1, f>>
      <4>1. x[1] = -1 /\ x[2] = f /\ -1 \in Int
        BY <3>3
      <4>2. <<m[x[1]], x[2]>> = <<0, f>>
        BY <2>2, <4>1
      <4> QED BY <1>9, <4>1, <4>2 DEF Answered
    <3> QED BY <1>4, <1>9, <3>1, <3>2, <3>3
  <2>4. Sound(T, asked, mayPush, odd')
    <3>1. Sound(S, asked, mayPush, odd)
      BY <1>2
    <3>2. mayPush \in BOOLEAN /\ odd \in BOOLEAN /\ odd' \in BOOLEAN /\ (odd => odd')
      BY <1>1
    <3>3. MovesTo(m, S, T, odd')
      BY <2>1, <2>3 DEF MovesTo
    <3> QED BY ONLY <3>1, <3>2, <3>3, MovedIsSound
  <2>5. ASSUME connected, subscribed' PROVE PushesSound(T, asked, mayPush)
    <3>1. PushesSound(S, asked, mayPush)
      BY <1>7, <2>5
    <3>2. InOrder(f, PushFrame, asked)
      <4>1. ~AnswersRequest(PushFrame)
        BY FrameIs
      <4> QED BY <1>9, <2>5, <4>1 DEF InOrder, AnswersRequest
    <3>3. ASSUME NEW x \in T, x[1] < 0 PROVE InOrder(x[2], PushFrame, asked)
      <4>1. x \in G
        <5>1. x \in AnswersAt(Incoming', c) => x[1] \in Int /\ x[1] >= 0
          BY <1>5
        <5>2. x \notin AnswersAt(Incoming', c)
          BY <3>3, <5>1
        <5> QED BY <1>4, <5>2
      <4>2. CASE <<x[1] + 1, x[2]>> \in F /\ x[1] < -1
        <5>1. <<x[1] + 1, x[2]>> \in S /\ <<x[1] + 1, x[2]>>[1] < 0
          <6>1. x[1] \in Int
            BY <1>6, <4>1
          <6> QED BY <1>6, <4>2, <6>1
        <5>2. InOrder(<<x[1] + 1, x[2]>>[2], PushFrame, asked)
          BY <3>1, <5>1 DEF PushesSound
        <5> QED BY <5>2
      <4>3. CASE x = <<-1, f>>
        BY <3>2, <4>3
      <4> QED BY <1>9, <4>1, <4>2, <4>3
    <3> QED BY <3>1, <3>3 DEF PushesSound
  <2> QED BY <2>4, <2>5
<1> QED BY <1>3, <1>8, <1>9 DEF T

LEMMA FedTypes ==
  ASSUME SessionInv, Feed
  PROVE  /\ s_tx' \in Seq(Frames) /\ air' \in Frames \cup {Nothing} /\ subscribed' \in BOOLEAN
         /\ ~connected => s_tx' = s_tx
<1> DEFINE h == Head(out)
<1>1. /\ SessionTypes /\ subscribed \in BOOLEAN /\ s_tx \in Seq(Frames)
      /\ air \in Frames \cup {Nothing} /\ part \in Halves \cup {Nothing}
  BY DEF SessionInv, SessionTypes
<1>2. \/ NoPacket
      \/ \E p \in Requests \cup {Noise}, ok \in BOOLEAN : Dispatch(p, ok)
  <2>1. \/ NoPacket
        \/ Dispatch(Noise, FALSE)
        \/ \E ok \in BOOLEAN : Dispatch(part.of, ok) /\ Whole(part.of, ok, h)
    BY FeedIs
  <2>2. ASSUME NEW ok, Whole(part.of, ok, h) PROVE part.of \in Requests
    BY <1>1, <2>2, HalfIs DEF Whole
  <2> QED BY <2>1, <2>2
<1>3. CASE NoPacket
  BY <1>1, <1>3 DEF NoPacket, txVars
<1>4. ASSUME NEW p \in Requests \cup {Noise}, NEW ok \in BOOLEAN, Dispatch(p, ok)
      PROVE  /\ s_tx' \in Seq(Frames) /\ air' \in Frames \cup {Nothing} /\ subscribed' \in BOOLEAN
             /\ ~connected => s_tx' = s_tx
  <2>1. Ans(p, ok) \in Frames
    BY FrameIs
  <2>2. Send(Ans(p, ok), TRUE)
    BY <1>4 DEF Dispatch, Ans
  <2>3. s_tx' \in Seq(Frames) /\ air' \in Frames \cup {Nothing} /\ (~connected => s_tx' = s_tx)
    BY <1>1, <2>1, <2>2, SendIs
  <2>4. subscribed' \in BOOLEAN
    BY <1>1, <1>4 DEF Dispatch
  <2> QED BY <2>3, <2>4
<1> QED BY <1>2, <1>3, <1>4

LEMMA SessionFeed ==
  ASSUME BringUpInv, TrackInv, SessionInv, Feed PROVE SessionInv' /\ HostRefinement
<1>1. /\ pc' = (IF out' = <<>> THEN "read" ELSE "feed")
      /\ UNCHANGED <<central, stream, mod, line, s_connected, s_was_connected, connected>>
      /\ UNCHANGED <<tail, asked, mayPush, heard>>
      /\ odd \in BOOLEAN /\ odd' \in BOOLEAN /\ (odd => odd')
  BY DEF Feed, modVars, drvVars, SessionInv, SessionTypes
<1>2. line \in Seq(Items) /\ connected \in BOOLEAN /\ s_tx \in Seq(Frames)
  BY DEF BringUpInv, LineTypes, SessionInv, SessionTypes
<1>3. out' \in Seq(Halves) /\ part' \in Halves \cup {Nothing}
  BY <1>2, FedKeepsPackets
<1>4. ASSUME /\ s_tx' \in Seq(Frames) /\ air' \in Frames \cup {Nothing} /\ subscribed' \in BOOLEAN
             /\ ~connected => s_tx' = s_tx
      PROVE  SessionTypes' /\ NobodyThere'
  <2>1. SessionTypes'
    BY <1>1, <1>3, <1>4 DEF SessionInv, SessionTypes
  <2>2. NobodyThere'
    <3>1. pc' # "feed" => out' = <<>>
      BY <1>1
    <3> QED BY <1>1, <1>4, <3>1 DEF SessionInv, NobodyThere, Stale
  <2> QED BY <2>1, <2>2
<1>5. CASE central
  <2>1. PICK b \in Int : BeginsAt(b) /\ SoundFrom(b)
    BY <1>5 DEF SessionInv, HostInv
  <2>2. PICK c \in Int : c = BeginsThen(b)
    BY DEF BeginsThen
  <2>3. (b >= 0 => c = b - 1) /\ (b < 0 => b = -1 /\ c = -1) /\ (connected => b = -1)
    <3>1. b >= -1 /\ (connected => b = -1)
      <4>1. out # <<>>
        BY DEF Feed
      <4> QED BY <2>1, <4>1 DEF BeginsAt
    <3>2. b < 0 => b = -1
      BY <3>1
    <3> QED BY <2>2, <3>1, <3>2 DEF BeginsThen
  <2>4. Wanted(asked) => mayPush
    BY <1>5 DEF SessionInv, HostInv
  <2>5. /\ s_tx' \in Seq(Frames) /\ air' \in Frames \cup {Nothing} /\ subscribed' \in BOOLEAN
        /\ ~connected => s_tx' = s_tx /\ air' = air
        /\ Sound(Stream(c)', asked, mayPush, odd')
        /\ connected /\ subscribed' => PushesSound(Stream(c)', asked, mayPush)
    BY <1>2, <2>1, <2>3, <2>4, FedIsSound
  <2>6. BeginsAt(c)'
    BY <2>1, <2>2, <2>5, BeginsFed
  <2>7. ASSUME ~odd' PROVE Alternate(Incoming', c)
    <3>1. Alternate(Incoming, b)
      BY <1>1, <2>1, <2>7 DEF SoundFrom
    <3> QED BY <1>2, <2>3, <2>7, <3>1, FedStaysWhole
  <2>8. SoundFrom(c)'
    BY <1>1, <2>5, <2>7 DEF SoundFrom
  <2>9. HostInv' /\ HostRefinement
    BY <1>1, <1>5, <2>6, <2>8, DeviceStep DEF SessionInv
  <2> QED BY <1>4, <2>5, <2>9 DEF SessionInv
<1>6. CASE ~central
  <2>1. central = FALSE
    BY <1>6 DEF TrackInv
  <2>2. HostInv' /\ HostRefinement
    BY <1>1, <2>1, OutsideStep
  <2>3. /\ s_tx' \in Seq(Frames) /\ air' \in Frames \cup {Nothing} /\ subscribed' \in BOOLEAN
        /\ ~connected => s_tx' = s_tx
    BY FedTypes
  <2> QED BY <1>4, <2>2, <2>3 DEF SessionInv
<1> QED BY <1>5, <1>6
-----------------------------------------------------------------------------
(* A chunk is read.                                                        *)

(* hal_uart_read drops the first d items.                                  *)
LEMMA ReadableIs ==
  ASSUME NEW s \in Seq(Items)
  PROVE  \E d \in Nat : Len(s) = Len(Readable(s)) + d /\ From(Readable(s), s, d)
<1> DEFINE a == Available(s)
           n == IF a > Slots - Margin THEN Slots - Margin ELSE a
           L == Len(s)
           t == SubSeq(s, L - n + 1, L)
<1>1. Slots \in Nat \ {0} /\ Margin \in 1 .. Slots - 1 /\ L \in Nat
  BY BleAssumption
<1>2. L % Slots \in 0 .. Slots - 1 /\ L % Slots <= L
  BY <1>1, RemainderIs
<1>3. n \in 0 .. L
  BY <1>1, <1>2 DEF Available
<1>4. Readable(s) = t
  BY DEF Readable, Newest
<1> HIDE DEF n
<1>5. L - n + 1 \in 1 .. L + 1 /\ L \in 0 .. L /\ L - n \in Nat /\ (L - n + 1) - 1 = L - n
      /\ \A i \in L - n + 1 .. L : s[i] \in Items
  BY <1>1, <1>3
<1>6. From(t, s, (L - n + 1) - 1)
  BY <1>5, SubSeqIsPart
<1>7. Len(t) = IF L - n + 1 <= L THEN L - (L - n + 1) + 1 ELSE 0
  BY <1>1, <1>5, SubSeqProperties
<1> HIDE DEF L, t
<1>8. Len(t) = n
  BY ONLY <1>1, <1>3, <1>7
<1>9. L = n + (L - n)
  BY <1>1, <1>3
<1> QED BY <1>4, <1>5, <1>6, <1>8, <1>9 DEF L

(* The payload: what comes after a token is its end, half for half; and    *)
(* no CONNECT or OPEN, no connection.                                      *)
Ends(o, s, m) ==
  /\ o \in Seq(Halves) /\ Len(o) <= m /\ (m > 0 /\ IsToken(s[1]) => Len(o) < m)
  /\ \A t \in 0 .. m : (\A j \in t + 1 .. m : ~IsToken(s[j])) =>
       Len(o) >= m - t /\ \A i \in t + 1 .. m : o[Len(o) - (m - i)] = s[i].data

LEMMA TextIs == ASSUME NEW i \in Items PROVE Text(i) = i.data /\ Text(i) \in Halves
<1>1. i.said = "data" \/ i.data = Garbage
  BY DEF Items
<1>2. i.data \in Halves
  BY ItemIs
<1> QED BY <1>1, <1>2 DEF Text

(* One item more.                                                          *)
LEMMA EndsMore ==
  ASSUME NEW s \in Seq(Items), NEW m \in 1 .. Len(s), NEW o, Ends(o, s, m - 1)
  PROVE  /\ IsToken(s[m]) => Ends(o, s, m)
         /\ ~IsToken(s[m]) => Ends(Append(o, Text(s[m])), s, m)
<1>1. Len(s) \in Nat /\ m \in Nat /\ m >= 1 /\ s[m] \in Items
  OBVIOUS
<1>2. /\ o \in Seq(Halves) /\ Len(o) \in Nat /\ Len(o) <= m - 1
      /\ \A t \in 0 .. m - 1 : (\A j \in t + 1 .. m - 1 : ~IsToken(s[j])) =>
            /\ Len(o) >= (m - 1) - t
            /\ \A i \in t + 1 .. m - 1 : o[Len(o) - ((m - 1) - i)] = s[i].data
  <2>1. o \in Seq(Halves) /\ Len(o) <= m - 1
    BY Zenon DEF Ends
  <2>2. \A t \in 0 .. m - 1 : (\A j \in t + 1 .. m - 1 : ~IsToken(s[j])) =>
            /\ Len(o) >= (m - 1) - t
            /\ \A i \in t + 1 .. m - 1 : o[Len(o) - ((m - 1) - i)] = s[i].data
    BY Zenon DEF Ends
  <2>3. Len(o) \in Nat
    BY <2>1
  <2> QED BY <2>1, <2>2, <2>3, Zenon
<1>0. m > 1 /\ IsToken(s[1]) => Len(o) < m - 1
  <2>1. m - 1 > 0 /\ IsToken(s[1]) => Len(o) < m - 1
    BY Zenon DEF Ends
  <2>2. m > 1 => m - 1 > 0
    BY <1>1
  <2> QED BY <2>1, <2>2
<1>3. ASSUME IsToken(s[m]) PROVE Ends(o, s, m)
  <2>1. ASSUME NEW t \in 0 .. m, \A j \in t + 1 .. m : ~IsToken(s[j])
        PROVE  Len(o) >= m - t /\ \A i \in t + 1 .. m : o[Len(o) - (m - i)] = s[i].data
    <3>1. m \notin t + 1 .. m
      BY <1>3, <2>1
    <3>2. t = m
      BY <1>1, <3>1
    <3> QED BY <1>1, <1>2, <3>2
  <2>2. Len(o) <= m /\ Len(o) < m
    BY <1>1, <1>2
  <2> QED BY <1>2, <2>1, <2>2 DEF Ends
<1>4. ASSUME ~IsToken(s[m]) PROVE Ends(Append(o, Text(s[m])), s, m)
  <2> DEFINE q == Append(o, Text(s[m]))
             n == Len(o)
  <2>1. /\ q \in Seq(Halves) /\ Len(q) = n + 1 /\ q[n + 1] = s[m].data
        /\ \A k \in 1 .. n : q[k] = o[k]
    BY <1>1, <1>2, TextIs
  <2> HIDE DEF q, n
  <2>2. n \in Nat /\ n <= m - 1 /\ n + 1 <= m
    BY <1>1, <1>2 DEF n
  <2>3. ASSUME NEW t \in 0 .. m, \A j \in t + 1 .. m : ~IsToken(s[j])
        PROVE  n + 1 >= m - t /\ \A i \in t + 1 .. m : q[(n + 1) - (m - i)] = s[i].data
    <3>1. CASE t = m
      BY <1>1, <2>2, <3>1
    <3>2. CASE t \in 0 .. m - 1
      <4>1. \A j \in t + 1 .. m - 1 : ~IsToken(s[j])
        <5>1. \A j \in t + 1 .. m - 1 : j \in t + 1 .. m
          BY <1>1
        <5> QED BY <2>3, <5>1
      <4>2. /\ n >= (m - 1) - t
            /\ \A i \in t + 1 .. m - 1 : o[n - ((m - 1) - i)] = s[i].data
        BY <1>2, <3>2, <4>1 DEF n
      <4>3. n + 1 >= m - t
        BY <1>1, <2>2, <3>2, <4>2
      <4>4. ASSUME NEW i \in t + 1 .. m PROVE q[(n + 1) - (m - i)] = s[i].data
        <5>1. CASE i = m
          <6>1. (n + 1) - (m - i) = n + 1
            BY <1>1, <2>2, <5>1
          <6> QED BY <2>1, <5>1, <6>1
        <5>2. CASE i # m
          <6>1. i \in t + 1 .. m - 1
            BY <1>1, <3>2, <5>2
          <6>2. (n + 1) - (m - i) = n - ((m - 1) - i) /\ n - ((m - 1) - i) \in 1 .. n
            BY <1>1, <2>2, <3>2, <4>2, <6>1
          <6> QED BY <2>1, <4>2, <6>1, <6>2
        <5> QED BY <5>1, <5>2
      <4> QED BY <4>3, <4>4
    <3> QED BY <1>1, <3>1, <3>2
  <2>4. IsToken(s[1]) => n + 1 < m
    <3>1. IsToken(s[1]) => m > 1
      BY <1>1, <1>4
    <3> QED BY <1>0, <1>1, <1>2, <3>1 DEF n
  <2> QED BY <2>1, <2>2, <2>3, <2>4 DEF Ends, q
<1> QED BY <1>3, <1>4

LEMMA ParsedEnds ==
  ASSUME NEW s \in Seq(Items), NoPercent(s), NEW n \in 0 .. Len(s), NEW c,
         NEW a, a = [on |-> c, held |-> Nothing, out |-> <<>>]
  PROVE  /\ Ends(Parsed(a, s, n).out, s, n)
         /\ (c = FALSE /\ \A k \in 1 .. n : ~Up(s[k].said)) => Parsed(a, s, n).on = FALSE
         /\ c \in BOOLEAN => Parsed(a, s, n).on \in BOOLEAN
<1> DEFINE after == CHOOSE f : Taking(f, a, s, n)
<1>1. n \in Nat /\ Len(s) \in Nat
  OBVIOUS
<1>2. Taking(after, a, s, n)
  BY <1>1, ParsedFunction
<1>3. Parsed(a, s, n) = after[n]
  BY DEF Parsed, Taking
<1> HIDE DEF after
<1>4. \A k \in 0 .. n : after[k] = IF k = 0 THEN a ELSE Takes(after[k - 1], s[k])
  BY <1>2 DEF Taking
<1> DEFINE Q(m) ==
      \E on, payload :
        /\ after[m] = [on |-> on, held |-> Nothing, out |-> payload]
        /\ Ends(payload, s, m)
        /\ (c = FALSE /\ \A k \in 1 .. m : ~Up(s[k].said)) => on = FALSE
        /\ c \in BOOLEAN => on \in BOOLEAN
<1>5. Q(0)
  <2>1. after[0] = [on |-> c, held |-> Nothing, out |-> <<>>]
    BY <1>1, <1>4
  <2>2. Ends(<<>>, s, 0)
    <3>1. <<>> \in Seq(Halves) /\ Len(<<>>) = 0
      OBVIOUS
    <3>2. ASSUME NEW t \in 0 .. 0 PROVE 0 >= 0 - t /\ \A i \in t + 1 .. 0 : FALSE
      <4>1. t = 0
        OBVIOUS
      <4>2. 1 .. 0 = {} /\ 0 + 1 = 1 /\ 0 >= 0 - 0
        OBVIOUS
      <4> QED BY <4>1, <4>2
    <3>3. ~(0 > 0) /\ 0 <= 0
      OBVIOUS
    <3> QED BY <3>1, <3>2, <3>3 DEF Ends
  <2> QED BY <2>1, <2>2
<1>6. ASSUME NEW m \in 1 .. n, Q(m - 1) PROVE Q(m)
  <2>1. PICK on, payload :
          /\ after[m - 1] = [on |-> on, held |-> Nothing, out |-> payload]
          /\ Ends(payload, s, m - 1)
          /\ (c = FALSE /\ \A k \in 1 .. m - 1 : ~Up(s[k].said)) => on = FALSE
          /\ c \in BOOLEAN => on \in BOOLEAN
    BY <1>6
  <2>2. after[m] = Takes(after[m - 1], s[m])
    BY <1>1, <1>4, <1>6
  <2>3. m \in 1 .. Len(s) /\ ~EndsInPercent(s[m].data)
    BY <1>1, <1>6 DEF NoPercent
  <2>4. /\ IsToken(s[m]) => Ends(payload, s, m)
        /\ ~IsToken(s[m]) => Ends(Append(payload, Text(s[m])), s, m)
    BY <2>1, <2>3, EndsMore
  <2>5. /\ \A k \in 1 .. m - 1 : k \in 1 .. m
        /\ m \in 1 .. m
    BY <1>1
  <2>6. Takes([on |-> on, held |-> Nothing, out |-> payload], s[m])
          = IF IsToken(s[m]) THEN [on |-> Up(s[m].said), held |-> Nothing, out |-> payload]
            ELSE [on |-> on, held |-> Nothing, out |-> Append(payload, Text(s[m]))]
    BY ONLY <2>3, TakesIs, Zenon
  <2>7. CASE IsToken(s[m])
    <3>1. after[m] = [on |-> Up(s[m].said), held |-> Nothing, out |-> payload]
      BY ONLY <2>1, <2>2, <2>6, <2>7, Zenon
    <3>2. (\A k \in 1 .. m : ~Up(s[k].said)) => Up(s[m].said) = FALSE
      BY <2>5, UpIs
    <3>3. Up(s[m].said) \in BOOLEAN
      BY UpIs
    <3> QED BY <2>4, <2>7, <3>1, <3>2, <3>3, Zenon
  <2>8. CASE ~IsToken(s[m])
    <3>1. after[m] = [on |-> on, held |-> Nothing, out |-> Append(payload, Text(s[m]))]
      BY ONLY <2>1, <2>2, <2>6, <2>8, Zenon
    <3>2. (c = FALSE /\ \A k \in 1 .. m : ~Up(s[k].said)) => on = FALSE
      BY <2>1, <2>5
    <3> QED BY <2>1, <2>4, <2>8, <3>1, <3>2, Zenon
  <2> QED BY <2>7, <2>8
<1>7. Q(n)
  <2> DEFINE S == {m \in 0 .. n : ~Q(m)}
  <2>1. S \subseteq Nat
    BY <1>1
  <2>2. SUFFICES ASSUME S # {} PROVE FALSE
    <3>1. n \in 0 .. n
      BY <1>1
    <3> HIDE DEF Q
    <3> QED BY <3>1
  <2>3. PICK m \in S : \A j \in S : m <= j
    <3> HIDE DEF S
    <3> QED BY <2>1, <2>2, LeastOf
  <2> HIDE DEF Q
  <2>4. m \in 0 .. n /\ ~Q(m)
    BY <2>3
  <2>5. m # 0
    BY <1>5, <2>4
  <2>6. m \in 1 .. n /\ m - 1 \in 0 .. n /\ ~(m <= m - 1)
    BY <1>1, <2>4, <2>5
  <2>7. Q(m - 1)
    BY <2>3, <2>6
  <2> QED BY <1>6, <2>4, <2>6, <2>7
<1>8. PICK on, payload :
        /\ after[n] = [on |-> on, held |-> Nothing, out |-> payload]
        /\ Ends(payload, s, n)
        /\ (c = FALSE /\ \A k \in 1 .. n : ~Up(s[k].said)) => on = FALSE
        /\ c \in BOOLEAN => on \in BOOLEAN
  BY <1>7
<1>9. Parsed(a, s, n).on = on /\ Parsed(a, s, n).out = payload
  BY <1>3, <1>8
<1> QED BY <1>8, <1>9

(* pump_data_mode: d items were lost, n are read.                          *)
ChunkFacts(d, n) ==
  /\ d \in Nat /\ n \in Nat /\ n >= 1 /\ Len(line) = (d + n) + Len(line') /\ line' \in Seq(Items)
  /\ \A j \in 1 .. Len(line') : line'[j] = line[(d + n) + j]
  /\ odd' = (odd \/ d > 0) /\ s_connected' \in BOOLEAN
  /\ out' \in Seq(Halves) /\ Len(out') <= n /\ (IsToken(line[d + 1]) => Len(out') < n)
  /\ \A t \in 0 .. n : (\A j \in t + 1 .. n : ~IsToken(line[d + j])) =>
        /\ Len(out') >= n - t
        /\ \A i \in t + 1 .. n : out'[Len(out') - (n - i)] = line[d + i].data
  /\ ~s_connected /\ (\A k \in 1 .. n : ~Up(line[d + k].said)) => ~s_connected'
  /\ (\A k \in 1 .. n : ~IsToken(line[d + k])) => s_connected' = s_connected
  /\ \A k \in 1 .. n :
        Up(line[d + k].said) /\ (\A j \in k + 1 .. n : ~IsToken(line[d + j])) => s_connected'

LEMMA ChunkIs ==
  ASSUME "percent" \notin Kinds, BringUpInv, TrackInv, SessionInv, ReadChunk
  PROVE  \E d, n \in Nat : ChunkFacts(d, n)
<1> DEFINE r == Readable(line)
           a == [on |-> s_connected, held |-> Nothing, out |-> <<>>]
<1>1. /\ line \in Seq(Items) /\ s_in_tok = Nothing /\ s_connected \in BOOLEAN
  BY DEF BringUpInv, LineTypes, TrackInv, SessionInv, SessionTypes
<1>2. odd' = (odd \/ Len(r) < Len(line))
  BY DEF ReadChunk
<1>3. PICK n \in 1 .. (IF Len(r) < Chunk THEN Len(r) ELSE Chunk) :
        /\ line' = SubSeq(r, n + 1, Len(r)) /\ out' = Parsed(a, r, n).out
        /\ s_connected' = Parsed(a, r, n).on
  BY <1>1 DEF ReadChunk
<1>4. r \in Seq(Items) /\ Len(r) \in Nat /\ DOMAIN r = 1 .. Len(r) /\ Len(line) \in Nat
  BY <1>1, ReadableIsPart
<1>5. n \in 0 .. Len(r) /\ n \in Nat /\ n >= 1
  BY <1>3, <1>4, BleAssumption
<1>6. NoPercent(r)
  BY <1>4, NoneEndsInPercent
<1>7. PICK d \in Nat : Len(line) = Len(r) + d /\ From(r, line, d)
  BY <1>1, ReadableIs
<1> HIDE DEF r
<1>8. \A j \in 1 .. Len(r) : r[j] = line[d + j]
  <2>1. \A j \in 1 .. Len(r) : j + d = d + j
    BY <1>4
  <2> QED BY <1>4, <1>7, <2>1 DEF From
<1>9. /\ line' \in Seq(Items) /\ Len(line') = Len(r) - n
      /\ \A i \in 1 .. Len(r) - n : line'[i] = r[n + i]
  <2>1. r \in Seq(Items) /\ n \in 0 .. Len(r) /\ line' = SubSeq(r, n + 1, Len(r))
    BY <1>3, <1>4, <1>5
  <2>2. /\ SubSeq(r, n + 1, Len(r)) \in Seq(Items) /\ Len(SubSeq(r, n + 1, Len(r))) = Len(r) - n
        /\ \A i \in 1 .. Len(r) - n : SubSeq(r, n + 1, Len(r))[i] = r[n + i]
    BY ONLY <2>1, RestIs
  <2> QED BY ONLY <2>1, <2>2
<1>10. Len(line) = (d + n) + Len(line')
  BY <1>4, <1>5, <1>7, <1>9
<1>11. \A j \in 1 .. Len(line') : line'[j] = line[(d + n) + j]
  <2> TAKE j \in 1 .. Len(line')
  <2>1. j \in 1 .. Len(r) - n /\ n + j \in 1 .. Len(r) /\ d + (n + j) = (d + n) + j
    BY <1>4, <1>5, <1>9
  <2> QED BY <1>8, <1>9, <2>1
<1>12. odd' = (odd \/ d > 0)
  <2>1. Len(r) < Len(line) <=> d > 0
    BY <1>4, <1>7
  <2> QED BY <1>2, <2>1
<1>13. \A j \in 1 .. n : j \in 1 .. Len(r) /\ r[j] = line[d + j]
  BY <1>4, <1>5, <1>8
<1>14. /\ Ends(out', r, n)
       /\ (s_connected = FALSE /\ \A k \in 1 .. n : ~Up(r[k].said)) => s_connected' = FALSE
       /\ s_connected' \in BOOLEAN
  BY <1>1, <1>3, <1>4, <1>5, <1>6, ParsedEnds
<1>15. /\ (\A k \in 1 .. n : ~IsToken(r[k])) => s_connected' = s_connected
       /\ \A k \in 1 .. n : LastToken(r, k, n) => s_connected' = Up(r[k].said)
  BY <1>3, <1>4, <1>5, <1>6, ParsedIs
<1>16. \A t \in 0 .. n : (\A j \in t + 1 .. n : ~IsToken(line[d + j])) =>
          /\ Len(out') >= n - t
          /\ \A i \in t + 1 .. n : out'[Len(out') - (n - i)] = line[d + i].data
  <2> SUFFICES ASSUME NEW t \in 0 .. n, \A j \in t + 1 .. n : ~IsToken(line[d + j])
               PROVE  /\ Len(out') >= n - t
                      /\ \A i \in t + 1 .. n : out'[Len(out') - (n - i)] = line[d + i].data
    OBVIOUS
  <2>1. \A j \in t + 1 .. n : j \in 1 .. n
    BY <1>5
  <2>2. \A j \in t + 1 .. n : ~IsToken(r[j])
    BY <1>13, <2>1
  <2>3. /\ Len(out') >= n - t
        /\ \A i \in t + 1 .. n : out'[Len(out') - (n - i)] = r[i].data
    BY <1>14, <2>2 DEF Ends
  <2> QED BY <1>13, <2>1, <2>3
<1>17. \A k \in 1 .. n :
         Up(line[d + k].said) /\ (\A j \in k + 1 .. n : ~IsToken(line[d + j])) => s_connected'
  <2> SUFFICES ASSUME NEW k \in 1 .. n, Up(line[d + k].said),
                      \A j \in k + 1 .. n : ~IsToken(line[d + j])
               PROVE  s_connected'
    OBVIOUS
  <2>1. \A j \in k + 1 .. n : j \in 1 .. n
    BY <1>5
  <2>2. LastToken(r, k, n)
    BY <1>13, <2>1 DEF LastToken, Up, IsToken, Tokens
  <2> QED BY <1>13, <1>15, <2>2
<1>18. out' \in Seq(Halves) /\ Len(out') <= n /\ (IsToken(line[d + 1]) => Len(out') < n)
  <2>1. 1 \in 1 .. n /\ n > 0
    BY <1>5
  <2>2. r[1] = line[d + 1]
    BY <1>13, <2>1
  <2> QED BY <1>14, <2>1, <2>2 DEF Ends
<1>19. ~s_connected /\ (\A k \in 1 .. n : ~Up(line[d + k].said)) => ~s_connected'
  BY <1>1, <1>13, <1>14
<1>20. (\A k \in 1 .. n : ~IsToken(line[d + k])) => s_connected' = s_connected
  BY <1>13, <1>15
<1>21. ChunkFacts(d, n)
  BY <1>5, <1>7, <1>9, <1>10, <1>11, <1>12, <1>14, <1>16, <1>17, <1>18, <1>19, <1>20 DEF ChunkFacts
<1> QED BY <1>5, <1>7, <1>21

(* The places of what comes behind z move by e.                            *)
RestAt(o, q, l, K, e, z) ==
  /\ o \in Seq(Halves) /\ q \in Seq(Items) /\ l \in Seq(Items) /\ K \in Nat /\ e \in Nat
  /\ z \in Int /\ K = Len(o) + e /\ Len(l) = K + Len(q)
  /\ \A j \in 1 .. Len(q) : q[j] = l[K + j]
  /\ \A i \in 1 .. Len(o) : i > z => o[i] = l[i + e].data

LEMMA ChunkMoves ==
  ASSUME NEW p, NEW l, NEW t, NEW o, NEW q, NEW K, NEW e, NEW z, RestAt(o, q, l, K, e, z)
  PROVE  \A i \in Int : \A h : i >= 1 /\ i > z =>
           (<<i, h>> \in Coming(p, o, q, t) <=> <<i + e, h>> \in Coming(p, <<>>, l, t))
<1> DEFINE L == Len(o)
           M == Len(q)
           N == Len(l)
<1> USE DEF RestAt
<1>1. /\ L \in Nat /\ M \in Nat /\ N = K + M /\ DOMAIN o = 1 .. L /\ DOMAIN q = 1 .. M
      /\ DOMAIN l = 1 .. N /\ K = L + e /\ e \in Nat /\ K \in Nat
  OBVIOUS
<1> HIDE DEF L, M, N
<1> SUFFICES ASSUME NEW i \in Int, NEW h, i >= 1, i > z
             PROVE  <<i, h>> \in Coming(p, o, q, t) <=> <<i + e, h>> \in Coming(p, <<>>, l, t)
  OBVIOUS
<1>2. <<i, h>> \in Coming(p, o, q, t) <=>
        /\ h \in Halves
        /\ \/ i \in 1 .. L /\ h = o[i]
           \/ i - L \in 1 .. M /\ h = q[i - L].data
           \/ i = L + M + 1 /\ t # Nothing /\ h = t
  <2>1. i # 0
    OBVIOUS
  <2> QED BY <1>1, <2>1 DEF Coming, L, M
<1>3. <<i + e, h>> \in Coming(p, <<>>, l, t) <=>
        /\ h \in Halves
        /\ \/ i + e \in 1 .. N /\ h = l[i + e].data
           \/ i + e = N + 1 /\ t # Nothing /\ h = t
  <2>1. PICK y \in Int : y = i + e
    OBVIOUS
  <2>2. y # 0 /\ y - 0 = y /\ 0 + N + 1 = N + 1
    BY <1>1, <2>1
  <2>3. DOMAIN <<>> = {} /\ Len(<<>>) = 0
    OBVIOUS
  <2>4. <<y, h>> \in Coming(p, <<>>, l, t) <=>
          h \in Halves /\ ((y \in 1 .. N /\ h = l[y].data) \/ (y = N + 1 /\ t # Nothing /\ h = t))
    <3>1. <<y, h>> \in Int \X Halves <=> h \in Halves
      OBVIOUS
    <3>2. <<y, h>>[1] = y /\ <<y, h>>[2] = h /\ Len(l) = N
      BY DEF N
    <3> QED BY ONLY <1>1, <2>2, <2>3, <3>1, <3>2 DEF Coming
  <2> QED BY ONLY <2>1, <2>4
<1>4. i + e = N + 1 <=> i = L + M + 1
  BY <1>1
<1>5. CASE i \in 1 .. L
  <2>1. i + e \in 1 .. N /\ ~(i - L \in 1 .. M) /\ i # L + M + 1
    BY <1>1, <1>5
  <2>2. o[i] = l[i + e].data
    BY <1>5 DEF L
  <2> QED BY ONLY <1>2, <1>3, <1>4, <1>5, <2>1, <2>2, Zenon
<1>6. CASE ~(i \in 1 .. L)
  <2>0. i > L
    BY <1>1, <1>6
  <2>1. (i + e \in 1 .. N <=> i - L \in 1 .. M) /\ K + (i - L) = i + e
    <3>1. i + e <= N <=> i - L <= M
      BY ONLY <1>1, <2>0, i \in Int
    <3>2. i + e >= 1 /\ i - L >= 1 /\ K + (i - L) = i + e /\ i + e \in Int /\ i - L \in Int
      BY ONLY <1>1, <2>0, i \in Int
    <3> QED BY ONLY <1>1, <3>1, <3>2
  <2>2. i - L \in 1 .. M => q[i - L] = l[i + e]
    BY <2>1 DEF M
  <2> QED BY ONLY <1>2, <1>3, <1>4, <1>6, <2>1, <2>2
<1> QED BY <1>5, <1>6

(* Behind place c the half packets keep their order: what has not come to  *)
(* the reassembler's place moves by e, and there is nothing of before b.   *)
PlacesMove(b, c, e) ==
  \A i \in Int : \A h : i > c =>
    /\ i >= 1 => i + e > b /\ (<<i, h>> \in Incoming' <=> <<i + e, h>> \in Incoming)
    /\ i <= 0 => i > b /\ (<<i, h>> \in Incoming' <=> <<i, h>> \in Incoming)

LEMMA PartPlace ==
  ASSUME NEW p, NEW o \in Seq(Halves), NEW l \in Seq(Items), NEW t, NEW i \in Int, i <= 0, NEW h
  PROVE  <<i, h>> \in Coming(p, o, l, t) <=> i = 0 /\ p # Nothing /\ p \in Halves /\ h = p
<1>1. ASSUME <<i, h>> \in Coming(p, o, l, t) PROVE i = 0 /\ p # Nothing /\ p \in Halves /\ h = p
  <2>1. /\ <<i, h>>[1] \in Int /\ <<i, h>>[1] >= 0 /\ <<i, h>>[2] \in Halves
        /\ <<i, h>>[1] = 0 => p # Nothing /\ <<i, h>>[2] = p
    BY <1>1, ComingIs
  <2>2. i = 0 /\ h \in Halves
    BY <2>1
  <2> QED BY <2>1, <2>2
<1>2. ASSUME i = 0, p # Nothing, p \in Halves, h = p PROVE <<i, h>> \in Coming(p, o, l, t)
  BY <1>2 DEF Coming
<1> QED BY <1>1, <1>2

LEMMA ChunkPlaces ==
  ASSUME NEW d \in Nat, NEW n \in Nat, ChunkFacts(d, n), line \in Seq(Items), out = <<>>,
         UNCHANGED <<part, tail>>, NEW t \in 0 .. n, \A j \in t + 1 .. n : ~IsToken(line[d + j]),
         NEW e \in Int, e = (d + n) - Len(out'), NEW b \in Int, NEW c \in Int,
         \A i \in Int : i > c /\ i >= 1 => i > Len(out') - (n - t) /\ i + e > b,
         \A i \in Int : i > c /\ i <= 0 => i > b
  PROVE  PlacesMove(b, c, e)
<1>1. PICK o \in Seq(Halves) : o = out'
  BY DEF ChunkFacts
<1>2. PICK q \in Seq(Items) : q = line'
  BY DEF ChunkFacts
<1>3. PICK L \in Nat : L = Len(o)
  BY <1>1
<1>0. n \in Nat /\ d \in Nat /\ t \in Nat /\ t <= n
  OBVIOUS
<1>4. PICK z \in Int : z = L - (n - t)
  BY ONLY <1>0, L \in Nat
<1>5. PICK K \in Nat : K = d + n
  OBVIOUS
<1>6. Incoming' = Coming(part, o, q, tail) /\ Incoming = Coming(part, <<>>, line, tail)
  BY <1>1, <1>2 DEF Incoming
<1>7. /\ L <= n /\ L >= n - t /\ e \in Nat /\ K = L + e
      /\ Len(line) = K + Len(q) /\ \A j \in 1 .. Len(q) : q[j] = line[K + j]
  <2>1. /\ Len(o) <= n /\ Len(o) >= n - t
        /\ Len(line) = (d + n) + Len(q) /\ \A j \in 1 .. Len(q) : q[j] = line[(d + n) + j]
    BY <1>1, <1>2 DEF ChunkFacts
  <2>2. e = K - L
    BY <1>1, <1>3, <1>5
  <2>3. L <= n /\ L >= n - t
    BY ONLY <1>3, <2>1
  <2>4. e \in Nat /\ K = L + e
    BY ONLY <1>0, <1>5, <2>2, <2>3, L \in Nat, K \in Nat
  <2> QED BY ONLY <1>5, <2>1, <2>3, <2>4
<1>8. \A i \in t + 1 .. n : o[L - (n - i)] = line[d + i].data
  BY <1>1, <1>3 DEF ChunkFacts
<1>9. \A i \in 1 .. L : i > z => o[i] = line[i + e].data
  <2> SUFFICES ASSUME NEW i \in 1 .. L, i > z PROVE o[i] = line[i + e].data
    OBVIOUS
  <2>0. i \in Int /\ i <= L /\ i > z /\ L \in Nat
    OBVIOUS
  <2>1. PICK j \in Int : j = (i - L) + n
    BY ONLY <1>0, <2>0
  <2>3. L - (n - j) = i
    BY ONLY <1>0, <2>0, <2>1, j \in Int
  <2>4. K = d + n /\ K = L + e /\ e \in Nat /\ z = L - (n - t)
    BY <1>4, <1>5, <1>7
  <2>5. d + j = i + e
    BY ONLY <1>0, <2>0, <2>1, <2>4, j \in Int
  <2>6. j \in t + 1 .. n
    BY ONLY <1>0, <2>0, <2>1, <2>4, j \in Int
  <2>2. j \in t + 1 .. n /\ L - (n - j) = i /\ d + j = i + e
    BY <2>3, <2>5, <2>6
  <2> QED BY <1>8, <2>2
<1>10. \A i \in Int : \A h : i >= 1 /\ i > z =>
         (<<i, h>> \in Coming(part, o, q, tail) <=> <<i + e, h>> \in Coming(part, <<>>, line, tail))
  <2>1. /\ o \in Seq(Halves) /\ q \in Seq(Items) /\ line \in Seq(Items) /\ K \in Nat
        /\ e \in Nat /\ z \in Int
    BY <1>7
  <2>2. K = Len(o) + e /\ Len(line) = K + Len(q)
    BY <1>3, <1>7
  <2>3. \A j \in 1 .. Len(q) : q[j] = line[K + j]
    BY <1>7
  <2>4. \A i \in 1 .. Len(o) : i > z => o[i] = line[i + e].data
    BY <1>3, <1>9
  <2>5. RestAt(o, q, line, K, e, z)
    BY ONLY <2>1, <2>2, <2>3, <2>4 DEF RestAt
  <2> QED BY ONLY <2>5, ChunkMoves
<1>11. ASSUME NEW i \in Int, NEW h, i > c, i >= 1
       PROVE  i + e > b /\ (<<i, h>> \in Incoming' <=> <<i + e, h>> \in Incoming)
  <2>1. i > z /\ i + e > b
    BY <1>1, <1>3, <1>4, <1>11
  <2> QED BY <1>6, <1>10, <1>11, <2>1
<1>12. ASSUME NEW i \in Int, NEW h, i > c, i <= 0
       PROVE  i > b /\ (<<i, h>> \in Incoming' <=> <<i, h>> \in Incoming)
  <2>1. <<>> \in Seq(Halves)
    OBVIOUS
  <2>2. <<i, h>> \in Coming(part, o, q, tail) <=> <<i, h>> \in Coming(part, <<>>, line, tail)
    <3>1. /\ <<i, h>> \in Coming(part, o, q, tail)
               <=> i = 0 /\ part # Nothing /\ part \in Halves /\ h = part
          /\ <<i, h>> \in Coming(part, <<>>, line, tail)
               <=> i = 0 /\ part # Nothing /\ part \in Halves /\ h = part
      BY <1>12, <2>1, PartPlace, Zenon
    <3> QED BY <3>1
  <2> QED BY <1>6, <1>12, <2>2
<1> QED BY <1>11, <1>12 DEF PlacesMove

LEMMA ChunkAnswers ==
  ASSUME NEW b \in Int, NEW c \in Int, NEW e \in Nat, PlacesMove(b, c, e),
         NEW x \in AnswersAt(Incoming', c)
  PROVE  /\ x = <<x[1], x[2]>> /\ x[1] \in Int
         /\ x[1] >= 1 => <<x[1] + e, x[2]>> \in AnswersAt(Incoming, b)
         /\ x[1] <= 0 => <<x[1], x[2]>> \in AnswersAt(Incoming, b)
<1>1. x = <<x[1], x[2]>> /\ x[1] \in Int /\ x[1] > c /\ x[2] \in Frames
  BY AnswersAtIs
<1>2. PICK p \in Requests : /\ <<x[1], Half(p, 1)>> \in Incoming'
                            /\ x[2] \in {Ans(p, TRUE), Ans(p, FALSE)}
  BY AnswersAtIs
<1>3. ASSUME x[1] >= 1 PROVE <<x[1] + e, x[2]>> \in AnswersAt(Incoming, b)
  <2>1. x[1] + e > b /\ <<x[1] + e, Half(p, 1)>> \in Incoming
    BY <1>1, <1>2, <1>3 DEF PlacesMove
  <2>2. <<x[1] + e, x[2]>> \in Int \X Frames
    BY <1>1
  <2> QED BY <1>2, <2>1, <2>2 DEF AnswersAt
<1>4. ASSUME x[1] <= 0 PROVE <<x[1], x[2]>> \in AnswersAt(Incoming, b)
  <2>1. x[1] > b /\ <<x[1], Half(p, 1)>> \in Incoming
    BY <1>1, <1>2, <1>4 DEF PlacesMove
  <2>2. <<x[1], x[2]>> \in Int \X Frames
    BY <1>1
  <2> QED BY <1>2, <2>1, <2>2 DEF AnswersAt
<1> QED BY <1>1, <1>3, <1>4

LEMMA ChunkIsSound ==
  ASSUME NEW b \in Int, NEW c \in Int, NEW e \in Nat, PlacesMove(b, c, e),
         mayPush \in BOOLEAN, odd \in BOOLEAN, odd' \in BOOLEAN, odd => odd',
         UNCHANGED <<s_tx, air>>, s_tx \in Seq(Frames),
         Sound(Stream(b), asked, mayPush, odd)
  PROVE  /\ Sound(Stream(c)', asked, mayPush, odd')
         /\ PushesSound(Stream(b), asked, mayPush) => PushesSound(Stream(c)', asked, mayPush)
<1> DEFINE m == [i \in Int |-> IF i >= 1 THEN i + e ELSE i]
<1>1. Stream(c)' = FramesAt(s_tx, air) \cup AnswersAt(Incoming', c)
  BY DEF Stream
<1>2. ASSUME NEW x \in Stream(c)'
      PROVE  /\ x[1] \in Int
             /\ x[1] >= 1 => <<x[1] + e, x[2]>> \in Stream(b)
             /\ x[1] <= 0 => <<x[1], x[2]>> \in Stream(b) /\ x \in Stream(b)
  <2>1. CASE x \in FramesAt(s_tx, air)
    <3>1. x = <<x[1], x[2]>> /\ x[1] \in Int /\ x[1] <= -1
      BY <2>1, FramesAtIs
    <3>2. ~(x[1] >= 1)
      BY <3>1
    <3>3. x \in Stream(b) /\ <<x[1], x[2]>> = x
      BY <2>1, <3>1 DEF Stream
    <3> QED BY ONLY <3>1, <3>2, <3>3
  <2>2. CASE x \in AnswersAt(Incoming', c)
    <3>1. /\ x = <<x[1], x[2]>> /\ x[1] \in Int
          /\ x[1] >= 1 => <<x[1] + e, x[2]>> \in AnswersAt(Incoming, b)
          /\ x[1] <= 0 => <<x[1], x[2]>> \in AnswersAt(Incoming, b)
      BY <2>2, ChunkAnswers
    <3>2. AnswersAt(Incoming, b) \subseteq Stream(b)
      BY DEF Stream
    <3> QED BY ONLY <3>1, <3>2
  <2> QED BY <1>1, <2>1, <2>2
<1>3. m \in [Int -> Int]
  OBVIOUS
<1>4. \A i, j \in Int : i < j => m[i] < m[j]
  OBVIOUS
<1>5. \A i \in Int : m[i] = IF i >= 1 THEN i + e ELSE i
  OBVIOUS
<1>6. \A x \in Stream(c)' : x[1] \in Int /\ <<m[x[1]], x[2]>> \in Stream(b)
  <2> TAKE x \in Stream(c)'
  <2> HIDE DEF m
  <2>1. /\ x[1] \in Int
        /\ x[1] >= 1 => <<x[1] + e, x[2]>> \in Stream(b)
        /\ x[1] <= 0 => <<x[1], x[2]>> \in Stream(b)
    BY <1>2, Zenon
  <2>2. CASE x[1] >= 1
    BY <1>5, <2>1, <2>2
  <2>3. CASE ~(x[1] >= 1)
    <3>1. x[1] <= 0
      BY <2>1, <2>3
    <3> QED BY <1>5, <2>1, <2>3, <3>1
  <2> QED BY <2>2, <2>3
<1> HIDE DEF m
<1>7. PICK S : S = Stream(b)
  OBVIOUS
<1>8. PICK T : T = Stream(c)'
  OBVIOUS
<1>9. Sound(T, asked, mayPush, odd')
  <2>1. \A x \in T : x[1] \in Int /\ (<<m[x[1]], x[2]>> \in S \/ (x[2] = Ans(Noise, FALSE) /\ odd'))
    BY <1>6, <1>7, <1>8
  <2>2. Sound(S, asked, mayPush, odd)
    BY <1>7
  <2>3. mayPush \in BOOLEAN /\ odd \in BOOLEAN /\ odd' \in BOOLEAN /\ (odd => odd')
    OBVIOUS
  <2>4. MovesTo(m, S, T, odd')
    BY <1>3, <1>4, <2>1 DEF MovesTo
  <2> QED BY ONLY <2>2, <2>3, <2>4, MovedIsSound
<1>10. ASSUME PushesSound(Stream(b), asked, mayPush) PROVE PushesSound(Stream(c)', asked, mayPush)
  <2>1. mayPush
    BY <1>10 DEF PushesSound
  <2>2. ASSUME NEW x \in Stream(c)', x[1] < 0 PROVE InOrder(x[2], PushFrame, asked)
    <3>1. x \in Stream(b)
      <4>1. x[1] \in Int /\ (x[1] <= 0 => x \in Stream(b))
        BY <1>2, Zenon
      <4>2. x[1] <= 0
        BY ONLY <2>2, <4>1
      <4> QED BY <4>1, <4>2
    <3> QED BY <1>10, <2>2, <3>1 DEF PushesSound
  <2> QED BY <2>1, <2>2 DEF PushesSound
<1> QED BY <1>8, <1>9, <1>10

LEMMA ChunkStaysWhole ==
  ASSUME NEW b \in Int, NEW c \in Int, NEW e \in Nat, PlacesMove(b, c, e), c = b - e,
         c >= 0 \/ e = 0, Alternate(Incoming, b),
         \A x \in Incoming : x[1] \in Int,
         \A x \in Incoming' : x[1] \in Int /\ x = <<x[1], x[2]>>
  PROVE  Alternate(Incoming', c)
<1>1. ASSUME NEW x \in Incoming', x[1] > b - e PROVE <<x[1] + e, x[2]>> \in Incoming
  <2>1. x[1] \in Int /\ x[1] > c /\ <<x[1], x[2]>> \in Incoming'
    BY <1>1
  <2>2. CASE x[1] >= 1
    BY <2>1, <2>2 DEF PlacesMove
  <2>3. CASE ~(x[1] >= 1)
    <3>1. x[1] <= 0 /\ e = 0 /\ x[1] + e = x[1]
      BY <2>1, <2>3
    <3> QED BY <2>1, <3>1 DEF PlacesMove
  <2> QED BY <2>2, <2>3
<1>2. ASSUME NEW i \in Int, NEW h, i > b, <<i, h>> \in Incoming PROVE <<i - e, h>> \in Incoming'
  <2>1. i - e \in Int /\ i - e > c /\ (i - e) + e = i
    BY <1>2
  <2>2. CASE i - e >= 1
    BY <1>2, <2>1, <2>2 DEF PlacesMove
  <2>3. CASE ~(i - e >= 1)
    <3>1. i - e <= 0 /\ e = 0 /\ i - e = i
      BY <2>1, <2>3
    <3> QED BY <1>2, <2>1, <3>1 DEF PlacesMove
  <2> QED BY <2>2, <2>3
<1>3. PICK S : S = Incoming
  OBVIOUS
<1>4. PICK T : T = Incoming'
  OBVIOUS
<1>5. \A i \in Int, p \in Requests, k \in {1, 2} :
         i > b /\ <<i, Half(p, k)>> \in S => <<i - e, Half(p, k)>> \in T
  BY <1>2, <1>3, <1>4
<1>6. \A x \in T : x[1] \in Int /\ (x[1] > b - e => <<x[1] + e, x[2]>> \in S)
  BY <1>1, <1>3, <1>4
<1>7. (\A x \in S : x[1] \in Int) /\ Alternate(S, b) /\ e \in Int
  BY <1>3
<1>8. Alternate(T, b - e)
  BY ONLY <1>5, <1>6, <1>7, MovedStaysWhole, b \in Int, Zenon
<1> QED BY <1>4, <1>8

(* Where the session begins after a chunk: at c; what comes behind is that *)
(* behind b.  When the OPEN is read after the edge, all of it has begun.   *)
Continues(b, c, e, t, n) ==
  /\ \A i \in Int : i > c /\ i >= 1 => i > Len(out') - (n - t) /\ i + e > b
  /\ \A i \in Int : i > c /\ i <= 0 => i > b
  /\ BeginsAt(c)' \/ (c = 0 /\ part = Nothing /\ BeginsAt(-1)')
  /\ ~odd' => c = b - e /\ (c >= 0 \/ e = 0)

LEMMA ChunkBegins ==
  ASSUME NEW d \in Nat, NEW n \in Nat, ChunkFacts(d, n), NEW b \in Int, BeginsAt(b), ReadChunk,
         out = <<>>, line \in Seq(Items), s_connected \in BOOLEAN, odd \in BOOLEAN,
         connected \in BOOLEAN, stream \in BOOLEAN
  PROVE  \E c \in Int, e \in Nat, t \in 0 .. n :
           /\ e = (d + n) - Len(out') /\ Continues(b, c, e, t, n)
           /\ \A j \in t + 1 .. n : ~IsToken(line[d + j])
<1>1. PICK L \in Nat : L = Len(out')
  BY DEF ChunkFacts
<1>2. PICK M \in Nat : M = Len(line') /\ DOMAIN line' = 1 .. M /\ line' \in Seq(Items)
  BY DEF ChunkFacts
<1>3. PICK K \in Nat : K = d + n /\ K >= d + 1 /\ n >= 1
  BY DEF ChunkFacts
<1>4. Len(line) = K + M /\ DOMAIN line = 1 .. K + M /\ L <= n /\ line # <<>>
  <2>1. Len(line) = K + M /\ DOMAIN line = 1 .. K + M /\ L <= n
    BY <1>1, <1>2, <1>3 DEF ChunkFacts
  <2>2. Len(line) # 0
    BY <1>3, <2>1
  <2> QED BY <2>1, <2>2
<1>5. PICK e \in Nat : e = K - L
  <2>1. K - L \in Nat
    BY ONLY <1>3, <1>4, d \in Nat, n \in Nat, L \in Nat, K \in Nat
  <2> QED BY <2>1
<1>6. \A k \in 1 .. M : K + k \in 1 .. K + M /\ line'[k] = line[K + k]
  BY <1>2, <1>3 DEF ChunkFacts
<1>7. \A k \in 1 .. K + M : k > b => ~IsToken(line[k])
  <2> TAKE k \in 1 .. K + M
  <2>1. k + Len(out) = k
    OBVIOUS
  <2> QED BY <1>4, <2>1 DEF BeginsAt
<1>8. /\ b >= -1 /\ (~connected => air = Nothing) /\ (connected => s_connected)
      /\ connected => b = -1 \/ (b = 1 /\ part = Nothing)
      /\ s_connected => b <= 0 \/ (b = 1 /\ line[1].said = "OPEN")
  <2>1. Len(out) = 0 /\ 0 + 1 = 1
    OBVIOUS
  <2> QED BY <2>1 DEF BeginsAt, AtOpen
<1>9. ~s_connected =>
        /\ b >= 0 /\ b <= K + M /\ (b > 0 => Up(line[b].said)) /\ (b = 0 => odd)
        /\ \A k \in 1 .. K + M : k < b /\ Up(line[k].said) =>
             k = b - 1 /\ line[k + 1].said = "OPEN"
  <2> SUFFICES ASSUME ~s_connected
               PROVE  /\ b >= 0 /\ b <= K + M /\ (b > 0 => Up(line[b].said)) /\ (b = 0 => odd)
                      /\ \A k \in 1 .. K + M : k < b /\ Up(line[k].said) =>
                           k = b - 1 /\ line[k + 1].said = "OPEN"
    OBVIOUS
  <2>1. OpenAhead(b) /\ Len(out) = 0 /\ b - 0 = b /\ 0 + Len(line) = K + M
    BY <1>4 DEF BeginsAt
  <2>2. \A k \in 1 .. K + M : k + 0 = k
    OBVIOUS
  <2> QED BY <1>4, <2>1, <2>2 DEF OpenAhead
<1>10. /\ pc' \in {"feed", "read"} /\ connected' = connected /\ air' = air /\ stream' = stream
       /\ part' = part /\ odd' = (odd \/ d > 0) /\ s_connected' \in BOOLEAN
  BY DEF ReadChunk, apiVars, txVars, modVars, ChunkFacts
<1>18. ~stream => /\ ~s_connected /\ b = K + M
                  /\ \A k \in 1 .. K + M : line[k].said # "OPEN"
  <2>1. Len(out) = 0 /\ 0 + Len(line) = K + M
    BY <1>4
  <2> QED BY <1>4, <2>1 DEF BeginsAt, NoStream
<1>11. ASSUME NEW c \in Int, c >= -1, connected => c = -1 /\ s_connected',
              ~connected /\ s_connected' => c <= L \/ AtOpen(c)', ~s_connected' => OpenAhead(c)',
              \A k \in 1 .. M : k + L > c => K + k > b,
              ~stream => IF s_connected' THEN M = 0 ELSE c = L + M
       PROVE  BeginsAt(c)'
  <2>1. \A k \in 1 .. M : k + L > c => ~IsToken(line'[k])
    BY <1>6, <1>7, <1>11
  <2>2. ASSUME ~stream PROVE NoStream(c)'
    <3>1. ~connected' /\ \A k \in 1 .. M : line'[k].said # "OPEN"
      BY <1>6, <1>8, <1>10, <1>18, <2>2
    <3>2. s_connected' => line' = <<>>
      BY <1>2, <1>11, <2>2
    <3>3. ~s_connected' => c = L + M
      BY <1>11, <2>2
    <3> QED BY <1>1, <1>2, <3>1, <3>2, <3>3 DEF NoStream
  <2> QED BY <1>1, <1>2, <1>8, <1>10, <1>11, <2>1, <2>2 DEF BeginsAt
<1>12. ASSUME NEW c \in Int, NEW t \in 0 .. n, Continues(b, c, e, t, n),
              \A j \in t + 1 .. n : ~IsToken(line[d + j])
       PROVE  \E cc \in Int, ee \in Nat, tt \in 0 .. n :
                /\ ee = (d + n) - Len(out') /\ Continues(b, cc, ee, tt, n)
                /\ \A j \in tt + 1 .. n : ~IsToken(line[d + j])
  <2>1. e = (d + n) - Len(out')
    BY <1>1, <1>3, <1>5
  <2> QED BY <1>12, <2>1
<1>13. \A j \in 1 .. n : d + j \in 1 .. K + M /\ d + j <= K
  BY <1>3
<1>14. CASE ~s_connected /\ b > K
  <2>1. PICK c \in Int : c = b - e
    OBVIOUS
  <2>2. c > L /\ c <= L + M /\ K + (c - L) = b /\ c - L \in 1 .. M
    BY ONLY <1>5, <1>9, <1>14, <2>1, K \in Nat, L \in Nat, M \in Nat, b \in Int
  <2>3. ~connected /\ (stream \/ c = L + M)
    <3>1. b = K + M => c = L + M
      BY ONLY <1>5, <2>1, K \in Nat, L \in Nat, M \in Nat, b \in Int
    <3> QED BY <1>8, <1>14, <1>18, <3>1
  <2>4. \A k \in 1 .. M : k + L > c => K + k > b
    BY <2>2
  <2>5. BeginsAt(c)'
    <3>1. CASE Up(line[K].said)
      <4>1. K \in 1 .. K + M /\ K < b
        BY <1>3, <1>14
      <4>2. b = K + 1 /\ line[K + 1].said = "OPEN"
        BY <1>9, <1>14, <3>1, <4>1
      <4>3. c = L + 1 /\ 1 \in 1 .. M /\ K + 1 \in 1 .. K + M
        BY <2>2, <4>2
      <4>4. s_connected' = TRUE
        <5>1. n \in 1 .. n /\ line[d + n] = line[K] /\ \A j \in n + 1 .. n : FALSE
          BY <1>3
        <5> QED BY <1>10, <3>1, <5>1 DEF ChunkFacts
      <4>5. stream
        BY <1>18, <4>2, <4>3
      <4>6. AtOpen(c)'
        <5>1. line'[1].said = "OPEN"
          BY <1>6, <4>2, <4>3
        <5>2. line' # <<>>
          BY <1>2, <4>3
        <5> QED BY <1>1, <4>3, <5>1, <5>2 DEF AtOpen
      <4> QED BY <1>11, <2>2, <2>3, <2>4, <4>4, <4>5, <4>6
    <3>2. CASE ~Up(line[K].said)
      <4>1. s_connected' = FALSE
        <5>1. \A j \in 1 .. n : ~Up(line[d + j].said)
          <6> SUFFICES ASSUME NEW j \in 1 .. n, Up(line[d + j].said) PROVE FALSE
            OBVIOUS
          <6>1. d + j \in 1 .. K + M /\ d + j <= K /\ d + j < b
            BY <1>13, <1>14
          <6>2. d + j = b - 1
            BY <1>9, <1>14, <6>1
          <6>3. d + j = K
            BY <1>14, <6>1, <6>2
          <6> QED BY <3>2, <6>3
        <5> QED BY <1>10, <1>14, <5>1 DEF ChunkFacts
      <4>2. OpenAhead(c)'
        <5>1. Up(line'[c - L].said)
          <6>1. line'[c - L] = line[b]
            BY <1>6, <2>2
          <6>2. b > 0
            BY <1>14
          <6> QED BY <1>9, <1>14, <6>1, <6>2
        <5>2. ASSUME NEW k \in 1 .. M, k + L < c, Up(line'[k].said)
              PROVE  k + L = c - 1 /\ line'[k + 1].said = "OPEN"
          <6>1. K + k < b /\ K + k \in 1 .. K + M /\ line'[k] = line[K + k]
            BY <1>6, <2>2, <5>2
          <6>2. K + k = b - 1 /\ line[(K + k) + 1].said = "OPEN"
            BY <1>9, <1>14, <5>2, <6>1
          <6>3. k + L = c - 1 /\ k + 1 \in 1 .. M /\ K + (k + 1) = (K + k) + 1
            BY <2>2, <6>2
          <6> QED BY <1>6, <6>2, <6>3
        <5>3. c # L /\ c >= L
          BY <2>2
        <5> QED BY <1>1, <1>2, <2>2, <5>1, <5>2, <5>3 DEF OpenAhead
      <4> QED BY <1>11, <2>2, <2>3, <2>4, <4>1, <4>2
    <3> QED BY <3>1, <3>2
  <2>6. Continues(b, c, e, n, n)
    <3>1. \A i \in Int : i > c /\ i >= 1 => i > L - (n - n) /\ i + e > b
      BY <2>1, <2>2
    <3>2. \A i \in Int : i > c /\ i <= 0 => i > b
      BY <2>2
    <3>3. c >= 0
      BY <2>2
    <3> QED BY <1>1, <2>1, <2>5, <3>1, <3>2, <3>3 DEF Continues
  <2>7. n \in 0 .. n /\ \A j \in n + 1 .. n : ~IsToken(line[d + j])
    OBVIOUS
  <2> QED BY <1>12, <2>6, <2>7
<1>15. CASE ~s_connected /\ d < b /\ b <= K
  <2>1. PICK c \in Int : c = b - e
    OBVIOUS
  <2>2. PICK t \in Int : t = b - d
    OBVIOUS
  <2>3. t \in 1 .. n /\ d + t = b /\ t \in 0 .. n
    BY <1>3, <1>15, <2>2
  <2>4. \A j \in t + 1 .. n : ~IsToken(line[d + j])
    <3> TAKE j \in t + 1 .. n
    <3>1. j \in 1 .. n /\ d + j > b
      BY <2>3
    <3> QED BY <1>7, <1>13, <3>1
  <2>5. L >= n - t
    BY <1>1, <2>3, <2>4 DEF ChunkFacts
  <2>6. c >= 0 /\ c <= L /\ c = L - (n - t) /\ K - b = L - c
    BY ONLY <1>3, <1>5, <1>15, <2>1, <2>2, <2>5, d \in Nat, n \in Nat, K \in Nat, L \in Nat, b \in Int,
       e \in Nat, t \in Int
  <2>7. s_connected' = TRUE
    <3>1. b > 0
      BY <1>15
    <3>2. Up(line[d + t].said)
      BY <1>9, <1>15, <2>3, <3>1
    <3> QED BY <1>10, <2>3, <2>4, <3>2 DEF ChunkFacts
  <2>8. BeginsAt(c)'
    <3>1. \A k \in 1 .. M : k + L > c => K + k > b
      BY <1>15
    <3>2. c >= -1
      BY <2>6
    <3>3. ~stream => M = 0
      BY <1>15, <1>18
    <3> QED BY <1>8, <1>11, <1>15, <2>6, <2>7, <3>1, <3>2, <3>3
  <2>9. Continues(b, c, e, t, n)
    <3>1. \A i \in Int : i > c /\ i >= 1 => i > L - (n - t) /\ i + e > b
      BY <2>1, <2>6
    <3>2. \A i \in Int : i > c /\ i <= 0 => i > b
      BY <2>6
    <3> QED BY <1>1, <2>1, <2>6, <2>8, <3>1, <3>2 DEF Continues
  <2> QED BY <1>12, <2>3, <2>4, <2>9
<1>16. CASE ~s_connected /\ b <= d
  <2>1. \A j \in 1 .. n : ~IsToken(line[d + j])
    BY <1>7, <1>13, <1>16
  <2>2. s_connected' = FALSE
    BY <1>10, <1>16, <2>1 DEF ChunkFacts
  <2>3. odd' = TRUE
    <3>1. d > 0 \/ b = 0
      BY <1>9, <1>16
    <3> QED BY <1>9, <1>10, <1>16, <3>1
  <2>4. OpenAhead(L)'
    <3>1. \A k \in 1 .. M : ~(k + L < L)
      OBVIOUS
    <3>2. L >= L /\ L <= L + M /\ ~(L > L)
      OBVIOUS
    <3> QED BY <1>1, <1>2, <2>3, <3>1, <3>2 DEF OpenAhead
  <2>5. BeginsAt(L)'
    <3>1. \A k \in 1 .. M : k + L > L => K + k > b
      BY <1>3, <1>16
    <3>2. stream
      BY <1>3, <1>16, <1>18
    <3>3. L \in Int /\ L >= -1
      OBVIOUS
    <3> QED BY <1>8, <1>11, <1>16, <2>2, <2>4, <3>1, <3>2, <3>3
  <2>6. Continues(b, L, e, n, n)
    <3>1. \A i \in Int : i > L /\ i >= 1 => i > L - (n - n) /\ i + e > b
      BY <1>3, <1>5, <1>16
    <3>2. \A i \in Int : i > L /\ i <= 0 => i > b
      OBVIOUS
    <3> QED BY <1>1, <2>3, <2>5, <3>1, <3>2 DEF Continues
  <2>7. n \in 0 .. n /\ \A j \in n + 1 .. n : ~IsToken(line[d + j])
    OBVIOUS
  <2>8. L \in Int
    OBVIOUS
  <2> QED BY <1>12, <2>6, <2>7, <2>8
<1>17. CASE s_connected /\ b <= 0
  <2>1. b <= 0 /\ stream
    BY <1>17, <1>18
  <2>2. \A j \in 1 .. n : ~IsToken(line[d + j])
    <3>1. \A k \in 1 .. K + M : k > b
      BY <2>1
    <3> QED BY <1>7, <1>13, <3>1
  <2>3. s_connected' = TRUE
    BY <1>17, <2>2 DEF ChunkFacts
  <2>4. L = n
    <3>1. 0 \in 0 .. n /\ 0 + 1 = 1
      OBVIOUS
    <3>2. L >= n - 0
      BY <1>1, <2>2, <3>1 DEF ChunkFacts
    <3> QED BY <1>4, <3>2
  <2>5. e = d
    BY <1>3, <1>5, <2>4
  <2>6. BeginsAt(b)'
    <3>1. \A k \in 1 .. M : k + L > b => K + k > b
      BY <2>1
    <3>2. b <= L
      BY <2>1
    <3>3. connected => b = -1
      BY <1>8, <2>1
    <3> QED BY <1>8, <1>11, <2>1, <2>3, <3>1, <3>2, <3>3
  <2>7. Continues(b, b, e, 0, n)
    <3>1. \A i \in Int : i > b /\ i >= 1 => i > L - (n - 0) /\ i + e > b
      BY <2>4
    <3>2. ~odd' => b = b - e /\ e = 0
      <4>1. d > 0 => odd'
        BY <1>10
      <4>2. ~(d > 0) => e = 0 /\ b = b - e
        BY ONLY <2>5, d \in Nat, b \in Int
      <4> QED BY <4>1, <4>2
    <3> QED BY <1>1, <2>6, <3>1, <3>2 DEF Continues
  <2>8. 0 \in 0 .. n /\ \A j \in 0 + 1 .. n : ~IsToken(line[d + j])
    BY <2>2
  <2> QED BY <1>12, <2>7, <2>8
<1>19. CASE s_connected /\ b > 0
  <2>1. b = 1 /\ line[1].said = "OPEN" /\ stream /\ (connected => part = Nothing)
    BY <1>8, <1>18, <1>19
  <2>2. \A j \in 1 .. n : d + j > 1 => ~IsToken(line[d + j])
    BY <1>7, <1>13, <2>1
  <2>3. s_connected' = TRUE => BeginsAt(0)' \/ (part = Nothing /\ BeginsAt(-1)')
    <3>1. \A k \in 1 .. M : K + k > b
      BY <1>3, <2>1
    <3>2. 0 \in Int /\ -1 \in Int /\ 0 >= -1 /\ -1 >= -1 /\ 0 <= L
      OBVIOUS
    <3>3. CASE connected
      BY <1>11, <2>1, <3>1, <3>2, <3>3
    <3>4. CASE ~connected
      BY <1>11, <2>1, <3>1, <3>2, <3>4
    <3> QED BY <3>3, <3>4
  <2>4. CASE d = 0
    <3>1. 1 \in 0 .. n /\ 1 \in 1 .. n /\ d + 1 = 1 /\ \A j \in 1 + 1 .. n : j \in 1 .. n /\ d + j > 1
      BY <1>3, <2>4
    <3>2. \A j \in 1 + 1 .. n : ~IsToken(line[d + j])
      BY <2>2, <3>1
    <3>3. Up(line[d + 1].said) /\ IsToken(line[d + 1])
      BY <2>1, <3>1, UpIs DEF IsToken, Tokens
    <3>4. s_connected' = TRUE
      BY <1>10, <3>1, <3>2, <3>3 DEF ChunkFacts
    <3>5. L >= n - 1 /\ L < n
      BY <1>1, <3>1, <3>2, <3>3 DEF ChunkFacts
    <3>6. L - (n - 1) = 0 /\ e = 1
      BY ONLY <1>3, <1>5, <2>4, <3>5, L \in Nat, n \in Nat, K \in Nat
    <3>7. Continues(b, 0, e, 1, n)
      <4>1. \A i \in Int : i > 0 /\ i >= 1 => i > L - (n - 1) /\ i + e > b
        BY <2>1, <3>6
      <4>2. \A i \in Int : ~(i > 0 /\ i <= 0)
        OBVIOUS
      <4>3. 0 = b - e /\ 0 >= 0
        BY <2>1, <3>6
      <4> QED BY <1>1, <2>3, <3>4, <4>1, <4>2, <4>3 DEF Continues
    <3> QED BY <1>12, <3>1, <3>2, <3>7
  <2>5. CASE d # 0
    <3>1. d > 0 /\ \A j \in 1 .. n : d + j > 1
      BY <2>5
    <3>2. \A j \in 1 .. n : ~IsToken(line[d + j])
      BY <2>2, <3>1
    <3>3. s_connected' = TRUE
      BY <1>19, <3>2 DEF ChunkFacts
    <3>4. 0 \in 0 .. n /\ 0 + 1 = 1
      OBVIOUS
    <3>5. L >= n - 0
      BY <1>1, <3>2, <3>4 DEF ChunkFacts
    <3>6. L - (n - 0) = 0 /\ e = d
      BY ONLY <1>3, <1>4, <1>5, <3>5, L \in Nat, n \in Nat, K \in Nat, d \in Nat
    <3>7. Continues(b, 0, e, 0, n)
      <4>1. \A i \in Int : i > 0 /\ i >= 1 => i > L - (n - 0) /\ i + e > b
        BY <2>1, <3>1, <3>6
      <4>2. \A i \in Int : ~(i > 0 /\ i <= 0)
        OBVIOUS
      <4>3. odd'
        BY <1>10, <3>1
      <4> QED BY <1>1, <2>3, <3>3, <4>1, <4>2, <4>3 DEF Continues
    <3>8. PICK c \in Int : c = 0
      OBVIOUS
    <3>9. Continues(b, c, e, c, n) /\ c \in 0 .. n /\ \A j \in c + 1 .. n : j \in 1 .. n
      BY <3>4, <3>7, <3>8
    <3> QED BY <1>12, <3>2, <3>9
  <2> QED BY <2>4, <2>5
<1> QED BY <1>3, <1>14, <1>15, <1>16, <1>17, <1>19

(* Without a half packet in the reassembler nothing comes at place 0.      *)
LEMMA NothingAtZero ==
  ASSUME NEW I, \A x \in I : x[1] \in Int /\ x[1] >= 1
  PROVE  AnswersAt(I, -1) = AnswersAt(I, 0) /\ (Alternate(I, 0) => Alternate(I, -1))
<1>1. ASSUME NEW i \in Int, NEW h, <<i, h>> \in I PROVE i > 0 /\ i > -1
  <2>1. <<i, h>>[1] = i
    OBVIOUS
  <2>2. <<i, h>>[1] >= 1
    BY <1>1
  <2>3. i >= 1
    BY <2>1, <2>2
  <2> QED BY <2>3
<1>2. AnswersAt(I, -1) = AnswersAt(I, 0)
  BY <1>1 DEF AnswersAt
<1>3. \A i \in Int : (i > 0 => i > -1) /\ (i >= 1 => i > 0)
  OBVIOUS
<1>4. ASSUME Alternate(I, 0), NEW x \in I
      PROVE  \E p \in Requests :
               \/ x[2] = Half(p, 1) /\ <<x[1] + 1, Half(p, 2)>> \in I
               \/ x[2] = Half(p, 2) /\ x[1] - 1 > -1 /\ <<x[1] - 1, Half(p, 1)>> \in I
  <2>1. x[1] \in Int /\ x[1] > 0
    BY <1>3
  <2>2. x[1] - 1 > 0 => x[1] - 1 > -1
    BY <2>1
  <2> QED BY <1>4, <2>1, <2>2 DEF Alternate
<1> QED BY <1>2, <1>4 DEF Alternate

LEMMA SessionReadChunk ==
  ASSUME "percent" \notin Kinds, BringUpInv, TrackInv, SessionInv, ReadChunk
  PROVE  SessionInv' /\ HostRefinement
<1>1. PICK d, n \in Nat : ChunkFacts(d, n)
  BY ChunkIs
<1>2. /\ pc \in {"idle", "read"} /\ pc' = (IF out' = <<>> THEN "read" ELSE "feed")
      /\ UNCHANGED <<central, stream, mod, part, s_was_connected, connected, subscribed, s_tx, air>>
      /\ UNCHANGED <<tail, asked, mayPush, heard>>
  BY DEF ReadChunk, Reading, modVars, apiVars, txVars
<1>3. /\ line \in Seq(Items) /\ out = <<>> /\ SessionTypes /\ odd \in BOOLEAN /\ s_connected \in BOOLEAN
      /\ connected \in BOOLEAN /\ s_tx \in Seq(Frames) /\ mayPush \in BOOLEAN /\ stream \in BOOLEAN
  BY <1>2 DEF BringUpInv, LineTypes, SessionInv, SessionTypes, NobodyThere, TrackInv
<1>4. /\ line' \in Seq(Items) /\ out' \in Seq(Halves) /\ s_connected' \in BOOLEAN
      /\ odd' = (odd \/ d > 0)
  BY <1>1 DEF ChunkFacts
<1>5. odd' \in BOOLEAN /\ (odd => odd')
  BY <1>3, <1>4
<1>6. SessionTypes'
  BY <1>2, <1>3, <1>4, <1>5 DEF SessionTypes
<1>7. NobodyThere'
  <2>1. Stale(line, s_connected) => Stale(line', s_connected')
    <3> SUFFICES ASSUME Stale(line, s_connected), NEW j \in DOMAIN line', Up(line'[j].said)
                 PROVE  FALSE
      BY DEF Stale
    <3>1. DOMAIN line = 1 .. Len(line) /\ DOMAIN line' = 1 .. Len(line')
      BY <1>3, <1>4
    <3>2. n >= 1 /\ Len(line) = (d + n) + Len(line') /\ line'[j] = line[(d + n) + j]
      BY <1>1, <3>1 DEF ChunkFacts
    <3>3. (d + n) + j \in DOMAIN line /\ (d + n) + j # 1
      BY <1>4, <3>1, <3>2
    <3> QED BY <3>2, <3>3 DEF Stale
  <2>2. pc' # "feed" => out' = <<>>
    BY <1>2
  <2> QED BY <1>2, <2>1, <2>2 DEF SessionInv, NobodyThere
<1>8. CASE ~central
  <2>1. central = FALSE
    BY <1>8 DEF TrackInv
  <2>2. HostInv' /\ HostRefinement
    BY <1>2, <2>1, OutsideStep
  <2> QED BY <1>6, <1>7, <2>2 DEF SessionInv
<1>9. CASE central
  <2>1. PICK b \in Int : BeginsAt(b) /\ SoundFrom(b)
    BY <1>9 DEF SessionInv, HostInv
  <2>2. PICK c \in Int, e \in Nat, t \in 0 .. n :
          /\ e = (d + n) - Len(out') /\ Continues(b, c, e, t, n)
          /\ \A j \in t + 1 .. n : ~IsToken(line[d + j])
    BY <1>1, <1>3, <2>1, ChunkBegins
  <2>3. PlacesMove(b, c, e)
    <3>1. /\ \A i \in Int : i > c /\ i >= 1 => i > Len(out') - (n - t) /\ i + e > b
          /\ \A i \in Int : i > c /\ i <= 0 => i > b
      BY <2>2 DEF Continues
    <3>2. e \in Int /\ UNCHANGED <<part, tail>>
      BY <1>2
    <3> QED BY <1>1, <1>3, <2>2, <3>1, <3>2, ChunkPlaces
  <2>4. /\ BeginsAt(c)' \/ (c = 0 /\ part = Nothing /\ BeginsAt(-1)')
        /\ ~odd' => c = b - e /\ (c >= 0 \/ e = 0)
    BY <2>2 DEF Continues
  <2>5. Sound(Stream(b), asked, mayPush, odd) /\ (~odd => Alternate(Incoming, b))
        /\ (connected /\ subscribed => PushesSound(Stream(b), asked, mayPush))
    BY <2>1 DEF SoundFrom
  <2>6. /\ Sound(Stream(c)', asked, mayPush, odd')
        /\ PushesSound(Stream(b), asked, mayPush) => PushesSound(Stream(c)', asked, mayPush)
    BY <1>2, <1>3, <1>5, <2>3, <2>5, ChunkIsSound
  <2>7. ASSUME ~odd' PROVE Alternate(Incoming', c)
    <3>1. \A x \in Incoming : x[1] \in Int
      <4>1. <<>> \in Seq(Halves)
        OBVIOUS
      <4>2. \A x \in Coming(part, <<>>, line, tail) : x[1] \in Int
        BY <1>3, <4>1, ComingIs
      <4> QED BY <1>3, <4>2 DEF Incoming
    <3>2. \A x \in Incoming' : x[1] \in Int /\ x = <<x[1], x[2]>>
      BY <1>4, ComingIs DEF Incoming
    <3> QED BY <1>5, <2>3, <2>4, <2>5, <2>7, <3>1, <3>2, ChunkStaysWhole
  <2>8. SoundFrom(c)'
    BY <1>2, <2>5, <2>6, <2>7 DEF SoundFrom
  <2>9. part = Nothing /\ c = 0 => SoundFrom(-1)'
    <3> SUFFICES ASSUME part = Nothing, c = 0 PROVE SoundFrom(-1)'
      OBVIOUS
    <3>1. \A x \in Incoming' : x[1] \in Int /\ x[1] >= 1
      <4>1. \A x \in Coming(part', out', line', tail') :
              x[1] \in Int /\ x[1] >= 0 /\ (x[1] = 0 => part' # Nothing)
        BY <1>4, ComingIs
      <4>2. \A i \in Int : i >= 0 /\ i # 0 => i >= 1
        OBVIOUS
      <4> QED BY <1>2, <4>1, <4>2 DEF Incoming
    <3>2. AnswersAt(Incoming', -1) = AnswersAt(Incoming', 0)
          /\ (Alternate(Incoming', 0) => Alternate(Incoming', -1))
      BY <3>1, NothingAtZero
    <3> QED BY <2>8, <3>2 DEF SoundFrom, Stream
  <2>10. PICK z \in Int : BeginsAt(z)' /\ SoundFrom(z)'
    <3>1. -1 \in Int
      OBVIOUS
    <3> QED BY <2>4, <2>8, <2>9, <3>1
  <2>11. HostInv' /\ HostRefinement
    BY <1>2, <1>3, <1>5, <1>9, <2>10, DeviceStep DEF SessionInv
  <2> QED BY <1>6, <1>7, <2>11 DEF SessionInv
<1> QED BY <1>8, <1>9

-----------------------------------------------------------------------------
LEMMA SessionInit == ASSUME Init PROVE SessionInv /\ Host!Init
<1>1. <<>> \in Seq(Halves) /\ <<>> \in Seq(Frames) /\ <<>> \in Seq(Requests)
  OBVIOUS
<1>2. SessionTypes
  BY <1>1 DEF Init, SessionTypes
<1>3. NobodyThere
  BY DEF Init, NobodyThere, Stale
<1>4. HostInv
  BY DEF Init, HostInv
<1>5. Host!Init
  BY DEF Init, Host!Init
<1> QED BY <1>2, <1>3, <1>4, <1>5 DEF SessionInv

LEMMA SessionNext ==
  ASSUME "percent" \notin Kinds, Between = "noticed", BringUpInv, TrackInv, SessionInv, [Next]_vars
  PROVE  SessionInv' /\ HostRefinement
<1>1. CASE Task
  BY <1>1, SessionBringUp, SessionReadChunk, SessionFeed, SessionTaskEnds DEF Task
<1>2. CASE ApiUpdate
  BY <1>2, SessionApiUpdate
<1>3. CASE TimePasses \/ PartialAges \/ CommandIsLost \/ UNCHANGED vars
  BY <1>3, SessionQuietSteps
<1>4. CASE ModBoots \/ ModAnswers \/ ModResets
  BY <1>4, SessionModBoots, SessionModAnswers, SessionModResets
<1>5. CASE CentralChanges \/ StreamOpens
  BY <1>5, SessionCentral, SessionStreamOpens
<1>6. CASE CutModule \/ RestoreModule
  BY <1>6, SessionPins
<1>7. CASE HostSendsRest \/ HostReads \/ RequestIsLost
  BY <1>7, SessionSendsRest, SessionReads, SessionLoses
<1>8. ASSUME NEW kind \in Kinds, HostAsks(kind) PROVE SessionInv' /\ HostRefinement
  BY <1>8, SessionAsks
<1> QED BY <1>1, <1>2, <1>3, <1>4, <1>5, <1>6, <1>7, <1>8 DEF Next

(* Whatever is on its way to a central or could be made of what is on its  *)
(* way to the device is an answer it still expects, in the order it asked, *)
(* or a push it may get.                                                   *)
THEOREM WhatComesIsSound ==
  ASSUME "percent" \notin Kinds, Between = "noticed"
  PROVE  Spec => [](BringUpInv /\ TrackInv /\ SessionInv)
<1>1. Init => BringUpInv /\ TrackInv /\ SessionInv
  BY BringUpInit, InitTrackInv, SessionInit
<1>2. BringUpInv /\ TrackInv /\ SessionInv /\ [Next]_vars => (BringUpInv /\ TrackInv /\ SessionInv)'
  <2>1. Between # "nothing"
    OBVIOUS
  <2> QED BY <2>1, TrackNext, SessionNext
<1> QED BY <1>1, <1>2, PTL DEF Spec

(* The central is the host of Session: whatever bytes were lost, however   *)
(* often the module was reset, cut or left, the central gets the answers it *)
(* asked for in order, each at most once and none of an earlier connection, *)
(* and pushes only while it may have a subscription.  It needs packets that *)
(* do not end in '%', and a central that stays until both edges have been   *)
(* noticed.                                                                *)
THEOREM CentralIsAHost ==
  ASSUME "percent" \notin Kinds, Between = "noticed" PROVE Spec => HostSession
<1>1. Init => Host!Init
  BY SessionInit
<1>2. BringUpInv /\ TrackInv /\ SessionInv /\ [Next]_vars => [Host!Next]_(Host!vars)
  BY SessionNext DEF HostRefinement
<1> QED BY <1>1, <1>2, WhatComesIsSound, PTL DEF Spec, HostSession, Host!Spec
=============================================================================
