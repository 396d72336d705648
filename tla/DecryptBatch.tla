---------------------------- MODULE DecryptBatch ----------------------------
(***************************************************************************)
(* Which packets one call of DeCSAAdapter::Decrypt takes from VDR's buffer *)
(* and how: the batch of packets of one key is collected packet by packet  *)
(* while the socket thread changes cipher and keys, then the CSA packets   *)
(* of it are given to decrypt_packets.  SCCAMSlot::Decrypt takes one       *)
(* packet per call; the others find themselves decrypted later.            *)
(*                                                                         *)
(* What Fast ECM says of the batch, and how a wait for a CW ends, is       *)
(* CwWait's subject; here all that it may say is tried.                    *)
(***************************************************************************)
EXTENDS FFdecsaCluster

CONSTANTS
  Setups,       \* streams and ways OSCam uses the keys, one of which is tried
  Lengths       \* the payload lengths that are tried, in blocks

\* pids, keys: of the stream; modes: the algorithms OSCam may choose; kinds: the
\* requests it sends; cluster: csnew; max: a bound, the packets in VDR's buffer.
ASSUME DecryptBatchAssumption ==
  /\ Lengths \subseteq -1 .. Blocks
  /\ \A s \in Setups :
       /\ s.keys \subseteq Nat \ {0} /\ s.pids # {}
       /\ s.modes \subseteq {"csa", "des", "aes"}
       /\ s.kinds \subseteq {"descr", "descr_aes", "mode", "data"}
       /\ s.cluster \in Nat \ {0} /\ s.max \in Nat \ {0}

VARIABLES
  setup,        \* the one that is tried
  buffer,       \* the packets in VDR's buffer
  pidMap,       \* AdapterPidMap: for each pid its key, 0: none
  algo,         \* of each key: what the last CA_SET_DESCR_MODE asked for
  aes,          \* the keys with the flag Aes
  aesKey,       \* the keys with an AES key struct
  request,      \* the request of OSCam whose first half is done
  call          \* the call of Decrypt

ciphers == <<algo, aes, aesKey, request>>
vars == <<setup, buffer, pidMap, ciphers, call>>

Pids == setup.pids
Keys == setup.keys

NoKey == 0
NoRequest == [kind |-> "none", key |-> NoKey]

\* What Decrypt makes of GetAlgo and GetAes.
Cipher(key) ==
  IF algo[key] = "des" THEN "des"
  ELSE IF algo[key] = "aes" \/ key \in aes THEN "aes" ELSE "csa"

\* Scrambling sc, the bits as they arrived (was), whether there is a payload
\* offset; history: the ciphers that ran, the key.
Arrived(pid, sc, offset, n) ==
  [pid |-> pid, sc |-> sc, was |-> sc, offset |-> offset, n |-> n,
   blocks |-> 0, residueAt |-> 0, with |-> "none",
   ran |-> <<>>, key |-> NoKey]

\* A packet of the stream; "lost": without its sync byte.
AnyPid == CHOOSE pid \in Pids : TRUE
NewPacket ==
  {Arrived(pid, sc, TRUE, n) : pid \in Pids, sc \in Parities, n \in Lengths}
  \cup {Arrived(pid, sc, FALSE, 0) : pid \in Pids, sc \in Parities}
  \cup {Arrived(AnyPid, sc, TRUE, Blocks) : sc \in {"clear", "reserved", "lost"}}

\* l is the packet that is looked at; history: why the call returned, whether
\* it waited, or the cipher was changed or had no key.
NoCall == [pc |-> "idle", l |-> 1, cur |-> NoKey,
           ranges |-> <<>>, newRange |-> TRUE, ccs |-> 0,
           why |-> "none", waited |-> FALSE, excused |-> FALSE]

Init ==
  /\ setup \in Setups /\ buffer = <<>> /\ pidMap \in [Pids -> Keys \cup {NoKey}]
  /\ algo = [key \in Keys |-> "csa"] /\ aes = {} /\ aesKey = {} /\ request = NoRequest
  /\ call = NoCall
-----------------------------------------------------------------------------
(* The receive thread.                                                     *)

\* SCCAMSlot::Decrypt passes what is not scrambled to Analyze.
DeliversClear ==
  /\ call.pc = "idle" /\ buffer # <<>> /\ Head(buffer).sc = "clear"
  /\ buffer' = Tail(buffer)
  /\ UNCHANGED <<setup, pidMap, ciphers, call>>

DecryptStarts ==
  /\ call.pc = "idle" /\ buffer # <<>> /\ Head(buffer).sc \in Parities \cup {"reserved"}
  /\ call' = [call EXCEPT !.pc = "scanning"]
  /\ UNCHANGED <<setup, buffer, pidMap, ciphers>>

Returned(why) == [call EXCEPT !.pc = "returned", !.why = why]
Beyond_TwoPackets == [call EXCEPT !.l = @ + 2]
Beyond == [call EXCEPT !.l = @ + 1]
NextRange == [Beyond EXCEPT !.newRange = TRUE]

\* At the head: what is not encrypted, or its pid has no key (null packets,
\* whose pid never has one, are not told apart).
RefusesHead ==
  /\ call.pc = "scanning" /\ call.l = 1
  /\ \/ Head(buffer).sc \notin Parities
     \/ Head(buffer).offset /\ pidMap[Head(buffer).pid] = NoKey
  /\ call' = Returned("refused")
  /\ UNCHANGED <<setup, buffer, pidMap, ciphers>>

Here == buffer[call.l]
Scanning ==
  /\ call.pc = "scanning" /\ call.l <= Len(buffer)
  /\ call.ccs < setup.cluster /\ Here.sc # "lost"
Ours ==
  /\ Here.offset /\ pidMap[Here.pid] # NoKey
  /\ call.cur \in {NoKey, pidMap[Here.pid]}

\* No hole for a clear packet in the middle; one for a packet of another key
\* or without payload.
Passes ==
  /\ Scanning /\ (call.l = 1 => Head(buffer).sc \in Parities /\ ~Head(buffer).offset)
  /\ \/ Here.sc \notin Parities /\ call' = Beyond
     \/ Here.sc \in Parities /\ ~Ours /\ call' = NextRange
  /\ UNCHANGED <<setup, buffer, pidMap, ciphers>>

Taken == [Beyond EXCEPT !.cur = pidMap[Here.pid]]
Ran_StaysScrambled(packet, c) == [packet EXCEPT !.ran = Append(@, c)]
Ran(packet, c) ==
  [packet EXCEPT !.sc = "clear", !.ran = Append(@, c), !.with = packet.sc,
                 !.key = pidMap[packet.pid]]

\* DES, and AES with a key, are done at once.
TakesBlockCipher ==
  /\ Scanning /\ Here.sc \in Parities /\ Ours
  /\ LET c == Cipher(pidMap[Here.pid])
     IN  /\ c \in {"des", "aes"}
         /\ IF c = "des" \/ pidMap[Here.pid] \in aesKey
              THEN /\ buffer' = [buffer EXCEPT ![call.l] = Ran(@, c)]
                   /\ call' = Taken
              ELSE /\ call' = [Taken EXCEPT !.excused = TRUE]
                   /\ UNCHANGED buffer
  /\ UNCHANGED <<setup, pidMap, ciphers>>

TakesCsa_IgnoresHoles ==
  /\ Scanning /\ Here.sc \in Parities /\ Ours
  /\ Cipher(pidMap[Here.pid]) = "csa"
  /\ call' = [Taken EXCEPT
                !.ccs = @ + 1, !.newRange = FALSE,
                !.ranges = IF @ = <<>> THEN << <<call.l, call.l + 1>> >>
                           ELSE [@ EXCEPT ![Len(@)][2] = call.l + 1]]
  /\ UNCHANGED <<setup, buffer, pidMap, ciphers>>

\* CSA: the packet starts a range or is the new end of the last one.
TakesCsa ==
  /\ Scanning /\ Here.sc \in Parities /\ Ours
  /\ Cipher(pidMap[Here.pid]) = "csa"
  /\ call' = [Taken EXCEPT
                !.ccs = @ + 1, !.newRange = FALSE,
                !.ranges = IF call.newRange
                             THEN Append(@, <<call.l, call.l + 1>>)
                             ELSE [@ EXCEPT ![Len(@)][2] = call.l + 1]]
  /\ UNCHANGED <<setup, buffer, pidMap, ciphers>>

\* The batch is complete.  The cipher is read again; then Fast ECM, if it is
\* on, lets the batch pass or has it wait for a CW.
ScanEnds ==
  /\ call.pc = "scanning" /\ ~Scanning
  /\ IF call.cur # NoKey /\ Cipher(call.cur) \in {"des", "aes"}
       THEN call' = Returned("block cipher")
     ELSE IF call.ranges = <<>> THEN call' = Returned("nothing")
     ELSE \/ call' = [call EXCEPT !.pc = "decrypting"]
          \/ call' = [call EXCEPT !.pc = "waiting", !.waited = TRUE]
  /\ UNCHANGED <<setup, buffer, pidMap, ciphers>>

\* The CW came or the time is up, or the wait was cancelled.
WaitEnds ==
  /\ call.pc = "waiting"
  /\ \/ call' = Returned("aborted")
     \/ call' = [call EXCEPT !.pc = "decrypting"]
  /\ UNCHANGED <<setup, buffer, pidMap, ciphers>>

\* decrypt_packets is called once; the cluster it leaves is not used.
Decrypts ==
  /\ call.pc = "decrypting"
  /\ LET result == DecryptPackets(buffer, call.ranges)
     IN  buffer' = [at \in DOMAIN buffer |->
           IF at \in result.group
             THEN [result.mem[at] EXCEPT !.ran = Append(@, "csa"), !.key = call.cur]
             ELSE result.mem[at]]
  /\ call' = Returned("decrypted")
  /\ UNCHANGED <<setup, pidMap, ciphers>>

\* SCCAMSlot::Decrypt returns the head alone, whatever Decrypt returned.
Delivers ==
  /\ call.pc = "returned"
  /\ buffer' = Tail(buffer) /\ call' = NoCall
  /\ UNCHANGED <<setup, pidMap, ciphers>>

\* VDR looks for the next sync byte (external).
VdrSkips ==
  /\ call.pc = "idle" /\ buffer # <<>> /\ Head(buffer).sc = "lost"
  /\ buffer' = Tail(buffer)
  /\ UNCHANGED <<setup, pidMap, ciphers, call>>
-----------------------------------------------------------------------------
(* The socket thread, and the stream (external).                           *)

\* SetCaPid needs mutexAdapter, which Decrypt releases only while it waits.
SetCaPid(pid, key) ==
  /\ call.pc \in {"idle", "waiting", "returned"}
  /\ pidMap' = [pidMap EXCEPT ![pid] = key]
  /\ UNCHANGED <<setup, buffer, ciphers, call>>

\* HandleMessage, one step for each call of DeCSA, which takes the mutex of
\* the key only: a batch may be collected between the two of a request.
Excuses(key) ==
  call' = [call EXCEPT !.excused = @ \/ (call.pc # "idle" /\ Cipher(key)' # Cipher(key))]
Asks(kind, key) ==
  /\ request = NoRequest /\ kind \in setup.kinds \ {"mode"}
  /\ request' = [kind |-> kind, key |-> key]
  /\ aes' = IF kind = "descr_aes" THEN aes \cup {key} ELSE aes \ {key}
  /\ UNCHANGED <<setup, buffer, pidMap, algo, aesKey>>
  /\ Excuses(key)

\* SetDescr; the CW itself is data.
SetsCw ==
  /\ request.kind = "descr" /\ request' = NoRequest
  /\ UNCHANGED <<setup, buffer, pidMap, algo, aes, aesKey, call>>

\* SetDescrAes, or SetData with a key; SetData with an IV needs no struct.
SetsAesKey ==
  /\ request.kind \in {"descr_aes", "data"} /\ request' = NoRequest
  /\ \/ aesKey' = aesKey \cup {request.key}
     \/ request.kind = "data" /\ UNCHANGED aesKey
  /\ UNCHANGED <<setup, buffer, pidMap, algo, aes, call>>

\* SetAlgo; the cipher mode is data.
SetsMode(key, mode) ==
  /\ request = NoRequest /\ "mode" \in setup.kinds
  /\ algo' = [algo EXCEPT ![key] = mode]
  /\ UNCHANGED <<setup, buffer, pidMap, aes, aesKey, request>>
  /\ Excuses(key)

\* A call sees the packets that were there when it began.
PacketArrives(packet) ==
  /\ call.pc = "idle" /\ Len(buffer) < setup.max
  /\ buffer' = Append(buffer, packet)
  /\ UNCHANGED <<setup, pidMap, ciphers, call>>
-----------------------------------------------------------------------------
Next ==
  \/ DeliversClear \/ DecryptStarts \/ RefusesHead \/ Passes
  \/ TakesBlockCipher \/ TakesCsa \/ ScanEnds \/ WaitEnds \/ Decrypts
  \/ Delivers \/ VdrSkips
  \/ \E pid \in Pids, key \in Keys \cup {NoKey} : SetCaPid(pid, key)
  \/ \E kind \in setup.kinds, key \in Keys : Asks(kind, key)
  \/ SetsCw \/ SetsAesKey
  \/ \E key \in Keys, mode \in setup.modes : SetsMode(key, mode)
  \/ \E packet \in NewPacket : PacketArrives(packet)

Spec == Init /\ [][Next]_vars
-----------------------------------------------------------------------------
TypeOK ==
  /\ Len(buffer) <= setup.max /\ pidMap \in [Pids -> Keys \cup {NoKey}]
  /\ \A at \in DOMAIN buffer :
       /\ buffer[at].pid \in Pids /\ buffer[at].key \in Keys \cup {NoKey}
       /\ buffer[at].ran \in Seq({"csa", "des", "aes"})
  /\ algo \in [Keys -> setup.modes \cup {"csa"}] /\ aes \subseteq Keys /\ aesKey \subseteq Keys
  /\ request.kind \in setup.kinds \cup {"none"} /\ request.key \in Keys \cup {NoKey}
  /\ call.pc \in {"idle", "scanning", "waiting", "decrypting", "returned"}
  /\ call.l \in 1 .. setup.max + 1 /\ call.cur \in Keys \cup {NoKey}
  /\ call.ranges \in Seq((1 .. setup.max) \X (2 .. setup.max + 1))

(***************************************************************************)
(* No packet is decrypted twice, although the cipher of its key may change *)
(* while the batch is collected and every call sees the packets of the     *)
(* calls before: the scrambling bits are clear exactly when a cipher ran.  *)
(***************************************************************************)
DecryptedOnce ==
  \A at \in DOMAIN buffer :
    LET p == buffer[at]
    IN  /\ Len(p.ran) <= 1
        /\ p.n > 0 /\ p.offset => (p.sc # p.was <=> Len(p.ran) = 1)
        /\ Len(p.ran) = 1 => p.with = p.was

(***************************************************************************)
(* A packet is decrypted with the key its pid has in the pid map, although *)
(* the packets of several services lie in the buffer side by side.  A call *)
(* that waited for a CW goes on with the key it had looked up.             *)
(***************************************************************************)
WithOwnKey ==
  [][~call.waited =>
       \A at \in DOMAIN buffer :
         Len(buffer') = Len(buffer) /\ buffer'[at].ran # buffer[at].ran
           => buffer'[at].key = pidMap[buffer[at].pid]]_vars

(***************************************************************************)
(* SCCAMSlot::Decrypt never gives VDR a packet that is still scrambled     *)
(* when it could have been decrypted: its pid had no key, it has no        *)
(* payload, the wait for its CW was cancelled, or its AES key is missing   *)
(* or the cipher was changed in the middle of the call.                    *)
(***************************************************************************)
HeadServed ==
  call.pc = "returned" /\ Head(buffer).sc \in Parities /\ Head(buffer).offset
    => call.why \in {"refused", "aborted"} \/ call.excused
=============================================================================
