------------------------------ MODULE BchanDev ------------------------------
(***************************************************************************)
(* The devices a program reads and writes a B-channel through: the         *)
(* telephone device (driver/i4b_tel.c) and the raw device                  *)
(* (driver/i4b_rbch.c), one unit of either kind.                           *)
(*                                                                         *)
(* A unit is connected to a FIFO translator of layer 1 by i4b_setup_driver *)
(* (layer4/i4b_l4.c), which holds the lock of the controller and           *)
(* i4b_global_lock. A system call reads the translator of its unit under   *)
(* i4b_global_lock, gives that lock up, takes the lock of the controller   *)
(* and only then compares the refcount (FIFO_TRANSLATOR_ACCESS, SC_LOCK of *)
(* include/i4b_controller.h). Between two locks, and while it sleeps, the  *)
(* call may end, another one may begin on the same channel, or the channel *)
(* may go to another driver. What happens under one lock is one action.    *)
(***************************************************************************)
EXTENDS Integers, Sequences, FiniteSets, Functions

CONSTANTS
  Thread,    \* threads of the programs that use the unit
  Chan,      \* the FIFO translators of one controller
  Kinds,     \* kinds of units, of {"tel", "rbch"}
  Uses,      \* the sets of system calls the programs may use
  QMax,      \* ifq_maxlen
  MaxTones,  \* I4B_TEL_MAXTONES
  Programs,  \* the tone programs handed to I4B_TEL_TONES
  BufLen,    \* samples in one buffer of tones
  RefMax,    \* bound on the changes of one translator
  NoChan     \* the null pointer

DataCalls == {"read", "write", "tones"}
Calls == DataCalls \cup {"close", "dread"}

ASSUME BchanDevAssumption ==
  /\ Kinds \subseteq {"tel", "rbch"} /\ Uses \subseteq SUBSET Calls
  /\ QMax \in Nat \ {0} /\ BufLen \in Nat \ {0}
  /\ RefMax \in Nat /\ MaxTones \in Nat /\ NoChan \notin Chan
  /\ \A p \in Programs : p \in Seq(Nat \ {0}) /\ Len(p) <= MaxTones

\* The samples of a tone program
Total(p) == FoldFunction(+, 0, p)

\* A sum of durations is a number of samples.
ASSUME TotalAssumption ==
  \A p \in Programs \cup {<<>>} : Total(p) \in Nat

VARIABLES
  kind,   \* the driver of the unit
  uses,   \* the system calls of the programs
  ft,     \* sc_fifo_translator
  user,   \* who holds each translator: "unit", "other" driver or "none"
  ref,    \* refcount of each translator
  rx, tx, \* lengths of rx_queue and tx_queue
  st,     \* sc_flags, state: the set of flags that are on
  prog,   \* tones: the durations of the current program
  played, \* samples of it that were generated
  th      \* what each thread does

bdVars == <<kind, uses, ft, user, ref, rx, tx, st, prog, played, th>>

Flags == {"ISOPEN", "RDWAIT", "WRWAIT", "NOBLOCK", "TONE", "BRIDGE",
          "RDWAIT_STATUS", "NO_STATUS", "ISOPEN2", "FILE"}

Idents == {"none", "rx", "tx", "tones", "status", "unit"}

\* pc: "access" before the translator is read, "change" between the two locks,
\* "sleep", "woken", or "spin" in a loop that keeps the lock.
Idle == [op |-> "none", pc |-> "idle", f |-> NoChan, ref |-> 0, on |-> "none"]

BdTypeOK ==
  /\ kind \in Kinds /\ uses \in Uses /\ ft \in Chan \cup {NoChan}
  /\ user \in [Chan -> {"none", "unit", "other"}]
  /\ ref \in [Chan -> 0..RefMax]
  /\ rx \in [Chan -> 0..QMax] /\ tx \in [Chan -> 0..(QMax + 1)]
  /\ st \subseteq Flags /\ prog \in Programs \cup {<<>>} /\ played \in Nat
  /\ \A t \in Thread :
       /\ th[t].op \in DataCalls \cup {"none", "close", "closed", "dread"}
       /\ th[t].pc \in {"idle", "access", "change", "sleep", "woken", "spin"}
       /\ th[t].f \in Chan \cup {NoChan} /\ th[t].ref \in 0..RefMax
       /\ th[t].on \in Idents

\* i4b_tel_attach, i4b_rbch_attach
BdInit ==
  /\ kind \in Kinds /\ uses \in Uses /\ ft = NoChan /\ user = [c \in Chan |-> "none"]
  /\ ref = [c \in Chan |-> 0] /\ rx = [c \in Chan |-> 0] /\ tx = [c \in Chan |-> 0]
  /\ st = {} /\ prog = <<>> /\ played = 0 /\ th = [t \in Thread |-> Idle]

-----------------------------------------------------------------------------
(* Sleeping and waking *)

Go(t, r) == th' = [th EXCEPT ![t] = r]

Done(t) == Go(t, Idle)

Sleep(t, on) == Go(t, [th[t] EXCEPT !.pc = "sleep", !.on = on])

\* The threads T after wakeup() of an address; f is NoChan for an address that is
\* not part of a translator.
Wake(T, on, f) ==
  [t \in Thread |->
     IF T[t].pc = "sleep" /\ T[t].on = on /\ (f = NoChan \/ T[t].f = f)
     THEN [T[t] EXCEPT !.pc = "woken"] ELSE T[t]]

\* No thread loops while it holds the lock of the controller.
LockFree == \A t \in Thread : th[t].pc # "spin"

-----------------------------------------------------------------------------
(* i4b_tel_tone *)

\* tone_index: the number of tones that were begun.
ToneIndex == CHOOSE k \in 0..Len(prog) :
               /\ Total(SubSeq(prog, 1, k)) >= played
               /\ \A j \in 0..(k - 1) : Total(SubSeq(prog, 1, j)) < played

\* Fills one buffer. The program is over when a sample is missing.
ToneEnds == played + BufLen > Total(prog)

Tone(T) ==
  /\ played' = IF ToneEnds THEN Total(prog) ELSE played + BufLen
  /\ IF ToneEnds THEN st' = st \ {"TONE"} /\ th' = Wake(T, "tones", NoChan)
                 ELSE UNCHANGED st /\ th' = T

\* tones.duration[tone_index] != 0. The entry after a full table lies outside it.
MoreTones ==
  IF ToneIndex < MaxTones THEN {ToneIndex < Len(prog)} ELSE BOOLEAN

-----------------------------------------------------------------------------
(* Access to the translator *)

\* The data device: one file at a time; the system closes a file after every
\* call on it has returned.
Open ==
  /\ IF "ISOPEN" \in st THEN st' = st \ {"NOBLOCK"}
     ELSE st' = (st \ {"NOBLOCK", "BRIDGE"}) \cup {"ISOPEN", "FILE"}
  /\ LockFree /\ UNCHANGED <<kind, uses, ft, user, ref, rx, tx, prog, played, th>>

Call(t, op) ==
  /\ op \in uses /\ th[t].pc = "idle"
  /\ op \in DataCalls => "FILE" \in st /\ (op = "tones" => kind = "tel")
  /\ op = "dread" => "ISOPEN2" \in st
  /\ IF op = "close"
     THEN /\ "FILE" \in st /\ \A u \in Thread : th[u].op \notin DataCalls
          /\ st' = st \ {"FILE"}
     ELSE UNCHANGED st
  /\ Go(t, [Idle EXCEPT !.op = IF op = "close" /\ kind = "rbch" THEN "closed" ELSE op,
                        !.pc = "access"])
  /\ UNCHANGED <<kind, uses, ft, user, ref, rx, tx, prog, played>>

\* Under i4b_global_lock: at first, after a reconnection, and after a sleep of the
\* code for a unit that is not connected.
AtAccess(t) == th[t].pc = "access" \/ (th[t].pc = "woken" /\ th[t].f = NoChan)

Access(t) ==
  /\ AtAccess(t) /\ ft # NoChan
  /\ Go(t, [th[t] EXCEPT !.pc = "change", !.f = ft, !.ref = ref[ft], !.on = "none"])
  /\ UNCHANGED <<kind, uses, ft, user, ref, rx, tx, st, prog, played>>

\* Under the lock of the controller: FIFO_TRANSLATOR_CHECK_CONNECTED.
AtCheck(t) == th[t].pc \in {"change", "woken"} /\ th[t].f # NoChan /\ LockFree

Current(t) == ref[th[t].f] = th[t].ref

Reaccess(t) ==
  /\ AtCheck(t) /\ ~Current(t)
  /\ Go(t, [Idle EXCEPT !.op = th[t].op, !.pc = "access"])
  /\ UNCHANGED <<kind, uses, ft, user, ref, rx, tx, st, prog, played>>

Connected(t, op) == AtCheck(t) /\ Current(t) /\ th[t].op = op
NotConnected(t, op) == AtAccess(t) /\ ft = NoChan /\ th[t].op = op

-----------------------------------------------------------------------------
(* The connected code of each call *)

Read(t) ==
  /\ Connected(t, "read")
  /\ LET f == th[t].f IN
     IF rx[f] > 0
     THEN rx' = [rx EXCEPT ![f] = @ - 1] /\ Done(t) /\ UNCHANGED st
     ELSE /\ UNCHANGED rx
          /\ IF "NOBLOCK" \in st
             THEN Go(t, [th[t] EXCEPT !.pc = "spin"]) /\ UNCHANGED st
             ELSE Sleep(t, "rx") /\ st' = st \cup {"RDWAIT"}
  /\ UNCHANGED <<kind, uses, ft, user, ref, tx, prog, played>>

\* A write to the telephone device ends the tones.
Write(t) ==
  /\ Connected(t, "write")
  /\ LET f == th[t].f
         s == IF kind = "tel" /\ th[t].pc = "change" THEN st \ {"TONE"} ELSE st IN
     IF tx[f] < QMax
     THEN tx' = [tx EXCEPT ![f] = @ + 1] /\ Done(t) /\ st' = s
     ELSE /\ UNCHANGED tx
          /\ IF "NOBLOCK" \in st THEN Done(t) /\ st' = s
             ELSE Sleep(t, "tx") /\ st' = s \cup {"WRWAIT"}
  /\ UNCHANGED <<kind, uses, ft, user, ref, rx, prog, played>>

\* i4b_tel_close waits until everything was sent, then until the tones are over.
Closed(t) == Go(t, [Idle EXCEPT !.op = "closed", !.pc = "access"])

CloseWait(t) ==
  /\ Connected(t, "close")
  /\ IF tx[th[t].f] > 0 /\ th[t].on # "tones"
     THEN Sleep(t, "tx") /\ st' = st \cup {"WRWAIT"}
     ELSE IF "TONE" \in st THEN Sleep(t, "tones") /\ UNCHANGED st
     ELSE Closed(t) /\ UNCHANGED st
  /\ UNCHANGED <<kind, uses, ft, user, ref, rx, tx, prog, played>>

CloseNotConnected(t) ==
  /\ NotConnected(t, "close") /\ Closed(t)
  /\ UNCHANGED <<kind, uses, ft, user, ref, rx, tx, st, prog, played>>

\* The end of a close, with either lock.
CloseDone(t) ==
  /\ Connected(t, "closed") \/ NotConnected(t, "closed")
  /\ st' = st \ {"ISOPEN", "BRIDGE"} /\ Done(t)
  /\ UNCHANGED <<kind, uses, ft, user, ref, rx, tx, prog, played>>

\* I4B_TEL_TONES; without a buffer the first tones are left to tel_get_mbuf.
Tones(t) ==
  /\ Connected(t, "tones")
  /\ UNCHANGED <<kind, uses, ft, user, ref, rx>>
  /\ \/ /\ "TONE" \in st /\ TRUE \in MoreTones
        /\ Sleep(t, "tones") /\ UNCHANGED <<st, prog, played, tx>>
     \/ /\ "TONE" \in st => FALSE \in MoreTones
        /\ tx[th[t].f] <= QMax
        /\ \E p \in Programs, memory \in BOOLEAN :
             LET ends == memory /\ BufLen > Total(p)
                 T == [th EXCEPT ![t] = Idle] IN
             /\ prog' = p
             /\ played' = IF ~memory THEN 0 ELSE IF ends THEN Total(p) ELSE BufLen
             /\ st' = IF ends THEN st \ {"TONE"} ELSE st \cup {"TONE"}
             /\ th' = IF ends THEN Wake(T, "tones", NoChan) ELSE T
             /\ tx' = IF memory THEN [tx EXCEPT ![th[t].f] = @ + 1] ELSE tx

\* Mutant: the flag is set only by the code for a connected unit.
BugStatusRead(t) ==
  /\ Connected(t, "dread") \/ NotConnected(t, "dread")
  /\ IF "NO_STATUS" \in st
     THEN /\ Sleep(t, "status")
          /\ st' = IF ft = NoChan THEN st ELSE st \cup {"RDWAIT_STATUS"}
     ELSE Done(t) /\ st' = st \cup {"NO_STATUS"}
  /\ UNCHANGED <<kind, uses, ft, user, ref, rx, tx, prog, played>>

\* i4b_tel_dread, connected or not
StatusRead(t) ==
  /\ Connected(t, "dread") \/ NotConnected(t, "dread")
  /\ IF "NO_STATUS" \in st
     THEN /\ Sleep(t, "status")
          /\ st' = st \cup {"RDWAIT_STATUS"}
     ELSE Done(t) /\ st' = st \cup {"NO_STATUS"}
  /\ UNCHANGED <<kind, uses, ft, user, ref, rx, tx, prog, played>>

\* The code for a unit that is not connected: the telephone device reports an
\* error, the raw device waits for a call.
DataNotConnected(t) ==
  /\ \E op \in DataCalls : NotConnected(t, op)
  /\ IF kind = "tel" \/ "NOBLOCK" \in st THEN Done(t)
     ELSE Go(t, [th[t] EXCEPT !.pc = "sleep", !.on = "unit", !.f = NoChan])
  /\ UNCHANGED <<kind, uses, ft, user, ref, rx, tx, st, prog, played>>

\* A sleep ends with an error. i4b_tel_dread without a connection tries again.
Signal(t) ==
  /\ th[t].pc = "sleep" /\ LockFree
  /\ th[t].f # NoChan \/ th[t].on = "unit"
  /\ IF th[t].op = "close" THEN Closed(t) ELSE Done(t)
  /\ UNCHANGED <<kind, uses, ft, user, ref, rx, tx, st, prog, played>>

-----------------------------------------------------------------------------
(* ioctls that do not wait, and the response of the daemon *)

SetNonBlocking(on) ==
  /\ kind = "rbch" /\ "FILE" \in st /\ LockFree
  /\ st' = IF on THEN st \cup {"NOBLOCK"} ELSE st \ {"NOBLOCK"}
  /\ UNCHANGED <<kind, uses, ft, user, ref, rx, tx, prog, played, th>>

SetSoundBridge ==
  /\ kind = "tel" /\ "FILE" \in st
  /\ st' = st \cup {"BRIDGE"}
  /\ UNCHANGED <<kind, uses, ft, user, ref, rx, tx, prog, played, th>>

EmptyInputQueue ==
  /\ kind = "tel" /\ "FILE" \in st /\ ft # NoChan
  /\ rx' = [rx EXCEPT ![ft] = 0]
  /\ UNCHANGED <<kind, uses, ft, user, ref, tx, st, prog, played, th>>

\* i4b_tel_dopen and i4b_tel_dclose
StatusOpen ==
  /\ kind = "tel" /\ "dread" \in uses /\ "ISOPEN2" \notin st
  /\ st' = st \cup {"ISOPEN2", "NO_STATUS"}
  /\ UNCHANGED <<kind, uses, ft, user, ref, rx, tx, prog, played, th>>

StatusClose ==
  /\ "ISOPEN2" \in st /\ \A t \in Thread : th[t].op # "dread"
  /\ st' = st \ {"ISOPEN2"}
  /\ UNCHANGED <<kind, uses, ft, user, ref, rx, tx, prog, played, th>>

\* tel_response_to_user
Response ==
  /\ kind = "tel" /\ "dread" \in uses
  /\ st' = st \ {"NO_STATUS", "RDWAIT_STATUS"}
  /\ th' = IF "RDWAIT_STATUS" \in st THEN Wake(th, "status", NoChan) ELSE th
  /\ UNCHANGED <<kind, uses, ft, user, ref, rx, tx, prog, played>>

-----------------------------------------------------------------------------
(* Layer 1: a frame arrived, a frame can be sent *)

PutMbuf(c) ==
  /\ user[c] = "unit" /\ LockFree
  /\ rx' = [rx EXCEPT ![c] = IF @ < QMax THEN @ + 1 ELSE @]
  /\ st' = st \ {"RDWAIT"}
  /\ th' = IF "RDWAIT" \in st THEN Wake(th, "rx", c) ELSE th
  /\ UNCHANGED <<kind, uses, ft, user, ref, tx, prog, played>>

\* Mutant: an empty queue wakes nobody.
BugGetMbuf(c) ==
  /\ user[c] = "unit" /\ LockFree
  /\ \/ tx[c] > 0 /\ tx' = [tx EXCEPT ![c] = @ - 1] /\ UNCHANGED <<st, played, th>>
     \/ tx[c] = 0 /\ "TONE" \in st /\ Tone(th) /\ UNCHANGED tx
  /\ UNCHANGED <<kind, uses, ft, user, ref, rx, prog>>

GetMbuf(c) ==
  /\ user[c] = "unit" /\ LockFree
  /\ UNCHANGED <<kind, uses, ft, user, ref, rx, prog>>
  /\ \/ /\ tx[c] > 0
        /\ tx' = [tx EXCEPT ![c] = @ - 1] /\ UNCHANGED <<st, played, th>>
     \/ /\ tx[c] = 0 /\ "TONE" \in st /\ Tone(th) /\ UNCHANGED tx
     \/ /\ tx[c] = 0 /\ "TONE" \notin st
        /\ st' = st \ {"WRWAIT"}
        /\ th' = IF "WRWAIT" \in st THEN Wake(th, "tx", c) ELSE th
        /\ UNCHANGED <<tx, played>>

-----------------------------------------------------------------------------
(* i4b_setup_driver with tel_setup_ft and rbch_setup_ft *)

Drained(c) == rx' = [rx EXCEPT ![c] = 0] /\ tx' = [tx EXCEPT ![c] = 0]

\* tel_setup_ft for a disconnection wakes those who wait. rbch_setup_ft does not.
Unset(T, c) ==
  IF kind = "tel"
  THEN LET R == IF "RDWAIT" \in st THEN Wake(T, "rx", c) ELSE T
           W == IF "WRWAIT" \in st THEN Wake(R, "tx", c) ELSE R IN
       /\ st' = st \ {"RDWAIT", "WRWAIT", "TONE"}
       /\ th' = IF "TONE" \in st THEN Wake(W, "tones", NoChan) ELSE W
  ELSE UNCHANGED st /\ th' = T

\* Layer 1 may refuse, and a telephone unit with a sound bridge refuses itself:
\* then the translator is set up and unset at once.
Connect(c, accepted) ==
  /\ user[c] = "none" /\ ft = NoChan /\ LockFree
  /\ Drained(c)
  /\ LET T == IF kind = "rbch" THEN Wake(th, "unit", NoChan) ELSE th IN
     IF accepted /\ "BRIDGE" \notin st
     THEN /\ ref[c] < RefMax /\ ref' = [ref EXCEPT ![c] = @ + 1]
          /\ ft' = c /\ user' = [user EXCEPT ![c] = "unit"]
          /\ th' = T /\ UNCHANGED st
     ELSE /\ ref[c] + 1 < RefMax /\ ref' = [ref EXCEPT ![c] = @ + 2]
          /\ Unset(T, c) /\ UNCHANGED <<ft, user>>
  /\ UNCHANGED <<kind, uses, prog, played>>

\* Mutant: the refcount is left alone when a call ends.
BugDisconnect(c) ==
  /\ ft = c /\ LockFree
  /\ Drained(c) /\ UNCHANGED ref
  /\ ft' = NoChan /\ user' = [user EXCEPT ![c] = "none"]
  /\ Unset(th, c)
  /\ UNCHANGED <<kind, uses, prog, played>>

Disconnect(c) ==
  /\ ft = c /\ LockFree /\ ref[c] < RefMax
  /\ Drained(c) /\ ref' = [ref EXCEPT ![c] = @ + 1]
  /\ ft' = NoChan /\ user' = [user EXCEPT ![c] = "none"]
  /\ Unset(th, c)
  /\ UNCHANGED <<kind, uses, prog, played>>

\* Another driver takes the channel, returns it, or wakes who sleeps on it.
OtherSetup(c) ==
  /\ user[c] # "unit" /\ LockFree /\ ref[c] < RefMax
  /\ Drained(c) /\ ref' = [ref EXCEPT ![c] = @ + 1]
  /\ user' = [user EXCEPT ![c] = IF @ = "none" THEN "other" ELSE "none"]
  /\ UNCHANGED <<kind, uses, ft, st, prog, played, th>>

OtherWakes(c) ==
  /\ user[c] = "other" /\ LockFree
  /\ th' \in {Wake(th, "rx", c), Wake(th, "tx", c)} /\ th' # th
  /\ UNCHANGED <<kind, uses, ft, user, ref, rx, tx, st, prog, played>>

-----------------------------------------------------------------------------
Returns(t) ==
  \/ Access(t) \/ Reaccess(t) \/ Read(t) \/ Write(t) \/ CloseWait(t)
  \/ CloseNotConnected(t) \/ CloseDone(t) \/ Tones(t) \/ StatusRead(t)
  \/ DataNotConnected(t)

BdNext ==
  \/ \E t \in Thread :
       \/ \E op \in Calls : Call(t, op)
       \/ Returns(t) \/ Signal(t)
  \/ Open \/ \E on \in BOOLEAN : SetNonBlocking(on)
  \/ SetSoundBridge \/ EmptyInputQueue \/ StatusOpen \/ StatusClose \/ Response
  \/ \E c \in Chan :
       \/ PutMbuf(c) \/ GetMbuf(c) \/ Disconnect(c) \/ OtherSetup(c) \/ OtherWakes(c)
       \/ \E accepted \in BOOLEAN : Connect(c, accepted)

\* Threads run, and layer 1 keeps sending on a connected channel.
BdFair ==
  /\ \A t \in Thread : WF_bdVars(Returns(t))
  /\ \A c \in Chan : WF_bdVars(GetMbuf(c))

BdSpec == BdInit /\ [][BdNext]_bdVars /\ BdFair

-----------------------------------------------------------------------------
(* Properties *)

\* The refcount is enough: a thread that finds it as it left it, after the change
\* of locks or after a sleep, has the translator the unit is still connected to,
\* though the lock under which it read the pointer was given up.
RefcountGuards ==
  BdTypeOK /\ \A t \in Thread :
    th[t].f # NoChan /\ Current(t) => ft = th[t].f /\ user[th[t].f] = "unit"

\* Whoever sleeps will be woken by what it waits for: the flag the interrupt looks
\* at is on, whichever lock it was set under, and what is waited for is not there.
NoMissedWakeup ==
  \A t \in Thread : th[t].pc = "sleep" =>
    /\ th[t].on = "rx" /\ Current(t) => "RDWAIT" \in st /\ rx[th[t].f] = 0
    /\ th[t].on = "tx" /\ Current(t) => "WRWAIT" \in st
    /\ th[t].on = "status" => {"RDWAIT_STATUS", "NO_STATUS"} \subseteq st
    /\ th[t].on = "unit" => ft = NoChan

\* No read, write or close of the telephone device sleeps on through the end of
\* its call: tel_setup_ft wakes them all, tones or not.
DisconnectWakes ==
  kind = "tel" =>
    \A t \in Thread :
      th[t].pc = "sleep" /\ th[t].op \in {"read", "write", "close"} => Current(t)

Closing == \E t \in Thread : th[t].op \in {"close", "closed"}

\* A close, which waits for what was written and for the tones, returns while
\* layer 1 keeps sending, also when calls end and begin meanwhile.
CloseReturns ==
  Closing ~> ~Closing
=============================================================================
