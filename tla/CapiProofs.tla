----------------------------- MODULE CapiProofs -----------------------------
(***************************************************************************)
(* Proofs about the calls of CAPI applications (CapiCall), for every       *)
(* number of applications, calls and B-channels.                           *)
(***************************************************************************)
EXTENDS CapiCall, FiniteSetTheorems, TLAPS

\* The time that the provers may take for a step
USE ZenonT(3), SMTT(20), ZenonT(60)

-----------------------------------------------------------------------------
(* The invariant *)

CallRec ==
  [used : BOOLEAN, incoming : BOOLEAN,
   st : {"idle", "dialing", "acked", "overlap", "offered", "accepted", "active"},
   ai : Apps \cup {"all", "i4b"}, count : 0 .. Cardinality(Apps) + 1,
   chan : {"no", "real", "void"}, hold : {"no", "held", "back"},
   drv : {"none", "capi", "tone", "other"}, copy : {"none", "capi", "tone", "other"},
   want : BOOLEAN, linked : {"no", "capi", "tone", "other"}, tx : Nat, max : Blocks \cup {0}]

\* What an application that is not told any more believes may be anything.
ViewRec == [known : BOOLEAN, b3 : BOOLEAN, owed : Int, ok : BOOLEAN]

Contexts == [d : CallRec, v : [Apps -> ViewRec], to : SUBSET Apps]

\* A FIFO is set up only for a call that wants it and has its channel, and for the CAPI
\* only if the call has an owner; a call that nobody has taken is being offered.
DescOK(d) ==
  /\ d.linked # "no" => d.want /\ d.chan = "real" /\ d.copy = d.linked
  /\ d.linked # "capi" => d.tx = 0
  /\ d.tx <= d.max
  /\ d.drv = "capi" \/ d.linked = "capi" => d.ai \in Apps
  /\ d.ai = "all" => d.incoming /\ d.st \in {"overlap", "offered"}
  /\ ~d.incoming => d.ai \in Apps

\* What application a has been told of a call in use
Told(d, a, x) ==
  /\ x.ok
  /\ x.b3 <=> (d.ai = a /\ d.linked = "capi")
  /\ x.owed = IF d.ai = a /\ d.linked = "capi" THEN d.tx ELSE 0
  /\ x.known => d.ai \in {"all", a}
  /\ d.ai = a => x.known

\* ... and of one that is over
Blank(x) == x.ok /\ ~x.b3 /\ x.owed = 0 /\ ~x.known

\* The middle of a handler: the call is in use, or over.
Sound(r) ==
  /\ r \in Contexts /\ r.d.used /\ DescOK(r.d)
  /\ \A a \in Apps : Trusts(a) => Told(r.d, a, r.v[a])

Over(r) ==
  /\ r \in Contexts /\ r.d = NoCall
  /\ \A a \in Apps : Trusts(a) => Blank(r.v[a])

\* An application that handles a request is not gone; one that is not open knows nothing.
DeviceInv ==
  /\ app \in [Apps -> {"open", "closing", "gone"}]
  /\ writing \in [Apps -> BOOLEAN] /\ listens \in [Apps -> BOOLEAN]
  /\ blocks \in [Apps -> Blocks \cup {0}] /\ lost \subseteq Apps
  /\ \A a \in Apps : writing[a] => app[a] # "gone"
  /\ \A a \in Apps : app[a] # "open" => a \notin lost /\ \A c \in Calls : view[a][c] = Untold

ViewsInv ==
  view \in [Apps -> [Calls -> [known : BOOLEAN, b3 : BOOLEAN, owed : Nat, ok : BOOLEAN]]]

\* A call in use, and a descriptor that is free
CallSound(c) ==
  /\ call[c].used /\ DescOK(call[c])
  /\ \A a \in Apps : Trusts(a) => Told(call[c], a, view[a][c])

CallOver(c) == call[c] = NoCall /\ \A a \in Apps : Trusts(a) => Blank(view[a][c])

CallsInv ==
  /\ call \in [Calls -> CallRec]
  /\ \A c \in Calls : CallSound(c) \/ CallOver(c)
  /\ \A c \in Calls : call[c].ai \in Apps => app[call[c].ai] # "gone"

CapiInv == DeviceInv /\ ViewsInv /\ CallsInv /\ Spare >= 0

-----------------------------------------------------------------------------
(* Contexts *)

\* The names of the owners that are not applications
LEMMA OwnerNames == "all" \notin Apps /\ "i4b" \notin Apps
BY CapiAssumption

\* The context with another descriptor
With(r, d) == [r EXCEPT !.d = d]

\* Only the descriptor changes.
LEMMA WithFields ==
  ASSUME NEW r \in Contexts, NEW d \in CallRec
  PROVE  /\ With(r, d) \in Contexts /\ With(r, d).d = d /\ With(r, d).v = r.v
         /\ With(r, d).to = r.to
BY DEF Contexts, With

Messages == {"connect", "active", "b3up", "b3down", "sent", "taken", "end"}

\* What an application knows may be set.
LEMMA ViewSet ==
  ASSUME NEW x \in ViewRec, NEW b \in BOOLEAN, NEW o \in Int, NEW k \in BOOLEAN
  PROVE  /\ [x EXCEPT !.b3 = b, !.owed = o, !.ok = k] \in ViewRec
         /\ [x EXCEPT !.owed = o, !.ok = k] \in ViewRec
<1>1. [x EXCEPT !.b3 = b, !.owed = o, !.ok = k] \in ViewRec
  BY DEF ViewRec
<1>2. [x EXCEPT !.owed = o, !.ok = k] \in ViewRec
  BY DEF ViewRec
<1> QED
  BY <1>1, <1>2

\* What an application makes of a message
LEMMA HearType ==
  ASSUME NEW x \in ViewRec, NEW m \in Messages
  PROVE  Hear(x, m) \in ViewRec
<1>1. CASE m = "connect"
  BY <1>1 DEF Hear, ViewRec
<1>2. CASE m = "active"
  BY <1>2 DEF Hear, ViewRec
<1>3. CASE m = "b3up"
  <2>a. PICK b \in BOOLEAN : b = TRUE
    OBVIOUS
  <2>0. PICK o \in Int : o = 0
    OBVIOUS
  <2>1. PICK k \in BOOLEAN : k = (x.ok /\ x.known /\ ~x.b3)
    OBVIOUS
  <2>2. Hear(x, m) = [x EXCEPT !.b3 = b, !.owed = o, !.ok = k]
    BY <1>3, <2>a, <2>0, <2>1 DEF Hear
  <2>3. [x EXCEPT !.b3 = b, !.owed = o, !.ok = k] \in ViewRec
    BY ViewSet
  <2> QED
    BY <2>2, <2>3
<1>4. CASE m = "b3down"
  <2>a. PICK b \in BOOLEAN : b = FALSE
    OBVIOUS
  <2>0. PICK o \in Int : o = 0
    OBVIOUS
  <2>1. PICK k \in BOOLEAN : k = (x.ok /\ x.b3)
    OBVIOUS
  <2>2. Hear(x, m) = [x EXCEPT !.b3 = b, !.owed = o, !.ok = k]
    BY <1>4, <2>a, <2>0, <2>1 DEF Hear
  <2>3. [x EXCEPT !.b3 = b, !.owed = o, !.ok = k] \in ViewRec
    BY ViewSet
  <2> QED
    BY <2>2, <2>3
<1>5. CASE m = "sent"
  BY <1>5 DEF Hear, ViewRec
<1>6. CASE m = "taken"
  <2>1. PICK k \in BOOLEAN : k = (x.ok /\ x.b3 /\ x.owed > 0)
    OBVIOUS
  <2>2. Hear(x, m) = [x EXCEPT !.owed = x.owed - 1, !.ok = k]
    BY <1>6, <2>1 DEF Hear
  <2>3. x.owed - 1 \in Int
    BY DEF ViewRec
  <2>4. [x EXCEPT !.owed = x.owed - 1, !.ok = k] \in ViewRec
    BY <2>3, ViewSet
  <2> QED
    BY <2>2, <2>4
<1>7. CASE m = "end"
  BY <1>7 DEF Hear, ViewRec
<1> QED
  BY <1>1, <1>2, <1>3, <1>4, <1>5, <1>6, <1>7 DEF Messages

\* The messages on a call
LEMMA HearCall ==
  ASSUME NEW x \in ViewRec
  PROVE  /\ Hear(x, "connect").ok = x.ok /\ Hear(x, "connect").b3 = x.b3
         /\ Hear(x, "connect").owed = x.owed /\ Hear(x, "connect").known
         /\ Hear(x, "active").ok = (x.ok /\ x.known) /\ Hear(x, "active").b3 = x.b3
         /\ Hear(x, "active").owed = x.owed /\ Hear(x, "active").known = x.known
         /\ Hear(x, "end").ok = (x.ok /\ ~x.b3) /\ Hear(x, "end").b3 = x.b3
         /\ Hear(x, "end").owed = x.owed /\ ~Hear(x, "end").known
BY DEF Hear, ViewRec

\* The messages on its B-channel
LEMMA HearB3 ==
  ASSUME NEW x \in ViewRec
  PROVE  /\ Hear(x, "b3up").ok = (x.ok /\ x.known /\ ~x.b3) /\ Hear(x, "b3up").b3
         /\ Hear(x, "b3up").owed = 0 /\ Hear(x, "b3up").known = x.known
         /\ Hear(x, "b3down").ok = (x.ok /\ x.b3) /\ ~Hear(x, "b3down").b3
         /\ Hear(x, "b3down").owed = 0 /\ Hear(x, "b3down").known = x.known
         /\ Hear(x, "sent").ok = x.ok /\ Hear(x, "sent").b3 = x.b3
         /\ Hear(x, "sent").owed = x.owed + 1 /\ Hear(x, "sent").known = x.known
         /\ Hear(x, "taken").ok = (x.ok /\ x.b3 /\ x.owed > 0) /\ Hear(x, "taken").b3 = x.b3
         /\ Hear(x, "taken").owed = x.owed - 1 /\ Hear(x, "taken").known = x.known
BY DEF Hear, ViewRec

\* The B-channel that an application knows to be connected is disconnected.
LEMMA HearDown ==
  ASSUME NEW x \in ViewRec, x.ok, x.b3, x.known, NEW y, y = Hear(x, "b3down")
  PROVE  y.ok /\ ~y.b3 /\ y.owed = 0 /\ y.known
BY HearB3

\* ... and connected again.
LEMMA HearUp ==
  ASSUME NEW x \in ViewRec, x.ok, ~x.b3, x.known, NEW y, y = Hear(x, "b3up")
  PROVE  y.ok /\ y.b3 /\ y.owed = 0 /\ y.known
BY HearB3

\* The call is offered, active or over.
LEMMA HearConnect ==
  ASSUME NEW x \in ViewRec, NEW y, y = Hear(x, "connect")
  PROVE  y.ok = x.ok /\ y.b3 = x.b3 /\ y.owed = x.owed /\ y.known
BY HearCall

\* A program that knows the call may be told that it is active.
LEMMA HearActive ==
  ASSUME NEW x \in ViewRec, x.ok, x.known, NEW y, y = Hear(x, "active")
  PROVE  y.ok /\ y.b3 = x.b3 /\ y.owed = x.owed /\ y.known
BY HearCall

\* A program may be told the end of a call whose B3 connection it does not have.
LEMMA HearEnd ==
  ASSUME NEW x \in ViewRec, x.ok, ~x.b3, NEW y, y = Hear(x, "end")
  PROVE  y.ok /\ ~y.b3 /\ y.owed = x.owed /\ ~y.known
BY HearCall

\* A message changes what those who get it know.
LEMMA PutFields ==
  ASSUME NEW r \in Contexts, NEW S \in SUBSET Apps, NEW m \in Messages
  PROVE  /\ Put(r, S, m) \in Contexts /\ Put(r, S, m).d = r.d
         /\ \A a \in Apps :
              Put(r, S, m).v[a] = IF a \in S THEN Hear(r.v[a], m) ELSE r.v[a]
<1> DEFINE v == [a \in Apps |-> IF a \in S THEN Hear(r.v[a], m) ELSE r.v[a]]
           to == r.to \cup S
<1>1. r.v \in [Apps -> ViewRec] /\ r.to \in SUBSET Apps
  BY DEF Contexts
<1>2. v \in [Apps -> ViewRec]
  BY <1>1, HearType
<1>3. to \in SUBSET Apps
  BY <1>1
<1>4. Put(r, S, m) = [r EXCEPT !.v = v, !.to = to]
  BY DEF Put
<1>5. \A a \in Apps : v[a] = IF a \in S THEN Hear(r.v[a], m) ELSE r.v[a]
  OBVIOUS
<1> HIDE DEF v, to
<1>6. Put(r, S, m) \in Contexts /\ Put(r, S, m).d = r.d /\ Put(r, S, m).v = v
  BY <1>2, <1>3, <1>4 DEF Contexts
<1> QED
  BY <1>5, <1>6

\* Those who hear of a call
LEMMA HearersAre ==
  ASSUME NEW d \in CallRec
  PROVE  /\ Hearers(d) \in SUBSET Apps
         /\ d.ai = "all" => Hearers(d) = Apps
         /\ d.ai \in Apps => Hearers(d) = {d.ai}
         /\ d.ai = "i4b" => Hearers(d) = {}
BY OwnerNames DEF Hearers

-----------------------------------------------------------------------------
(* The B-channel *)

\* The identity of a call
SameCall(d, e) ==
  /\ e.used = d.used /\ e.incoming = d.incoming /\ e.st = d.st /\ e.ai = d.ai
  /\ e.count = d.count /\ e.chan = d.chan /\ e.hold = d.hold /\ e.drv = d.drv

\* i4b_link_bchandrvr(cd,0): the FIFO is free, and its user was told.
LEMMA UnlinkSound ==
  ASSUME NEW r, Sound(r)
  PROVE  /\ Sound(UnlinkB3(r)) /\ SameCall(r.d, UnlinkB3(r).d) /\ UnlinkB3(r).d.linked = "no"
         /\ UnlinkB3(r).d.copy = r.d.copy /\ ~UnlinkB3(r).d.want
         /\ UnlinkB3(r).d.max \in {0, r.d.max}
<1>0. r \in Contexts /\ r.d \in CallRec /\ r.v \in [Apps -> ViewRec] /\ DescOK(r.d) /\ r.d.used
  BY DEF Sound, Contexts
<1> DEFINE e == [r.d EXCEPT !.want = FALSE, !.linked = "no", !.tx = 0, !.max = 0]
           f == [r.d EXCEPT !.want = FALSE]
<1>1. /\ e \in CallRec /\ SameCall(r.d, e) /\ e.linked = "no" /\ e.copy = r.d.copy /\ ~e.want
      /\ e.max = 0 /\ e.tx = 0
  BY <1>0 DEF CallRec, SameCall
<1>2. /\ f \in CallRec /\ SameCall(r.d, f) /\ f.linked = r.d.linked /\ f.copy = r.d.copy /\ ~f.want
      /\ f.max = r.d.max /\ f.tx = r.d.tx
  BY <1>0 DEF CallRec, SameCall
<1>3. [r EXCEPT !.d.want = FALSE, !.d.linked = "no", !.d.tx = 0, !.d.max = 0] = With(r, e)
  BY <1>0 DEF With, Contexts
<1>4. [r EXCEPT !.d.want = FALSE] = With(r, f)
  BY <1>0 DEF With, Contexts
<1> HIDE DEF e, f
<1>5. DescOK(e)
  BY <1>0, <1>1 DEF DescOK, SameCall
<1>6. CASE r.d.chan = "real" /\ r.d.linked = r.d.copy /\ r.d.linked = "capi"
  <2>1. UnlinkB3(r) = Put(With(r, e), Hearers(r.d), "b3down")
    BY <1>3, <1>6 DEF UnlinkB3
  <2>2. r.d.ai \in Apps /\ Hearers(r.d) = {r.d.ai}
    BY <1>0, <1>6, HearersAre DEF DescOK
  <2>3. With(r, e) \in Contexts /\ With(r, e).d = e /\ With(r, e).v = r.v
    BY <1>0, <1>1, WithFields
  <2> DEFINE u == UnlinkB3(r)
  <2>4. /\ u \in Contexts /\ u.d = e
        /\ \A a \in Apps : u.v[a] = IF a = r.d.ai THEN Hear(r.v[a], "b3down") ELSE r.v[a]
    BY <2>1, <2>2, <2>3, PutFields DEF Messages
  <2> HIDE DEF u
  <2>5. ASSUME NEW a \in Apps, Trusts(a) PROVE Told(e, a, u.v[a])
    <3>1. Told(r.d, a, r.v[a]) /\ r.v[a] \in ViewRec
      BY <1>0, <2>5 DEF Sound
    <3>2. CASE a = r.d.ai
      <4>1. r.v[a].b3 /\ r.v[a].ok /\ r.v[a].known
        BY <3>1, <3>2, <1>6 DEF Told
      <4>2. u.v[a] = Hear(r.v[a], "b3down")
        BY <2>4, <3>2
      <4>3. u.v[a].ok /\ ~u.v[a].b3 /\ u.v[a].owed = 0 /\ u.v[a].known
        BY <4>1, <4>2, <3>1, HearDown
      <4> QED
        BY <4>3, <1>1, <3>2 DEF Told, SameCall
    <3>3. CASE a # r.d.ai
      BY <3>1, <3>3, <2>4, <1>1 DEF Told, SameCall
    <3> QED
      BY <3>2, <3>3
  <2>6. Sound(u)
    BY <2>4, <2>5, <1>0, <1>1, <1>5 DEF Sound, SameCall
  <2> QED
    BY <2>6, <2>4, <1>1 DEF u
<1>7. CASE r.d.chan = "real" /\ r.d.linked = r.d.copy /\ r.d.linked # "capi"
  <2>1. UnlinkB3(r) = With(r, e)
    BY <1>3, <1>7 DEF UnlinkB3
  <2>2. With(r, e) \in Contexts /\ With(r, e).d = e /\ With(r, e).v = r.v
    BY <1>0, <1>1, WithFields
  <2>3. \A a \in Apps : Trusts(a) => Told(e, a, r.v[a])
    BY <1>1, <1>7 DEF Sound, Told, SameCall
  <2>4. Sound(With(r, e))
    BY <2>2, <2>3, <1>0, <1>1, <1>5 DEF Sound, SameCall
  <2> QED
    BY <2>1, <2>2, <2>4, <1>1
<1>8. CASE ~(r.d.chan = "real" /\ r.d.linked = r.d.copy)
  <2>0. r.d.linked = "no"
    BY <1>0, <1>8 DEF DescOK
  <2>1. UnlinkB3(r) = With(r, f)
    BY <1>4, <1>8 DEF UnlinkB3
  <2>2. With(r, f) \in Contexts /\ With(r, f).d = f /\ With(r, f).v = r.v
    BY <1>0, <1>2, WithFields
  <2>3. \A a \in Apps : Trusts(a) => Told(f, a, r.v[a])
    BY <1>2, <2>0 DEF Sound, Told, SameCall
  <2>4. DescOK(f)
    BY <1>0, <1>2, <2>0 DEF DescOK, SameCall
  <2>5. Sound(With(r, f))
    BY <2>2, <2>3, <2>4, <1>0, <1>2 DEF Sound, SameCall
  <2> QED
    BY <2>0, <2>1, <2>2, <2>5, <1>2
<1> QED
  BY <1>6, <1>7, <1>8

\* The descriptor of a call in use may change in what its owner is not told.
LEMMA WithSound ==
  ASSUME NEW r, Sound(r), NEW d \in CallRec, d.used, DescOK(d), d.ai = r.d.ai,
         (d.linked = "capi") <=> (r.d.linked = "capi"), d.tx = r.d.tx
  PROVE  Sound(With(r, d)) /\ With(r, d).d = d
<1>1. With(r, d) \in Contexts /\ With(r, d).d = d /\ With(r, d).v = r.v
  BY WithFields DEF Sound
<1>2. \A a \in Apps : Trusts(a) => Told(d, a, r.v[a])
  BY DEF Sound, Told
<1> QED
  BY <1>1, <1>2 DEF Sound

\* The driver of the call, its channel, the number of those who were offered it, and its
\* being on hold
LEMMA DrvSound ==
  ASSUME NEW r, Sound(r), NEW x \in {"capi", "tone"}, x = "capi" => r.d.ai \in Apps
  PROVE  /\ Sound([r EXCEPT !.d.drv = x]) /\ [r EXCEPT !.d.drv = x].d = [r.d EXCEPT !.drv = x]
<1>0. r \in Contexts /\ r.d \in CallRec /\ DescOK(r.d) /\ r.d.used
  BY DEF Sound, Contexts
<1> DEFINE e == [r.d EXCEPT !.drv = x]
<1>1. e \in CallRec /\ e.used = r.d.used /\ e.linked = r.d.linked /\ e.tx = r.d.tx /\ e.ai = r.d.ai
  BY <1>0 DEF CallRec
<1>2. /\ e.want = r.d.want /\ e.chan = r.d.chan /\ e.copy = r.d.copy /\ e.max = r.d.max
      /\ e.incoming = r.d.incoming /\ e.st = r.d.st
  BY <1>0 DEF CallRec
<1>3. [r EXCEPT !.d.drv = x] = With(r, e)
  BY <1>0 DEF With, Contexts
<1> HIDE DEF e
<1>4. DescOK(e)
  <2>1. e.linked = "capi" => e.ai \in Apps
    BY <1>0, <1>1 DEF DescOK
  <2>2. e.drv = x
    BY <1>0 DEF e, CallRec
  <2> QED
    BY <1>0, <1>1, <1>2, <2>1, <2>2 DEF DescOK
<1>6. Sound(With(r, e)) /\ With(r, e).d = e
  BY <1>0, <1>1, <1>4, WithSound
<1> QED
  BY <1>3, <1>6 DEF e

\* The channel is taken for a call that has none, or given back once the FIFO is free.
LEMMA ChanSound ==
  ASSUME NEW r, Sound(r), NEW x \in {"no", "real", "void"}, x = r.d.chan \/ r.d.linked = "no"
  PROVE  Sound(SetChan(r, x)) /\ SetChan(r, x).d = [r.d EXCEPT !.chan = x]
<1>0. r \in Contexts /\ r.d \in CallRec /\ DescOK(r.d) /\ r.d.used
  BY DEF Sound, Contexts
<1> DEFINE e == [r.d EXCEPT !.chan = x]
<1>1. e \in CallRec /\ e.used = r.d.used /\ e.linked = r.d.linked /\ e.tx = r.d.tx /\ e.ai = r.d.ai
  BY <1>0 DEF CallRec
<1>2. /\ e.want = r.d.want /\ e.chan = x /\ e.copy = r.d.copy /\ e.max = r.d.max
      /\ e.incoming = r.d.incoming /\ e.st = r.d.st /\ e.drv = r.d.drv
  BY <1>0 DEF CallRec
<1>3. SetChan(r, x) = With(r, e)
  BY <1>0 DEF With, Contexts, SetChan
<1> HIDE DEF e
<1>4. DescOK(e)
  BY <1>0, <1>1, <1>2 DEF DescOK
<1>6. Sound(With(r, e)) /\ With(r, e).d = e
  BY <1>0, <1>1, <1>4, WithSound
<1> QED
  BY <1>3, <1>6 DEF e

\* The state of a call: only one that an application or isdnd has taken goes on.
LEMMA StateSound ==
  ASSUME NEW r, Sound(r),
         NEW x \in {"idle", "dialing", "acked", "overlap", "offered", "accepted", "active"},
         x \in {"overlap", "offered"} \/ r.d.ai # "all"
  PROVE  /\ Sound([r EXCEPT !.d.st = x]) /\ [r EXCEPT !.d.st = x].d = [r.d EXCEPT !.st = x]
         /\ [r EXCEPT !.d.st = x].v = r.v
<1>0. r \in Contexts /\ r.d \in CallRec /\ DescOK(r.d) /\ r.d.used
  BY DEF Sound, Contexts
<1> DEFINE e == [r.d EXCEPT !.st = x]
<1>1. e \in CallRec /\ e.used = r.d.used /\ e.linked = r.d.linked /\ e.tx = r.d.tx /\ e.ai = r.d.ai
  BY <1>0 DEF CallRec
<1>2. /\ e.want = r.d.want /\ e.chan = r.d.chan /\ e.copy = r.d.copy /\ e.max = r.d.max
      /\ e.incoming = r.d.incoming /\ e.st = x /\ e.drv = r.d.drv
  BY <1>0 DEF CallRec
<1>3. [r EXCEPT !.d.st = x] = With(r, e)
  BY <1>0 DEF With, Contexts
<1> HIDE DEF e
<1>4. DescOK(e)
  BY <1>0, <1>1, <1>2 DEF DescOK
<1>5. With(r, e).v = r.v
  BY <1>0, <1>1, WithFields
<1>6. Sound(With(r, e)) /\ With(r, e).d = e
  BY <1>0, <1>1, <1>4, WithSound
<1> QED
  BY <1>3, <1>5, <1>6 DEF e

\* Hold and retrieve leave what the programs were told alone.
LEMMA HoldSound ==
  ASSUME NEW r, Sound(r), NEW x \in {"no", "held", "back"}
  PROVE  Sound([r EXCEPT !.d.hold = x]) /\ [r EXCEPT !.d.hold = x].d = [r.d EXCEPT !.hold = x]
<1>0. r \in Contexts /\ r.d \in CallRec /\ DescOK(r.d) /\ r.d.used
  BY DEF Sound, Contexts
<1> DEFINE e == [r.d EXCEPT !.hold = x]
<1>1. e \in CallRec /\ e.used = r.d.used /\ e.linked = r.d.linked /\ e.tx = r.d.tx /\ e.ai = r.d.ai
  BY <1>0 DEF CallRec
<1>2. /\ e.want = r.d.want /\ e.chan = r.d.chan /\ e.copy = r.d.copy /\ e.max = r.d.max
      /\ e.incoming = r.d.incoming /\ e.st = r.d.st /\ e.drv = r.d.drv
  BY <1>0 DEF CallRec
<1>3. [r EXCEPT !.d.hold = x] = With(r, e)
  BY <1>0 DEF With, Contexts
<1> HIDE DEF e
<1>4. DescOK(e)
  BY <1>0, <1>1, <1>2 DEF DescOK
<1>6. Sound(With(r, e)) /\ With(r, e).d = e
  BY <1>0, <1>1, <1>4, WithSound
<1> QED
  BY <1>3, <1>6 DEF e

\* So does the number of programs that a call rings at.
LEMMA CountSound ==
  ASSUME NEW r, Sound(r), NEW x \in 0 .. Cardinality(Apps) + 1
  PROVE  Sound([r EXCEPT !.d.count = x]) /\ [r EXCEPT !.d.count = x].d = [r.d EXCEPT !.count = x]
<1>0. r \in Contexts /\ r.d \in CallRec /\ DescOK(r.d) /\ r.d.used
  BY DEF Sound, Contexts
<1> DEFINE e == [r.d EXCEPT !.count = x]
<1>1. e \in CallRec /\ e.used = r.d.used /\ e.linked = r.d.linked /\ e.tx = r.d.tx /\ e.ai = r.d.ai
  BY <1>0 DEF CallRec
<1>2. /\ e.want = r.d.want /\ e.chan = r.d.chan /\ e.copy = r.d.copy /\ e.max = r.d.max
      /\ e.incoming = r.d.incoming /\ e.st = r.d.st /\ e.drv = r.d.drv
  BY <1>0 DEF CallRec
<1>3. [r EXCEPT !.d.count = x] = With(r, e)
  BY <1>0 DEF With, Contexts
<1> HIDE DEF e
<1>4. DescOK(e)
  BY <1>0, <1>1, <1>2 DEF DescOK
<1>6. Sound(With(r, e)) /\ With(r, e).d = e
  BY <1>0, <1>1, <1>4, WithSound
<1> QED
  BY <1>3, <1>6 DEF e

\* The wish for a B-channel; without a FIFO it may be set or not.
LEMMA WantSound ==
  ASSUME NEW r, Sound(r), r.d.linked = "no", NEW x \in {"none", "capi", "tone", "other"}
  PROVE  /\ Sound([r EXCEPT !.d.want = TRUE])
         /\ [r EXCEPT !.d.want = TRUE].d = [r.d EXCEPT !.want = TRUE]
         /\ Sound([r EXCEPT !.d.copy = x, !.d.want = TRUE])
         /\ [r EXCEPT !.d.copy = x, !.d.want = TRUE].d = [r.d EXCEPT !.copy = x, !.want = TRUE]
<1>0. r \in Contexts /\ r.d \in CallRec /\ DescOK(r.d) /\ r.d.used
  BY DEF Sound, Contexts
<1> DEFINE e == [r.d EXCEPT !.want = TRUE]
           f == [r.d EXCEPT !.copy = x, !.want = TRUE]
<1>1. /\ e \in CallRec /\ e.used = r.d.used /\ e.linked = r.d.linked /\ e.tx = r.d.tx
      /\ e.ai = r.d.ai /\ e.max = r.d.max /\ e.incoming = r.d.incoming /\ e.st = r.d.st
      /\ e.drv = r.d.drv
  BY <1>0 DEF CallRec
<1>2. /\ f \in CallRec /\ f.used = r.d.used /\ f.linked = r.d.linked /\ f.tx = r.d.tx
      /\ f.ai = r.d.ai /\ f.max = r.d.max /\ f.incoming = r.d.incoming /\ f.st = r.d.st
      /\ f.drv = r.d.drv
  BY <1>0 DEF CallRec
<1>3. [r EXCEPT !.d.want = TRUE] = With(r, e)
  BY <1>0 DEF With, Contexts
<1>4. [r EXCEPT !.d.copy = x, !.d.want = TRUE] = With(r, f)
  BY <1>0 DEF With, Contexts
<1> HIDE DEF e, f
<1>5. DescOK(e)
  BY <1>0, <1>1 DEF DescOK
<1>6. DescOK(f)
  BY <1>0, <1>2 DEF DescOK
<1>7. Sound(With(r, e)) /\ With(r, e).d = e
  BY <1>0, <1>1, <1>5, WithSound
<1>8. Sound(With(r, f)) /\ With(r, f).d = f
  BY <1>0, <1>2, <1>6, WithSound
<1> QED
  BY <1>3, <1>4, <1>7, <1>8 DEF e, f

\* capi_setup_ft and the layer 1: the owner is told that the B-channel is there, and that
\* it is not if the layer 1 refuses.
LEMMA SetupSound ==
  ASSUME NEW r, Sound(r), r.d.linked = "no", r.d.want, r.d.chan = "real", r.d.copy = "capi",
         r.d.ai \in Apps, blocks \in [Apps -> Blocks \cup {0}], NEW able \in BOOLEAN
  PROVE  Sound(SetupB3(r, able)) /\ SameCall(r.d, SetupB3(r, able).d)
<1>0. r \in Contexts /\ r.d \in CallRec /\ DescOK(r.d) /\ r.d.used /\ r.v \in [Apps -> ViewRec]
  BY DEF Sound, Contexts
<1>1. Hearers(r.d) = {r.d.ai}
  BY <1>0, HearersAre
<1> DEFINE up == Put(r, Hearers(r.d), "b3up")
<1>2. /\ up \in Contexts /\ up.d = r.d
      /\ \A a \in Apps : up.v[a] = IF a = r.d.ai THEN Hear(r.v[a], "b3up") ELSE r.v[a]
  BY <1>0, <1>1, PutFields DEF Messages
<1>3. ASSUME NEW a \in Apps, Trusts(a)
      PROVE  up.v[a].ok /\ (up.v[a].b3 <=> a = r.d.ai) /\ up.v[a].owed = 0
             /\ (up.v[a].known => a = r.d.ai) /\ (a = r.d.ai => up.v[a].known)
  <2>1. r.v[a] \in ViewRec /\ Told(r.d, a, r.v[a])
    BY <1>0, <1>3 DEF Sound
  <2>2. r.v[a].ok /\ ~r.v[a].b3 /\ r.v[a].owed = 0
        /\ (r.v[a].known => a = r.d.ai) /\ (a = r.d.ai => r.v[a].known)
    BY <2>1, OwnerNames DEF Told
  <2>3. CASE a = r.d.ai
    <3>1. up.v[a] = Hear(r.v[a], "b3up")
      BY <1>2, <2>3
    <3>2. up.v[a].ok /\ up.v[a].b3 /\ up.v[a].owed = 0 /\ up.v[a].known
      BY <3>1, <2>1, <2>2, <2>3, HearUp
    <3> QED
      BY <3>2, <2>3
  <2>4. CASE a # r.d.ai
    BY <1>2, <2>2, <2>4
  <2> QED
    BY <2>3, <2>4
<1> HIDE DEF up
<1>4. up.v \in [Apps -> ViewRec]
  BY <1>2 DEF Contexts
<1>5. CASE able
  <2> DEFINE m == blocks[r.d.ai]
             e == [r.d EXCEPT !.linked = "capi", !.max = m]
  <2>1. m \in Blocks \cup {0} /\ Blocks \subseteq Nat
    BY CapiAssumption
  <2>2. SetupB3(r, able) = With(up, e)
    BY <1>2, <1>5 DEF SetupB3, With, up, Contexts
  <2> HIDE DEF m
  <2>3. e \in CallRec /\ SameCall(r.d, e) /\ e.linked = "capi" /\ e.max = m
    BY <1>0, <2>1 DEF CallRec, SameCall
  <2>4. e.copy = r.d.copy /\ e.want = r.d.want /\ e.tx = r.d.tx
    BY <1>0 DEF CallRec
  <2> HIDE DEF e
  <2>5. DescOK(e)
    BY <1>0, <2>1, <2>3, <2>4 DEF DescOK, SameCall
  <2>6. With(up, e) \in Contexts /\ With(up, e).d = e /\ With(up, e).v = up.v
    BY <1>2, <2>3, WithFields
  <2>7. e.tx = 0
    BY <1>0, <2>4 DEF DescOK
  <2>8. \A a \in Apps : Trusts(a) => Told(e, a, up.v[a])
    BY <1>3, <2>3, <2>7 DEF Told, SameCall
  <2>9. Sound(With(up, e))
    BY <2>3, <2>5, <2>6, <2>8, <1>0 DEF Sound, SameCall
  <2> QED
    BY <2>2, <2>3, <2>6, <2>9
<1>6. CASE ~able
  <2> DEFINE w == Put(up, Hearers(r.d), "b3down")
  <2>1. SetupB3(r, able) = w
    BY <1>6 DEF SetupB3, up
  <2>2. /\ w \in Contexts /\ w.d = r.d
        /\ \A a \in Apps : w.v[a] = IF a = r.d.ai THEN Hear(up.v[a], "b3down") ELSE up.v[a]
    BY <1>1, <1>2, PutFields DEF Messages
  <2> HIDE DEF w
  <2>3. ASSUME NEW a \in Apps, Trusts(a) PROVE Told(r.d, a, w.v[a])
    <3>1. CASE a = r.d.ai
      <4>1. up.v[a] \in ViewRec /\ up.v[a].ok /\ up.v[a].b3 /\ up.v[a].known
        BY <1>3, <1>4, <2>3, <3>1
      <4>2. w.v[a] = Hear(up.v[a], "b3down")
        BY <2>2, <3>1
      <4>3. w.v[a].ok /\ ~w.v[a].b3 /\ w.v[a].owed = 0 /\ w.v[a].known
        BY <4>1, <4>2, HearDown
      <4> QED
        BY <4>3, <3>1 DEF Told
    <3>2. CASE a # r.d.ai
      BY <3>2, <1>3, <2>2, <2>3 DEF Told
    <3> QED
      BY <3>1, <3>2
  <2>4. Sound(w)
    BY <2>2, <2>3, <1>0 DEF Sound
  <2>5. SameCall(r.d, r.d)
    BY DEF SameCall
  <2> QED
    BY <2>1, <2>2, <2>4, <2>5
<1> QED
  BY <1>5, <1>6

\* i4b_link_bchandrvr(cd,1)
LEMMA LinkSound ==
  ASSUME NEW r, Sound(r), blocks \in [Apps -> Blocks \cup {0}], NEW able \in BOOLEAN
  PROVE  Sound(LinkB3(r, able)) /\ SameCall(r.d, LinkB3(r, able).d)
<1>0. r \in Contexts /\ r.d \in CallRec /\ DescOK(r.d) /\ r.d.used
  BY DEF Sound, Contexts
<1> DEFINE u == UnlinkB3(r)
           w == [u EXCEPT !.d.copy = r.d.drv, !.d.want = TRUE]
<1>1. Sound(u) /\ SameCall(r.d, u.d) /\ u.d.linked = "no"
  BY UnlinkSound
<1>2. PICK x \in {"none", "capi", "tone", "other"} : x = r.d.drv
  BY <1>0 DEF CallRec
<1> HIDE DEF u
<1>3. w = [u EXCEPT !.d.copy = x, !.d.want = TRUE]
  BY <1>2
<1> HIDE DEF w
<1>4. Sound(w) /\ w.d = [u.d EXCEPT !.copy = x, !.want = TRUE]
  BY <1>1, <1>3, WantSound
<1>5. u.d \in CallRec
  BY <1>1 DEF Sound, Contexts
<1>6. SameCall(u.d, w.d) /\ w.d.linked = u.d.linked /\ w.d.want /\ w.d.copy = x
  BY <1>4, <1>5 DEF CallRec, SameCall
<1>7. SameCall(r.d, w.d) /\ w.d.linked = "no"
  BY <1>1, <1>6 DEF SameCall
<1>8. w \in Contexts /\ w.d \in CallRec /\ DescOK(w.d) /\ w.d.used
  BY <1>4 DEF Sound, Contexts
<1>9. CASE r.d.chan # "real" \/ r.d.drv = "none"
  <2>1. LinkB3(r, able) = w
    BY <1>9 DEF LinkB3, w, u
  <2> QED
    BY <2>1, <1>4, <1>7
<1>10. CASE r.d.chan = "real" /\ r.d.drv = "capi"
  <2>1. LinkB3(r, able) = SetupB3(w, able)
    BY <1>10 DEF LinkB3, w, u
  <2>2. w.d.chan = "real" /\ w.d.copy = "capi" /\ w.d.drv = "capi"
    BY <1>2, <1>6, <1>7, <1>10 DEF SameCall
  <2>3. w.d.ai \in Apps
    BY <2>2, <1>8 DEF DescOK
  <2>4. Sound(SetupB3(w, able)) /\ SameCall(w.d, SetupB3(w, able).d)
    BY <1>4, <1>6, <1>7, <2>2, <2>3, SetupSound
  <2>5. SameCall(r.d, SetupB3(w, able).d)
    BY <2>4, <1>7 DEF SameCall
  <2> QED
    BY <2>1, <2>4, <2>5
<1>11. CASE r.d.chan = "real" /\ r.d.drv \in {"tone", "other"}
  <2>1. CASE able
    <3> DEFINE e == [w.d EXCEPT !.linked = x]
    <3>1. LinkB3(r, able) = With(w, e)
      BY <1>2, <1>8, <1>11, <2>1 DEF LinkB3, w, u, With, Contexts
    <3>2. e \in CallRec /\ SameCall(w.d, e) /\ e.linked = x /\ e.copy = w.d.copy /\ e.want = w.d.want
          /\ e.max = w.d.max /\ e.tx = w.d.tx
      BY <1>2, <1>8, <1>11 DEF CallRec, SameCall
    <3> HIDE DEF e
    <3>3. x \notin {"capi", "none"} /\ e.chan = "real"
      BY <1>2, <1>7, <1>11, <3>2 DEF SameCall
    <3>4. DescOK(e)
      BY <3>2, <3>3, <1>6, <1>7, <1>8 DEF DescOK, SameCall
    <3>5. e.used /\ e.ai = w.d.ai /\ ((e.linked = "capi") <=> (w.d.linked = "capi"))
      BY <3>2, <3>3, <1>7, <1>8 DEF SameCall
    <3>6. Sound(With(w, e)) /\ With(w, e).d = e
      <4>1. e \in CallRec /\ e.tx = w.d.tx
        BY <3>2
      <4> QED
        BY <1>4, <4>1, <3>4, <3>5, WithSound
    <3>7. SameCall(r.d, e)
      BY <3>2, <1>7 DEF SameCall
    <3> QED
      BY <3>1, <3>6, <3>7
  <2>2. CASE ~able
    <3>1. LinkB3(r, able) = w
      BY <1>11, <2>2 DEF LinkB3, w, u
    <3> QED
      BY <3>1, <1>4, <1>7
  <2> QED
    BY <2>1, <2>2
<1> QED
  BY <1>2, <1>9, <1>10, <1>11

-----------------------------------------------------------------------------
(* Owners *)

\* capi_disconnect_broadcast: one of those who were offered the call has it, and the
\* others know that they have not.
LEMMA TakeSound ==
  ASSUME NEW r, Sound(r), NEW a \in Apps, r.d.ai \in {"all", a}
  PROVE  Sound(TakeCall(r, a)) /\ TakeCall(r, a).d = [r.d EXCEPT !.ai = a]
<1>0. r \in Contexts /\ r.d \in CallRec /\ DescOK(r.d) /\ r.d.used /\ r.v \in [Apps -> ViewRec]
  BY DEF Sound, Contexts
<1>1. CASE r.d.ai = a
  <2>1. TakeCall(r, a) = r
    BY <1>1, OwnerNames DEF TakeCall
  <2>2. [r.d EXCEPT !.ai = a] = r.d
    BY <1>0, <1>1 DEF CallRec
  <2> QED
    BY <2>1, <2>2
<1>2. CASE r.d.ai = "all"
  <2> DEFINE e == [r.d EXCEPT !.ai = a]
             o == Put(With(r, e), Apps \ {a}, "end")
             t == Put(o, {a}, "connect")
  <2>1. TakeCall(r, a) = t
    BY <1>0, <1>2 DEF TakeCall, With, Contexts
  <2>2. e \in CallRec /\ e.used = r.d.used /\ e.ai = a /\ e.linked = r.d.linked /\ e.tx = r.d.tx
    BY <1>0 DEF CallRec
  <2>3. /\ e.want = r.d.want /\ e.chan = r.d.chan /\ e.copy = r.d.copy /\ e.max = r.d.max
        /\ e.incoming = r.d.incoming /\ e.st = r.d.st /\ e.drv = r.d.drv
    BY <1>0 DEF CallRec
  <2> HIDE DEF e
  <2>4. With(r, e) \in Contexts /\ With(r, e).d = e /\ With(r, e).v = r.v
    BY <1>0, <2>2, WithFields
  <2>5. /\ o \in Contexts /\ o.d = e
        /\ \A b \in Apps : o.v[b] = IF b # a THEN Hear(r.v[b], "end") ELSE r.v[b]
    <3>1. PICK S \in SUBSET Apps : S = Apps \ {a}
      OBVIOUS
    <3>2. PICK q \in Contexts : q = With(r, e)
      BY <2>4
    <3>3. /\ Put(q, S, "end") \in Contexts /\ Put(q, S, "end").d = q.d
          /\ \A b \in Apps : Put(q, S, "end").v[b] = IF b \in S THEN Hear(q.v[b], "end") ELSE q.v[b]
      BY PutFields DEF Messages
    <3> QED
      BY <3>1, <3>2, <3>3, <2>4
  <2> HIDE DEF o
  <2>6. /\ t \in Contexts /\ t.d = e
        /\ \A b \in Apps : t.v[b] = IF b = a THEN Hear(o.v[b], "connect") ELSE o.v[b]
    BY <2>5, PutFields DEF Messages
  <2> HIDE DEF t
  <2>7. DescOK(e)
    BY <1>0, <2>2, <2>3, OwnerNames DEF DescOK
  <2>8. r.d.linked # "capi" /\ r.d.tx = 0
    BY <1>0, <1>2, OwnerNames DEF DescOK
  <2>9. ASSUME NEW b \in Apps, Trusts(b) PROVE Told(e, b, t.v[b])
    <3>1. r.v[b] \in ViewRec /\ Told(r.d, b, r.v[b])
      BY <1>0, <2>9 DEF Sound
    <3>2. r.v[b].ok /\ ~r.v[b].b3 /\ r.v[b].owed = 0
      BY <3>1, <2>8 DEF Told
    <3>3. t.v[b] = IF b = a THEN Hear(r.v[b], "connect") ELSE Hear(r.v[b], "end")
      BY <2>5, <2>6
    <3>4. t.v[b].ok /\ ~t.v[b].b3 /\ t.v[b].owed = 0 /\ (t.v[b].known <=> b = a)
      <4>1. CASE b = a
        <5>1. t.v[b] = Hear(r.v[b], "connect")
          BY <3>3, <4>1
        <5>2. t.v[b].ok = r.v[b].ok /\ t.v[b].b3 = r.v[b].b3 /\ t.v[b].owed = r.v[b].owed
              /\ t.v[b].known
          BY <5>1, <3>1, HearConnect
        <5> QED
          BY <5>2, <3>2, <4>1
      <4>2. CASE b # a
        <5>1. t.v[b] = Hear(r.v[b], "end")
          BY <3>3, <4>2
        <5>2. t.v[b].ok /\ ~t.v[b].b3 /\ t.v[b].owed = r.v[b].owed /\ ~t.v[b].known
          BY <5>1, <3>1, <3>2, HearEnd
        <5> QED
          BY <5>2, <3>2, <4>2
      <4> QED
        BY <4>1, <4>2
    <3> QED
      BY <3>4, <2>2, <2>8 DEF Told
  <2> QED
    BY <2>1, <2>2, <2>6, <2>7, <2>9, <1>0 DEF Sound, e
<1> QED
  BY <1>1, <1>2

\* n_free_cd: nobody knows of the call any more.
LEMMA FreeOver ==
  ASSUME NEW r, Sound(r)
  PROVE  Over(FreeCall(r)) /\ FreeCall(r).d = NoCall
<1>0. r \in Contexts /\ r.d \in CallRec
  BY DEF Sound, Contexts
<1> DEFINE u == UnlinkB3(r)
           S == Hearers(r.d)
           e == Put(u, S, "end")
<1>1. Sound(u) /\ SameCall(r.d, u.d) /\ u.d.linked = "no"
  BY UnlinkSound
<1>2. S \in SUBSET Apps
  BY <1>0, HearersAre
<1>3. FreeCall(r) = With(e, NoCall)
  BY DEF FreeCall, With
<1> HIDE DEF u
<1>4. u \in Contexts /\ u.v \in [Apps -> ViewRec] /\ DescOK(u.d)
  BY <1>1 DEF Sound, Contexts
<1> HIDE DEF S
<1>5. e \in Contexts /\ \A a \in Apps : e.v[a] = IF a \in S THEN Hear(u.v[a], "end") ELSE u.v[a]
  BY <1>2, <1>4, PutFields DEF Messages
<1> HIDE DEF e
<1>6. NoCall \in CallRec
  BY FS_CardinalityType, CapiAssumption DEF NoCall, CallRec
<1>7. With(e, NoCall) \in Contexts /\ With(e, NoCall).d = NoCall /\ With(e, NoCall).v = e.v
  BY <1>5, <1>6, WithFields
<1>8. ASSUME NEW a \in Apps, Trusts(a) PROVE Blank(e.v[a])
  <2>1. u.v[a] \in ViewRec /\ Told(u.d, a, u.v[a])
    BY <1>1, <1>4, <1>8 DEF Sound
  <2>2. u.v[a].ok /\ ~u.v[a].b3 /\ u.v[a].owed = 0 /\ (u.v[a].known => r.d.ai \in {"all", a})
    BY <2>1, <1>1 DEF Told, SameCall
  <2>3. CASE a \in S
    <3>1. e.v[a] = Hear(u.v[a], "end")
      BY <1>5, <2>3
    <3>2. e.v[a].ok /\ ~e.v[a].b3 /\ e.v[a].owed = u.v[a].owed /\ ~e.v[a].known
      BY <3>1, <2>1, <2>2, HearEnd
    <3> QED
      BY <3>2, <2>2 DEF Blank
  <2>4. CASE a \notin S
    <3>1. r.d.ai \notin {"all", a}
      BY <2>4 DEF S, Hearers
    <3> QED
      BY <3>1, <1>5, <2>2, <2>4 DEF Blank
  <2> QED
    BY <2>3, <2>4
<1> QED
  BY <1>3, <1>7, <1>8 DEF Over

\* i4b_l4_connect_active_ind
LEMMA ActivateSound ==
  ASSUME NEW r, Sound(r), r.d.ai # "all"
  PROVE  Sound(Activate(r)) /\ Activate(r).d = [r.d EXCEPT !.st = "active"]
<1> DEFINE s == [r EXCEPT !.d.st = "active"]
           S == Hearers(r.d)
           t == Put(s, S, "active")
<1>1. Sound(s) /\ s.d = [r.d EXCEPT !.st = "active"] /\ s.v = r.v
  BY StateSound
<1>2. Activate(r) = t
  BY DEF Activate
<1>3. r.d \in CallRec
  BY DEF Sound, Contexts
<1>4. S \in SUBSET Apps /\ \A a \in S : a = r.d.ai
  BY <1>3, HearersAre, OwnerNames DEF CallRec
<1> HIDE DEF s, S
<1>5. s \in Contexts /\ s.v \in [Apps -> ViewRec]
  BY <1>1 DEF Sound, Contexts
<1>6. /\ t \in Contexts /\ t.d = s.d
      /\ \A a \in Apps : t.v[a] = IF a \in S THEN Hear(s.v[a], "active") ELSE s.v[a]
  BY <1>4, <1>5, PutFields DEF Messages
<1> HIDE DEF t
<1>7. s.d.ai = r.d.ai
  BY <1>1, <1>3 DEF CallRec
<1>8. ASSUME NEW a \in Apps, Trusts(a) PROVE Told(s.d, a, t.v[a])
  <2>1. s.v[a] \in ViewRec /\ Told(s.d, a, s.v[a])
    BY <1>1, <1>5, <1>8 DEF Sound
  <2>2. CASE a \in S
    <3>1. t.v[a] = Hear(s.v[a], "active") /\ a = s.d.ai
      BY <1>4, <1>6, <1>7, <2>2
    <3>2. s.v[a].known /\ s.v[a].ok
      BY <2>1, <3>1 DEF Told
    <3>3. /\ t.v[a].ok /\ t.v[a].b3 = s.v[a].b3 /\ t.v[a].owed = s.v[a].owed
          /\ t.v[a].known
      BY <3>1, <3>2, <2>1, HearActive
    <3> QED
      BY <3>2, <3>3, <2>1 DEF Told
  <2>3. CASE a \notin S
    BY <2>1, <2>3, <1>6
  <2> QED
    BY <2>2, <2>3
<1>9. Sound(t)
  BY <1>1, <1>6, <1>8 DEF Sound
<1> QED
  BY <1>1, <1>2, <1>6, <1>9

-----------------------------------------------------------------------------
(* The end of a handler *)

\* A descriptor that is free
LEMMA NoCallType ==
  /\ NoCall \in CallRec /\ NoCall.ai = "all" /\ NoCall.chan = "no" /\ ~NoCall.used
  /\ Cardinality(Apps) \in Nat
BY FS_CardinalityType, CapiAssumption DEF NoCall, CallRec

\* The beginning of a handler
LEMMA AtSound ==
  ASSUME CapiInv, NEW c \in Calls
  PROVE  /\ At(c) \in Contexts /\ At(c).d = call[c] /\ call[c] \in CallRec
         /\ call[c].used => Sound(At(c))
         /\ ~call[c].used => Over(At(c))
<1>1. call \in [Calls -> CallRec] /\ (CallSound(c) \/ CallOver(c))
  BY DEF CapiInv, CallsInv
<1>2. \A a \in Apps : view[a][c] \in ViewRec
  BY DEF CapiInv, ViewsInv, ViewRec
<1>3. At(c).d = call[c] /\ At(c).to = {} /\ At(c).v = [a \in Apps |-> view[a][c]]
  BY DEF At
<1>4. At(c).v \in [Apps -> ViewRec] /\ \A a \in Apps : At(c).v[a] = view[a][c]
  BY <1>2, <1>3
<1>5. At(c) \in Contexts
  BY <1>1, <1>3, <1>4 DEF At, Contexts
<1>6. call[c].used => Sound(At(c))
  BY <1>1, <1>3, <1>4, <1>5, NoCallType DEF Sound, CallSound, CallOver
<1>7. ~call[c].used => Over(At(c))
  BY <1>1, <1>3, <1>4, <1>5 DEF Over, CallSound, CallOver
<1> QED
  BY <1>1, <1>3, <1>5, <1>6, <1>7

\* What a handler may leave: a call that is sound or over, with an owner that exists and
\* a channel that it had or that was spare
Fine(c, r) ==
  /\ Sound(r) \/ Over(r)
  /\ r.d.ai \in Apps => app[r.d.ai] # "gone"
  /\ r.d.chan = "real" => call[c].chan = "real" \/ Spare > 0

\* A call that is over is always fine.
LEMMA OverFine ==
  ASSUME NEW c, NEW r, Over(r)
  PROVE  Fine(c, r)
BY NoCallType, OwnerNames DEF Over, Fine

\* The number of spare channels
LEMMA SpareType ==
  /\ Spare \in Int
  /\ IsFiniteSet({c \in Calls : call[c].chan = "real"})
<1>1. IsFiniteSet({c \in Calls : call[c].chan = "real"})
  BY FS_Subset, CapiAssumption
<1> QED
  BY <1>1, FS_CardinalityType, CapiAssumption DEF Spare

\* A channel that is taken was spare.
LEMMA SpareKept ==
  ASSUME CapiInv, NEW c \in Calls, NEW d \in CallRec, call' = [call EXCEPT ![c] = d],
         d.chan = "real" => call[c].chan = "real" \/ Spare > 0
  PROVE  (Spare >= 0)'
<1> DEFINE R == {x \in Calls : call[x].chan = "real"}
           Q == {x \in Calls : call'[x].chan = "real"}
<1>1. IsFiniteSet(R) /\ Cardinality(R) \in Nat /\ Spare = Channels - Cardinality(R)
      /\ Spare >= 0 /\ Channels \in Nat
  BY SpareType, FS_CardinalityType, CapiAssumption DEF CapiInv, Spare
<1>2. Spare' = Channels - Cardinality(Q)
  BY DEF Spare
<1>3. call \in [Calls -> CallRec]
  BY DEF CapiInv, CallsInv
<1>4. \A x \in Calls : call'[x] = IF x = c THEN d ELSE call[x]
  BY <1>3
<1>5. Q \subseteq R \cup {c}
  BY <1>4
<1>6. CASE d.chan # "real" \/ call[c].chan = "real"
  <2>1. Q \subseteq R
    BY <1>4, <1>6
  <2>2. Cardinality(Q) <= Cardinality(R) /\ IsFiniteSet(Q)
    BY <2>1, <1>1, FS_Subset
  <2>3. Cardinality(Q) \in Nat
    BY <2>2, FS_CardinalityType
  <2> HIDE DEF Q, R
  <2> QED
    BY <2>2, <2>3, <1>1, <1>2
<1>7. CASE d.chan = "real" /\ call[c].chan # "real"
  <2>1. IsFiniteSet(R \cup {c}) /\ c \notin R
    BY <1>1, <1>7, FS_AddElement
  <2>2. Cardinality(R \cup {c}) = Cardinality(R) + 1
    BY <2>1, <1>1, FS_AddElement
  <2>3. Cardinality(Q) <= Cardinality(R \cup {c}) /\ IsFiniteSet(Q)
    BY <2>1, <1>5, FS_Subset
  <2>4. Cardinality(Q) \in Nat
    BY <2>3, FS_CardinalityType
  <2> HIDE DEF Q, R
  <2> QED
    BY <2>2, <2>3, <2>4, <1>1, <1>2, <1>7
<1> QED
  BY <1>6, <1>7

\* Becomes: what a handler leaves is what the applications were told, if they lose no
\* message.
LEMMA Commit ==
  ASSUME CapiInv, NEW c \in Calls, NEW r, Fine(c, r), Becomes(c, r), Keep,
         writing' \in [Apps -> BOOLEAN], \A a \in Apps : writing'[a] => app[a] # "gone"
  PROVE  CapiInv'
<1>1. DeviceInv /\ ViewsInv /\ CallsInv
  BY DEF CapiInv
<1>2. r \in Contexts /\ r.d \in CallRec /\ r.v \in [Apps -> ViewRec] /\ r.to \in SUBSET Apps
  BY DEF Fine, Sound, Over, Contexts
<1>3. app' = app /\ listens' = listens /\ blocks' = blocks
  BY DEF Keep
<1>4. call' = [call EXCEPT ![c] = r.d]
  BY DEF Becomes
<1>5. PICK L \in SUBSET Apps :
        /\ \A a \in L : app[a] = "open"
        /\ lost' = lost \cup L
        /\ view' = [a \in Apps |->
              [view[a] EXCEPT ![c] = IF a \in lost' \/ app[a] # "open" THEN Untold ELSE r.v[a]]]
  BY <1>2 DEF Becomes, Tell
<1>6. \A a \in Apps, x \in Calls :
        view'[a][x] = IF x # c THEN view[a][x]
                      ELSE IF a \in lost' \/ app[a] # "open" THEN Untold ELSE r.v[a]
  BY <1>1, <1>5 DEF ViewsInv
<1>7. \A a \in Apps : Trusts(a)' => Trusts(a)
  BY <1>3, <1>5 DEF Trusts
<1>8. \A a \in Apps : Trusts(a)' => view'[a][c] = r.v[a]
  BY <1>3, <1>6 DEF Trusts
<1>9. DeviceInv'
  <2>1. /\ app' \in [Apps -> {"open", "closing", "gone"}]
        /\ writing' \in [Apps -> BOOLEAN] /\ listens' \in [Apps -> BOOLEAN]
        /\ blocks' \in [Apps -> Blocks \cup {0}] /\ lost' \subseteq Apps
    BY <1>1, <1>3, <1>5 DEF DeviceInv
  <2>2. ASSUME NEW a \in Apps, app'[a] # "open"
        PROVE  a \notin lost' /\ \A x \in Calls : view'[a][x] = Untold
    <3>1. app[a] # "open" /\ a \notin lost /\ \A x \in Calls : view[a][x] = Untold
      BY <2>2, <1>1, <1>3 DEF DeviceInv
    <3>2. a \notin lost'
      BY <3>1, <1>5
    <3> QED
      BY <3>1, <3>2, <1>6
  <2> QED
    BY <2>1, <2>2, <1>3 DEF DeviceInv
<1>10. ViewsInv'
  <2> DEFINE V == [known : BOOLEAN, b3 : BOOLEAN, owed : Nat, ok : BOOLEAN]
  <2>1. Untold \in V
    BY DEF Untold
  <2>2. ASSUME NEW a \in Apps, Trusts(a) PROVE r.v[a] \in V
    <3>1. r.v[a] \in ViewRec
      BY <1>2
    <3>2. r.v[a].owed \in Nat
      <4>1. CASE Sound(r)
        <5>1. Told(r.d, a, r.v[a]) /\ r.d.tx \in Nat
          BY <4>1, <2>2, <1>2 DEF Sound, CallRec
        <5> QED
          BY <5>1 DEF Told
      <4>2. CASE Over(r)
        BY <4>2, <2>2 DEF Over, Blank
      <4> QED
        BY <4>1, <4>2 DEF Fine
    <3> QED
      BY <3>1, <3>2 DEF ViewRec
  <2> HIDE DEF V
  <2>3. view \in [Apps -> [Calls -> V]]
    BY <1>1 DEF ViewsInv, V
  <2>4. ASSUME NEW a \in Apps
        PROVE  (IF a \in lost' \/ app[a] # "open" THEN Untold ELSE r.v[a]) \in V
    <3>1. CASE a \in lost' \/ app[a] # "open"
      BY <3>1, <2>1
    <3>2. CASE ~(a \in lost' \/ app[a] # "open")
      <4>1. Trusts(a)
        BY <3>2, <1>5 DEF Trusts
      <4> QED
        BY <4>1, <3>2, <2>2
    <3> QED
      BY <3>1, <3>2
  <2>5. view' \in [Apps -> [Calls -> V]]
    BY <2>3, <2>4, <1>5
  <2> QED
    BY <2>5 DEF ViewsInv, V
<1>11. CallsInv'
  <2>1. call' \in [Calls -> CallRec]
    BY <1>1, <1>2, <1>4 DEF CallsInv
  <2>2. call'[c] = r.d /\ \A x \in Calls : x # c => call'[x] = call[x]
    BY <1>1, <1>4 DEF CallsInv
  <2>3. ASSUME NEW x \in Calls, x # c PROVE CallSound(x)' \/ CallOver(x)'
    <3>1. CallSound(x) \/ CallOver(x)
      BY <1>1 DEF CallsInv
    <3>2. call'[x] = call[x] /\ \A a \in Apps : view'[a][x] = view[a][x]
      BY <2>2, <2>3, <1>6
    <3>3. CASE CallSound(x)
      BY <3>2, <3>3, <1>7 DEF CallSound
    <3>4. CASE CallOver(x)
      BY <3>2, <3>4, <1>7 DEF CallOver
    <3> QED
      BY <3>1, <3>3, <3>4
  <2>4. CallSound(c)' \/ CallOver(c)'
    <3>1. CASE Sound(r)
      BY <3>1, <2>2, <1>7, <1>8 DEF Sound, CallSound
    <3>2. CASE Over(r)
      BY <3>2, <2>2, <1>7, <1>8 DEF Over, CallOver
    <3> QED
      BY <3>1, <3>2 DEF Fine
  <2>5. \A x \in Calls : call'[x].ai \in Apps => app'[call'[x].ai] # "gone"
    BY <1>1, <1>3, <2>2 DEF CallsInv, Fine
  <2> QED
    BY <2>1, <2>3, <2>4, <2>5 DEF CallsInv
<1>12. (Spare >= 0)'
  BY <1>2, <1>4, SpareKept DEF Fine
<1> QED
  BY <1>9, <1>10, <1>11, <1>12 DEF CapiInv

\* A handler that a program runs may store a result that is fine for its call.
LEMMA CommitHandle ==
  ASSUME CapiInv, NEW a \in Apps, NEW c \in Calls, NEW r, Fine(c, r), Handle(a, c, r)
  PROVE  CapiInv'
<1>1. writing \in [Apps -> BOOLEAN] /\ \A b \in Apps : writing[b] => app[b] # "gone"
  BY DEF CapiInv, DeviceInv
<1>2. writing' = [writing EXCEPT ![a] = FALSE] /\ Becomes(c, r) /\ Keep
  BY DEF Handle
<1>3. writing' \in [Apps -> BOOLEAN] /\ \A b \in Apps : writing'[b] => writing[b]
  BY <1>1, <1>2
<1> QED
  BY <1>1, <1>2, <1>3, Commit

\* So may an event of the network.
LEMMA CommitNet ==
  ASSUME CapiInv, NEW c \in Calls, NEW r, Fine(c, r), Net(c, r)
  PROVE  CapiInv'
<1>1. writing \in [Apps -> BOOLEAN] /\ \A b \in Apps : writing[b] => app[b] # "gone"
  BY DEF CapiInv, DeviceInv
<1>2. writing' = writing /\ Becomes(c, r) /\ Keep
  BY DEF Net
<1> QED
  BY <1>1, <1>2, Commit

\* Handlers that leave the owner and the channel as they are, or take the call
LEMMA KeptFine ==
  ASSUME CapiInv, NEW c \in Calls, NEW r, Sound(r), r.d.chan \in {"no", call[c].chan},
         r.d.ai = call[c].ai \/ (r.d.ai \in Apps => app[r.d.ai] # "gone")
  PROVE  Fine(c, r)
BY DEF Fine, CapiInv, CallsInv

\* An application that is writing has not been closed.
LEMMA WriterThere ==
  ASSUME CapiInv, NEW a \in Apps, writing[a]
  PROVE  app[a] # "gone"
BY DEF CapiInv, DeviceInv

\* cd_allocate_channel
LEMMA AllocatedIs ==
  ASSUME NEW d \in CallRec, NEW ch \in Allocated(d) \cup {AllocatedAny(d)}
  PROVE  /\ ch \in {"no", "real", "void"} /\ (ch = d.chan \/ d.chan = "no")
         /\ ch = "real" => d.chan = "real" \/ Spare > 0
<1>1. d.chan \in {"no", "real", "void"} /\ Spare \in Int
  BY SpareType DEF CallRec
<1>2. CASE ch \in Allocated(d)
  <2>1. CASE d.chan # "no"
    BY <1>1, <1>2, <2>1 DEF Allocated
  <2>2. CASE d.chan = "no" /\ ch \in {"no", "void"}
    BY <2>2
  <2>3. CASE d.chan = "no" /\ ch \notin {"no", "void"}
    <3>1. PICK x \in 1 .. Spare : ch = "real"
      BY <1>2, <2>3 DEF Allocated
    <3> QED
      BY <1>1, <2>3, <3>1
  <2> QED
    BY <2>1, <2>2, <2>3
<1>3. CASE ch = AllocatedAny(d)
  BY <1>1, <1>3 DEF AllocatedAny
<1> QED
  BY <1>2, <1>3

\* The call is offered to some of those who may act on it.
LEMMA ConnectSound ==
  ASSUME NEW r, Sound(r), NEW S \in SUBSET Apps, \A b \in S : r.d.ai \in {"all", b}
  PROVE  Sound(Put(r, S, "connect")) /\ Put(r, S, "connect").d = r.d
<1>1. r \in Contexts /\ r.v \in [Apps -> ViewRec] /\ r.d.used /\ DescOK(r.d)
  BY DEF Sound, Contexts
<1> DEFINE k == Put(r, S, "connect")
<1>2. /\ k \in Contexts /\ k.d = r.d
      /\ \A a \in Apps : k.v[a] = IF a \in S THEN Hear(r.v[a], "connect") ELSE r.v[a]
  BY <1>1, PutFields DEF Messages
<1> HIDE DEF k
<1>3. ASSUME NEW a \in Apps, Trusts(a) PROVE Told(r.d, a, k.v[a])
  <2>1. r.v[a] \in ViewRec /\ Told(r.d, a, r.v[a])
    BY <1>1, <1>3 DEF Sound
  <2>2. CASE a \in S
    <3>1. k.v[a] = Hear(r.v[a], "connect")
      BY <1>2, <2>2
    <3>2. /\ k.v[a].ok = r.v[a].ok /\ k.v[a].b3 = r.v[a].b3 /\ k.v[a].owed = r.v[a].owed
          /\ k.v[a].known
      BY <3>1, <2>1, HearConnect
    <3> QED
      BY <3>2, <2>1, <2>2 DEF Told
  <2>3. CASE a \notin S
    BY <2>1, <2>3, <1>2
  <2> QED
    BY <2>2, <2>3
<1>4. Sound(k)
  BY <1>1, <1>2, <1>3 DEF Sound
<1> QED
  BY <1>2, <1>4 DEF k

-----------------------------------------------------------------------------
(* capi_write *)

\* CONNECT, from the confirmation on
LEMMA DialKeeps ==
  ASSUME CapiInv, NEW a \in Apps, NEW c \in Calls, NEW r, r.d \in CallRec,
         Sound(Put(r, {a}, "connect")), Put(r, {a}, "connect").d = r.d,
         r.d.ai = a, r.d.chan \in {"no", call[c].chan}, Dial(a, c, r)
  PROVE  CapiInv'
<1> DEFINE k == Put(r, {a}, "connect")
           w == [k EXCEPT !.d.drv = "capi"]
           x == IF "nt" \in kind THEN AllocatedAny(r.d) ELSE r.d.chan
           n == SetChan(w, x)
           y == IF n.d.st = "idle" THEN "dialing" ELSE n.d.st
           s == [n EXCEPT !.d.st = y]
           s2 == [n EXCEPT !.d.st = IF @ = "idle" THEN "dialing" ELSE @]
<1>0. s2 = s
  OBVIOUS
<1>1. Handle(a, c, IF "nt" \in kind /\ n.d.chan = "no" THEN FreeCall(w) ELSE s2)
  BY DEF Dial
<1> HIDE DEF s2
<1>2. writing[a]
  BY DEF Dial, Handle
<1> HIDE DEF k
<1>3. Sound(k) /\ k.d = r.d
  BY DEF k
<1>4. Sound(w) /\ w.d = [r.d EXCEPT !.drv = "capi"]
  BY <1>3, DrvSound
<1> HIDE DEF w
<1>5. w.d.chan = r.d.chan /\ w.d.ai = a /\ w.d.st = r.d.st /\ w.d.linked = r.d.linked /\ DescOK(w.d)
  BY <1>4 DEF CallRec, Sound
<1>6. /\ x \in {"no", "real", "void"} /\ (x = r.d.chan \/ r.d.chan = "no")
      /\ x = "real" => r.d.chan = "real" \/ Spare > 0
  BY AllocatedIs DEF CallRec
<1> HIDE DEF x
<1>7. x = w.d.chan \/ w.d.linked = "no"
  BY <1>5, <1>6 DEF DescOK
<1>8. Sound(n) /\ n.d = [w.d EXCEPT !.chan = x]
  BY <1>4, <1>6, <1>7, ChanSound
<1> HIDE DEF n
<1>9. w.d \in CallRec /\ n.d \in CallRec
  BY <1>4, <1>8 DEF Sound, Contexts
<1>10. n.d.chan = x /\ n.d.ai = a
  BY <1>5, <1>8, <1>9 DEF CallRec
<1>11. y \in {"idle", "dialing", "acked", "overlap", "offered", "accepted", "active"}
  BY <1>9 DEF CallRec
<1> HIDE DEF y
<1>12. Sound(s) /\ s.d = [n.d EXCEPT !.st = y]
  BY <1>8, <1>10, <1>11, StateSound, OwnerNames
<1> HIDE DEF s
<1>13. s.d.chan = x /\ s.d.ai = a
  BY <1>9, <1>10, <1>12 DEF CallRec
<1>14. app[a] # "gone"
  BY <1>2, WriterThere
<1>15. Fine(c, s)
  BY <1>6, <1>12, <1>13, <1>14 DEF Fine
<1>16. Fine(c, FreeCall(w))
  BY <1>4, FreeOver, OverFine
<1>17. CASE "nt" \in kind /\ n.d.chan = "no"
  BY <1>1, <1>16, <1>17, CommitHandle
<1>18. CASE ~("nt" \in kind /\ n.d.chan = "no")
  BY <1>0, <1>1, <1>15, <1>18, CommitHandle
<1> QED
  BY <1>17, <1>18

\* A new call of an application
New(a) == [NoCall EXCEPT !.used = TRUE, !.ai = a]

\* Only the application that makes the call is told.
OnlyTo(k, a, c) == k.to = {a} /\ \A b \in Apps : b # a => k.v[b] = view[b][c]

\* A call that a program asks for is new to all others: the confirmation is the first
\* that anybody hears of it.
LEMMA NewSound ==
  ASSUME CapiInv, NEW a \in Apps, NEW c \in Calls, ~call[c].used,
         NEW r, r = With(At(c), New(a)), NEW k, k = Put(r, {a}, "connect")
  PROVE  /\ r.d = New(a) /\ New(a) \in CallRec /\ New(a).ai = a /\ New(a).chan = "no"
         /\ Sound(k) /\ k.d = New(a) /\ OnlyTo(k, a, c)
<1>1. At(c) \in Contexts /\ Over(At(c))
  BY AtSound
<1>2. PICK d : d = New(a)
  OBVIOUS
<1>3. /\ d \in CallRec /\ d.used /\ d.ai = a /\ ~d.incoming /\ d.chan = "no" /\ d.linked = "no"
      /\ d.tx = 0 /\ d.max = 0 /\ d.drv = "none"
  BY <1>2, NoCallType DEF New, CallRec, NoCall
<1>4. r \in Contexts /\ r.d = d /\ r.v = At(c).v /\ r.to = At(c).to
  BY <1>1, <1>2, <1>3, WithFields
<1>5. r.v \in [Apps -> ViewRec] /\ \A b \in Apps : At(c).v[b] = view[b][c]
  BY <1>4 DEF Contexts, At
<1>6. DescOK(d)
  BY <1>3, OwnerNames DEF DescOK
<1>7. /\ k \in Contexts /\ k.d = d
      /\ \A b \in Apps : k.v[b] = IF b = a THEN Hear(r.v[b], "connect") ELSE r.v[b]
  BY <1>4, PutFields DEF Messages
<1>8. k.to = {a}
  <2>1. k.to = r.to \cup {a} /\ At(c).to = {}
    BY <1>4 DEF Put, At, Contexts
  <2> QED
    BY <1>4, <2>1
<1>9. ASSUME NEW b \in Apps, Trusts(b) PROVE Told(d, b, k.v[b])
  <2>1. r.v[b] \in ViewRec /\ Blank(r.v[b])
    BY <1>1, <1>4, <1>5, <1>9 DEF Over
  <2>2. CASE b = a
    <3>1. k.v[b] = Hear(r.v[b], "connect")
      BY <1>7, <2>2
    <3>2. /\ k.v[b].ok = r.v[b].ok /\ k.v[b].b3 = r.v[b].b3 /\ k.v[b].owed = r.v[b].owed
          /\ k.v[b].known
      BY <2>1, <3>1, HearConnect
    <3> QED
      BY <2>1, <2>2, <3>2, <1>3 DEF Told, Blank
  <2>3. CASE b # a
    BY <2>1, <2>3, <1>3, <1>7 DEF Told, Blank
  <2> QED
    BY <2>2, <2>3
<1>10. Sound(k)
  BY <1>3, <1>6, <1>7, <1>9 DEF Sound
<1>11. OnlyTo(k, a, c)
  BY <1>4, <1>5, <1>7, <1>8 DEF OnlyTo
<1> QED
  BY <1>2, <1>3, <1>4, <1>7, <1>10, <1>11

\* CONNECT_REQ keeps the invariant.
LEMMA ConnectReqKeeps ==
  ASSUME CapiInv, NEW a \in Apps, NEW c \in Calls, ConnectReq(a, c)
  PROVE  CapiInv'
<1>1. At(c) \in Contexts /\ At(c).d = call[c] /\ call[c] \in CallRec
  BY AtSound
<1>2. CASE CanAllocate(c) /\ Dial(a, c, [At(c) EXCEPT !.d = [NoCall EXCEPT !.used = TRUE, !.ai = a]])
  <2>1. PICK r : r = With(At(c), New(a))
    OBVIOUS
  <2>2. Dial(a, c, r) /\ ~call[c].used
    BY <1>2, <2>1 DEF With, New, CanAllocate
  <2>3. PICK k : k = Put(r, {a}, "connect")
    OBVIOUS
  <2>4. /\ r.d = New(a) /\ New(a) \in CallRec /\ New(a).ai = a /\ New(a).chan = "no"
        /\ Sound(k) /\ k.d = New(a)
    BY <2>1, <2>2, <2>3, NewSound
  <2> QED
    BY <2>2, <2>3, <2>4, DialKeeps
<1>3. CASE MayAct(a, c) /\ ~call[c].incoming /\ Dial(a, c, At(c))
  <2>1. Sound(At(c)) /\ DescOK(call[c])
    BY <1>1, <1>3, AtSound DEF MayAct, Sound
  <2>2. call[c].ai = a
    BY <2>1, <1>3, OwnerNames DEF MayAct, DescOK
  <2>3. Sound(Put(At(c), {a}, "connect")) /\ Put(At(c), {a}, "connect").d = At(c).d
    BY <1>1, <2>1, <2>2, ConnectSound
  <2> QED
    BY <1>1, <1>3, <2>2, <2>3, DialKeeps
<1> QED
  BY <1>2, <1>3 DEF ConnectReq

\* A message after which the owner waits for n blocks instead of i
Counts(m, i, n) ==
  \A x \in ViewRec : x.ok /\ x.b3 /\ x.known /\ x.owed = i =>
    Hear(x, m).ok /\ Hear(x, m).b3 /\ Hear(x, m).known /\ Hear(x, m).owed = n

\* The messages about blocks
LEMMA HearSent ==
  ASSUME NEW i \in Nat
  PROVE  Counts("sent", i, i + 1) /\ (i > 0 => Counts("taken", i, i - 1))
<1>1. ASSUME NEW x \in ViewRec, x.ok, x.b3, x.known, x.owed = i
      PROVE  /\ Hear(x, "sent").ok /\ Hear(x, "sent").b3 /\ Hear(x, "sent").known
             /\ Hear(x, "sent").owed = i + 1
  BY <1>1, HearB3
<1>2. ASSUME NEW x \in ViewRec, x.ok, x.b3, x.known, x.owed = i, i > 0
      PROVE  /\ Hear(x, "taken").ok /\ Hear(x, "taken").b3 /\ Hear(x, "taken").known
             /\ Hear(x, "taken").owed = i - 1
  BY <1>2, HearB3
<1> QED
  BY <1>1, <1>2 DEF Counts

\* The blocks of data that an application waits for are those in the queue.
LEMMA BlockSound ==
  ASSUME NEW r, Sound(r), r.d.ai \in Apps, r.d.linked = "capi", NEW n \in Nat, n <= r.d.max,
         NEW m \in Messages, NEW k, k = Put([r EXCEPT !.d.tx = n], {r.d.ai}, m),
         Counts(m, r.d.tx, n)
  PROVE  Sound(k) /\ k.d.ai = r.d.ai /\ k.d.chan = r.d.chan
<1>0. r \in Contexts /\ r.d \in CallRec /\ DescOK(r.d) /\ r.d.used /\ r.v \in [Apps -> ViewRec]
  BY DEF Sound, Contexts
<1> DEFINE e == [r.d EXCEPT !.tx = n]
<1>1. e \in CallRec /\ e.used = r.d.used /\ e.linked = r.d.linked /\ e.tx = n /\ e.ai = r.d.ai
  BY <1>0 DEF CallRec
<1>2. /\ e.want = r.d.want /\ e.chan = r.d.chan /\ e.copy = r.d.copy /\ e.max = r.d.max
      /\ e.incoming = r.d.incoming /\ e.st = r.d.st /\ e.drv = r.d.drv
  BY <1>0 DEF CallRec
<1>3. [r EXCEPT !.d.tx = n] = With(r, e)
  BY <1>0 DEF With, Contexts
<1> HIDE DEF e
<1>4. DescOK(e)
  BY <1>0, <1>1, <1>2 DEF DescOK
<1>5. With(r, e) \in Contexts /\ With(r, e).d = e /\ With(r, e).v = r.v
  BY <1>0, <1>1, WithFields
<1>6. /\ k \in Contexts /\ k.d = e
      /\ \A a \in Apps : k.v[a] = IF a = r.d.ai THEN Hear(r.v[a], m) ELSE r.v[a]
  BY <1>3, <1>5, PutFields
<1>7. ASSUME NEW a \in Apps, Trusts(a) PROVE Told(e, a, k.v[a])
  <2>1. r.v[a] \in ViewRec /\ Told(r.d, a, r.v[a])
    BY <1>0, <1>7 DEF Sound
  <2>2. CASE a = r.d.ai
    <3>1. r.v[a].ok /\ r.v[a].b3 /\ r.v[a].known /\ r.v[a].owed = r.d.tx
      BY <2>1, <2>2 DEF Told
    <3>2. k.v[a] = Hear(r.v[a], m)
      BY <1>6, <2>2
    <3>3. k.v[a].ok /\ k.v[a].b3 /\ k.v[a].known /\ k.v[a].owed = n
      BY <2>1, <3>1, <3>2 DEF Counts
    <3> QED
      BY <3>3, <2>2, <1>1 DEF Told
  <2>3. CASE a # r.d.ai
    BY <2>1, <2>3, <1>1, <1>6 DEF Told
  <2> QED
    BY <2>2, <2>3
<1>8. Sound(k)
  BY <1>0, <1>1, <1>4, <1>6, <1>7 DEF Sound
<1> QED
  BY <1>1, <1>2, <1>6, <1>8

\* The queue of the FIFO
LEMMA QueueType ==
  ASSUME NEW d \in CallRec
  PROVE  d.tx \in Nat /\ d.max \in Nat
<1>1. d.tx \in Nat /\ d.max \in Blocks \cup {0}
  BY DEF CallRec
<1>2. Blocks \cup {0} \subseteq Nat
  BY CapiAssumption
<1> QED
  BY <1>1, <1>2

\* DATA_B3_REQ queues a block only where the program has the B3 connection.
LEMMA DataReqKeeps ==
  ASSUME CapiInv, NEW a \in Apps, NEW c \in Calls, DataReq(a, c)
  PROVE  CapiInv'
<1>1. Sound(At(c)) /\ At(c).d = call[c] /\ call[c] \in CallRec
  BY AtSound DEF DataReq
<1>2. call[c].tx \in Nat /\ call[c].max \in Nat /\ call[c].tx < call[c].max
  BY <1>1, QueueType DEF DataReq
<1>3. PICK n \in Nat : n = call[c].tx + 1 /\ n <= call[c].max
  BY <1>2
<1> DEFINE k == Put([At(c) EXCEPT !.d.tx = n], {a}, "sent")
<1>4. [At(c) EXCEPT !.d.tx = @ + 1] = [At(c) EXCEPT !.d.tx = n]
  BY <1>1, <1>3
<1>5. Handle(a, c, k)
  BY <1>4 DEF DataReq
<1>6. Counts("sent", call[c].tx, n)
  BY <1>2, <1>3, HearSent
<1>7. call[c].ai = a /\ call[c].linked = "capi"
  BY DEF DataReq
<1>8. Sound(k) /\ k.d.ai = call[c].ai /\ k.d.chan = call[c].chan
  <2>1. PICK q : q = At(c)
    OBVIOUS
  <2>2. Sound(q) /\ q.d = call[c] /\ k = Put([q EXCEPT !.d.tx = n], {q.d.ai}, "sent")
    BY <1>1, <1>7, <2>1
  <2> HIDE DEF k
  <2> QED
    <3>1. q.d.ai \in Apps /\ q.d.linked = "capi" /\ n <= q.d.max /\ Counts("sent", q.d.tx, n)
      BY <2>2, <1>3, <1>6, <1>7
    <3>2. "sent" \in Messages
      BY DEF Messages
    <3> QED
      BY <2>2, <3>1, <3>2, BlockSound
<1> HIDE DEF k
<1> QED
  BY <1>5, <1>8, KeptFine, CommitHandle

\* The driver takes a block that was queued.
LEMMA TakeBlockKeeps ==
  ASSUME CapiInv, NEW c \in Calls, TakeBlock(c)
  PROVE  CapiInv'
<1>0. call[c].linked = "capi" /\ call[c].ai \in Apps /\ call[c].tx > 0
  BY DEF TakeBlock
<1>1. Sound(At(c)) /\ At(c).d = call[c] /\ call[c] \in CallRec
  <2>1. call[c] # NoCall
    BY <1>0 DEF NoCall
  <2>2. call[c].used
    BY <2>1, AtSound DEF Over
  <2> QED
    BY <2>2, AtSound
<1>2. call[c].tx \in Nat /\ call[c].max \in Nat /\ call[c].tx <= call[c].max
  <2>1. call[c].tx \in Nat /\ call[c].max \in Nat
    BY <1>1, QueueType
  <2>2. call[c].tx <= call[c].max
    BY <1>1 DEF Sound, DescOK
  <2> QED
    BY <2>1, <2>2
<1>3. PICK n \in Nat : n = call[c].tx - 1 /\ n <= call[c].max
  BY <1>0, <1>2
<1> DEFINE k == Put([At(c) EXCEPT !.d.tx = n], {call[c].ai}, "taken")
<1>4. [At(c) EXCEPT !.d.tx = @ - 1] = [At(c) EXCEPT !.d.tx = n]
  BY <1>1, <1>3
<1>5. Net(c, k)
  BY <1>4 DEF TakeBlock
<1>6. Counts("taken", call[c].tx, n)
  BY <1>0, <1>2, <1>3, HearSent
<1>8. Sound(k) /\ k.d.ai = call[c].ai /\ k.d.chan = call[c].chan
  <2>1. PICK q : q = At(c)
    OBVIOUS
  <2>2. Sound(q) /\ q.d = call[c] /\ k = Put([q EXCEPT !.d.tx = n], {q.d.ai}, "taken")
    BY <1>1, <2>1
  <2> HIDE DEF k
  <2> QED
    <3>1. q.d.ai \in Apps /\ q.d.linked = "capi" /\ n <= q.d.max /\ Counts("taken", q.d.tx, n)
      BY <2>2, <1>0, <1>3, <1>6
    <3>2. "taken" \in Messages
      BY DEF Messages
    <3> QED
      BY <2>2, <3>1, <3>2, BlockSound
<1> HIDE DEF k
<1> QED
  BY <1>5, <1>8, KeptFine, CommitNet

\* The call of an application, or one that it takes
Takes(a, c) == [TakeCall(At(c), a) EXCEPT !.d.drv = "capi"]

\* The program that acts on a call becomes its owner, and hears nothing by that.
LEMMA Taken ==
  ASSUME CapiInv, NEW a \in Apps, NEW c \in Calls, MayAct(a, c), NEW t, t = Takes(a, c)
  PROVE  Sound(t) /\ t.d.ai = a /\ t.d.chan = call[c].chan /\ t.d.st = call[c].st
<1>1. Sound(At(c)) /\ At(c).d = call[c] /\ call[c] \in CallRec
  BY AtSound DEF MayAct
<1> DEFINE k == TakeCall(At(c), a)
<1>2. Sound(k) /\ k.d = [call[c] EXCEPT !.ai = a]
  BY <1>1, TakeSound DEF MayAct
<1> HIDE DEF k
<1>3. k.d \in CallRec /\ k.d.ai = a /\ k.d.chan = call[c].chan /\ k.d.st = call[c].st
  BY <1>1, <1>2 DEF CallRec
<1>4. Sound(t) /\ t.d = [k.d EXCEPT !.drv = "capi"]
  BY <1>2, <1>3, DrvSound DEF k, Takes
<1>5. t.d.ai = k.d.ai /\ t.d.chan = k.d.chan /\ t.d.st = k.d.st
  BY <1>3, <1>4 DEF CallRec
<1> QED
  BY <1>3, <1>4, <1>5

\* CONNECT_B3_REQ, whether or not the FIFO can be set up.
LEMMA ConnectB3ReqKeeps ==
  ASSUME CapiInv, NEW a \in Apps, NEW c \in Calls, NEW able \in BOOLEAN, ConnectB3Req(a, c, able)
  PROVE  CapiInv'
<1>1. PICK t : t = Takes(a, c)
  OBVIOUS
<1>2. MayAct(a, c) /\ Handle(a, c, LinkB3(t, able)) /\ writing[a]
  BY <1>1 DEF ConnectB3Req, Handle, Takes
<1>3. Sound(t) /\ t.d.ai = a /\ t.d.chan = call[c].chan
  BY <1>1, <1>2, Taken
<1>4. blocks \in [Apps -> Blocks \cup {0}]
  BY DEF CapiInv, DeviceInv
<1>5. Sound(LinkB3(t, able)) /\ SameCall(t.d, LinkB3(t, able).d)
  BY <1>3, <1>4, LinkSound
<1>6. LinkB3(t, able).d.ai = a /\ LinkB3(t, able).d.chan = call[c].chan
  BY <1>3, <1>5 DEF SameCall
<1>7. Fine(c, LinkB3(t, able))
  BY <1>2, <1>5, <1>6, WriterThere, KeptFine
<1> QED
  BY <1>2, <1>7, CommitHandle

\* DISCONNECT_B3_REQ.
LEMMA DisconnectB3ReqKeeps ==
  ASSUME CapiInv, NEW a \in Apps, NEW c \in Calls, DisconnectB3Req(a, c)
  PROVE  CapiInv'
<1>1. Sound(At(c)) /\ At(c).d = call[c]
  BY AtSound DEF DisconnectB3Req
<1>2. Sound(UnlinkB3(At(c))) /\ SameCall(call[c], UnlinkB3(At(c)).d)
  BY <1>1, UnlinkSound
<1>3. Fine(c, UnlinkB3(At(c)))
  BY <1>2, KeptFine DEF SameCall
<1> QED
  BY <1>3, CommitHandle DEF DisconnectB3Req

\* DISCONNECT_REQ.
LEMMA DisconnectReqKeeps ==
  ASSUME CapiInv, NEW a \in Apps, NEW c \in Calls, DisconnectReq(a, c)
  PROVE  CapiInv'
<1>1. Sound(At(c))
  BY AtSound DEF DisconnectReq, MayAct
<1>2. Sound(UnlinkB3(At(c)))
  BY <1>1, UnlinkSound
<1>3. Fine(c, FreeCall(UnlinkB3(At(c))))
  BY <1>2, FreeOver, OverFine
<1> QED
  BY <1>3, CommitHandle DEF DisconnectReq

\* SELECT_B_PROTOCOL_REQ.
LEMMA SelectBReqKeeps ==
  ASSUME CapiInv, NEW a \in Apps, NEW c \in Calls, SelectBReq(a, c)
  PROVE  CapiInv'
<1>1. PICK t : t = Takes(a, c)
  OBVIOUS
<1>2. MayAct(a, c) /\ Handle(a, c, t) /\ writing[a]
  BY <1>1 DEF SelectBReq, Handle, Takes
<1>3. Sound(t) /\ t.d.ai = a /\ t.d.chan = call[c].chan
  BY <1>1, <1>2, Taken
<1>4. Fine(c, t)
  BY <1>2, <1>3, WriterThere, KeptFine
<1> QED
  BY <1>2, <1>4, CommitHandle

\* HOLD gives the channel back once the FIFO is free.
LEMMA Held ==
  ASSUME CapiInv, NEW c \in Calls, call[c].used,
         NEW u, u = IF call[c].want THEN [UnlinkB3(At(c)) EXCEPT !.d.want = TRUE] ELSE At(c)
  PROVE  Fine(c, [u EXCEPT !.d.chan = "no", !.d.hold = "held"])
<1>1. Sound(At(c)) /\ At(c).d = call[c] /\ call[c] \in CallRec
  BY AtSound
<1>2. Sound(u) /\ u.d.linked = "no" /\ u.d.ai = call[c].ai
  <2>1. CASE call[c].want
    <3> DEFINE k == UnlinkB3(At(c))
    <3>1. Sound(k) /\ SameCall(call[c], k.d) /\ k.d.linked = "no"
      BY <1>1, UnlinkSound
    <3>2. u = [k EXCEPT !.d.want = TRUE]
      BY <2>1
    <3> HIDE DEF k
    <3>3. Sound(u) /\ u.d = [k.d EXCEPT !.want = TRUE]
      <4>1. PICK x \in {"none", "capi", "tone", "other"} : TRUE
        OBVIOUS
      <4>2. /\ Sound([k EXCEPT !.d.want = TRUE])
            /\ [k EXCEPT !.d.want = TRUE].d = [k.d EXCEPT !.want = TRUE]
        BY <3>1, WantSound
      <4> QED
        BY <3>2, <4>2
    <3>4. k.d \in CallRec
      BY <3>1 DEF Sound, Contexts
    <3>5. u.d.linked = k.d.linked /\ u.d.ai = k.d.ai
      BY <3>3, <3>4 DEF CallRec
    <3> QED
      BY <3>1, <3>3, <3>5 DEF SameCall
  <2>2. CASE ~call[c].want
    BY <1>1, <2>2 DEF Sound, DescOK
  <2> QED
    BY <2>1, <2>2
<1> DEFINE n == SetChan(u, "no")
           h == [n EXCEPT !.d.hold = "held"]
<1>3. u.d \in CallRec /\ u \in Contexts
  BY <1>2 DEF Sound, Contexts
<1>4. [u EXCEPT !.d.chan = "no", !.d.hold = "held"] = h
  BY <1>3 DEF SetChan, Contexts
<1>5. Sound(n) /\ n.d = [u.d EXCEPT !.chan = "no"]
  BY <1>2, ChanSound
<1> HIDE DEF n
<1>6. n.d \in CallRec /\ n.d.chan = "no" /\ n.d.ai = u.d.ai
  BY <1>3, <1>5 DEF CallRec
<1>7. Sound(h) /\ h.d = [n.d EXCEPT !.hold = "held"]
  BY <1>5, HoldSound
<1> HIDE DEF h
<1>8. h.d.chan = "no" /\ h.d.ai = call[c].ai
  BY <1>2, <1>6, <1>7 DEF CallRec
<1>9. Fine(c, h)
  BY <1>7, <1>8, KeptFine
<1> QED
  BY <1>4, <1>9

\* FACILITY_REQ, hold.
LEMMA HoldReqKeeps ==
  ASSUME CapiInv, NEW a \in Apps, NEW c \in Calls, HoldReq(a, c)
  PROVE  CapiInv'
<1>1. PICK u : u = IF call[c].want THEN [UnlinkB3(At(c)) EXCEPT !.d.want = TRUE] ELSE At(c)
  OBVIOUS
<1> DEFINE h == [u EXCEPT !.d.chan = "no", !.d.hold = "held"]
<1>2. Handle(a, c, h) /\ call[c].used
  BY <1>1 DEF HoldReq, MayAct
<1>3. Fine(c, h)
  BY <1>1, <1>2, Held
<1> HIDE DEF h
<1> QED
  BY <1>2, <1>3, CommitHandle

\* FACILITY_REQ, retrieve.
LEMMA RetrReqKeeps ==
  ASSUME CapiInv, NEW a \in Apps, NEW c \in Calls, RetrReq(a, c)
  PROVE  CapiInv'
<1> DEFINE h == [At(c) EXCEPT !.d.hold = "back"]
<1>1. Sound(At(c)) /\ At(c).d = call[c] /\ call[c] \in CallRec /\ Handle(a, c, h)
  BY AtSound DEF RetrReq, MayAct
<1>2. Sound(h) /\ h.d = [call[c] EXCEPT !.hold = "back"]
  BY <1>1, HoldSound
<1> HIDE DEF h
<1>3. h.d.chan = call[c].chan /\ h.d.ai = call[c].ai
  BY <1>1, <1>2 DEF CallRec
<1>4. Fine(c, h)
  BY <1>2, <1>3, KeptFine
<1> QED
  BY <1>1, <1>4, CommitHandle

\* CONNECT_RESP that ignores the call.
LEMMA IgnoreRespKeeps ==
  ASSUME CapiInv, NEW a \in Apps, NEW c \in Calls, IgnoreResp(a, c)
  PROVE  CapiInv'
<1>1. Sound(At(c)) /\ At(c).d = call[c] /\ call[c] \in CallRec
  BY AtSound DEF IgnoreResp, MayAct
<1>2. CASE call[c].count < 2
  <2>1. Handle(a, c, FreeCall(At(c)))
    BY <1>2 DEF IgnoreResp
  <2>2. Fine(c, FreeCall(At(c)))
    BY <1>1, FreeOver, OverFine
  <2> QED
    BY <2>1, <2>2, CommitHandle
<1>3. CASE ~(call[c].count < 2)
  <2>1. call[c].count \in 0 .. Cardinality(Apps) + 1 /\ Cardinality(Apps) \in Nat
    BY <1>1, NoCallType DEF CallRec
  <2>2. PICK n \in 0 .. Cardinality(Apps) + 1 : n = call[c].count - 1
    BY <2>1, <1>3
  <2> DEFINE h == [At(c) EXCEPT !.d.count = n]
  <2>3. [At(c) EXCEPT !.d.count = @ - 1] = h
    BY <1>1, <2>2
  <2>4. Handle(a, c, h)
    BY <1>3, <2>3 DEF IgnoreResp
  <2>5. Sound(h) /\ h.d = [call[c] EXCEPT !.count = n]
    BY <1>1, CountSound
  <2> HIDE DEF h
  <2>6. h.d.chan = call[c].chan /\ h.d.ai = call[c].ai
    BY <1>1, <2>5 DEF CallRec
  <2>7. Fine(c, h)
    BY <2>5, <2>6, KeptFine
  <2> QED
    BY <2>4, <2>7, CommitHandle
<1> QED
  BY <1>2, <1>3

\* CONNECT_RESP that accepts the call.
LEMMA AcceptRespKeeps ==
  ASSUME CapiInv, NEW a \in Apps, NEW c \in Calls, AcceptResp(a, c)
  PROVE  CapiInv'
<1>1. PICK t : t = Takes(a, c)
  OBVIOUS
<1>2. /\ MayAct(a, c) /\ writing[a]
      /\ Handle(a, c, IF call[c].st \notin {"overlap", "offered"} THEN t
                      ELSE IF "nt" \in kind THEN Activate(t)
                      ELSE [t EXCEPT !.d.st = "accepted"])
  BY <1>1 DEF AcceptResp, Handle, Takes
<1>3. Sound(t) /\ t.d.ai = a /\ t.d.chan = call[c].chan /\ app[a] # "gone"
  BY <1>1, <1>2, Taken, WriterThere
<1>4. t.d \in CallRec /\ t.d.ai # "all"
  BY <1>3, OwnerNames DEF Sound, Contexts
<1>5. CASE call[c].st \notin {"overlap", "offered"}
  <2>1. Fine(c, t)
    BY <1>3, KeptFine
  <2> QED
    BY <1>2, <1>5, <2>1, CommitHandle
<1>6. CASE call[c].st \in {"overlap", "offered"} /\ "nt" \in kind
  <2>1. Sound(Activate(t)) /\ Activate(t).d = [t.d EXCEPT !.st = "active"]
    BY <1>3, <1>4, ActivateSound
  <2>2. Activate(t).d.ai = a /\ Activate(t).d.chan = call[c].chan
    BY <1>3, <1>4, <2>1 DEF CallRec
  <2>3. Fine(c, Activate(t))
    BY <1>3, <2>1, <2>2, KeptFine
  <2>4. Handle(a, c, Activate(t))
    BY <1>2, <1>6
  <2> QED
    BY <2>3, <2>4, CommitHandle
<1>7. CASE call[c].st \in {"overlap", "offered"} /\ "nt" \notin kind
  <2> DEFINE s == [t EXCEPT !.d.st = "accepted"]
  <2>1. Sound(s) /\ s.d = [t.d EXCEPT !.st = "accepted"]
    BY <1>3, <1>4, StateSound
  <2>2. Handle(a, c, s)
    BY <1>2, <1>7
  <2> HIDE DEF s
  <2>3. s.d.ai = a /\ s.d.chan = call[c].chan
    BY <1>3, <1>4, <2>1 DEF CallRec
  <2>4. Fine(c, s)
    BY <1>3, <2>1, <2>3, KeptFine
  <2> QED
    BY <2>2, <2>4, CommitHandle
<1> QED
  BY <1>5, <1>6, <1>7

\* CONNECT_RESP that rejects the call.
LEMMA RejectRespKeeps ==
  ASSUME CapiInv, NEW a \in Apps, NEW c \in Calls, RejectResp(a, c)
  PROVE  CapiInv'
<1>1. PICK t : t = Takes(a, c)
  OBVIOUS
<1>2. MayAct(a, c) /\ Handle(a, c, FreeCall(t))
  BY <1>1 DEF RejectResp, Takes
<1>3. Sound(t)
  BY <1>1, <1>2, Taken
<1>4. Fine(c, FreeCall(t))
  BY <1>3, FreeOver, OverFine
<1> QED
  BY <1>2, <1>4, CommitHandle

\* CONNECT_B3_RESP, whether or not the FIFO can be set up.
LEMMA ConnectB3RespKeeps ==
  ASSUME CapiInv, NEW a \in Apps, NEW c \in Calls, NEW able \in BOOLEAN,
         ConnectB3Resp(a, c, able)
  PROVE  CapiInv'
<1>1. Sound(At(c)) /\ At(c).d = call[c] /\ blocks \in [Apps -> Blocks \cup {0}]
  BY AtSound DEF ConnectB3Resp, CapiInv, DeviceInv
<1>2. Sound(LinkB3(At(c), able)) /\ SameCall(call[c], LinkB3(At(c), able).d)
  BY <1>1, LinkSound
<1>3. Fine(c, LinkB3(At(c), able))
  BY <1>2, KeptFine DEF SameCall
<1>4. Fine(c, FreeCall(At(c)))
  BY <1>1, FreeOver, OverFine
<1>5. Handle(a, c, LinkB3(At(c), able)) \/ Handle(a, c, FreeCall(At(c)))
  BY DEF ConnectB3Resp
<1> QED
  BY <1>3, <1>4, <1>5, CommitHandle

-----------------------------------------------------------------------------
(* The network *)

\* EV_L3_SETUP
LEMMA OfferKeeps ==
  ASSUME CapiInv, NEW c \in Calls, NEW d \in CallRec, NEW st \in {"overlap", "offered"},
         Sound(With(At(c), [d EXCEPT !.st = st])), d.ai \in Apps => app[d.ai] # "gone", d.chan \in {"no", call[c].chan},
         NEW tone \in BOOLEAN, NEW able \in BOOLEAN, Offer(c, d, st, tone, able)
  PROVE  CapiInv'
<1> DEFINE R(ch) == [At(c) EXCEPT !.d = [d EXCEPT !.chan = ch, !.st = st]]
           T(ch) == IF tone THEN LinkB3([R(ch) EXCEPT !.d.drv = "tone"], able) ELSE R(ch)
           S(ch) == {a \in Hearers(T(ch).d) : listens[a] /\ app[a] = "open"}
           N(ch) == Cardinality(S(ch)) + IF "daemon" \in kind /\ d.ai \notin Apps THEN 1 ELSE 0
           O(ch) == [Put(T(ch), S(ch), "connect") EXCEPT !.d.count = N(ch)]
<1>1. PICK ch \in Allocated(d) :
        Net(c, IF ch = "no" THEN FreeCall(R(ch)) ELSE IF N(ch) = 0 THEN FreeCall(O(ch)) ELSE O(ch))
  BY DEF Offer
<1>2. /\ ch \in {"no", "real", "void"} /\ (ch = d.chan \/ d.chan = "no")
      /\ ch = "real" => d.chan = "real" \/ Spare > 0
  BY AllocatedIs
<1> DEFINE e == [d EXCEPT !.st = st]
<1>3. PICK w : w = With(At(c), e)
  OBVIOUS
<1>4. e \in CallRec /\ e.ai = d.ai /\ e.chan = d.chan
  BY DEF CallRec
<1>5. PICK r : r = R(ch)
  OBVIOUS
<1>6. Sound(r) /\ r.d.ai = d.ai /\ r.d.chan = ch
  <2>0. At(c) \in Contexts /\ [d EXCEPT !.chan = ch, !.st = st] = [e EXCEPT !.chan = ch]
    BY <1>2, AtSound DEF CallRec
  <2>1. r = SetChan(w, ch)
    BY <1>3, <1>5, <2>0 DEF SetChan, With, Contexts
  <2> HIDE DEF e
  <2>2. Sound(w) /\ w.d = e
    BY <1>3, <1>4, <2>0, WithFields DEF e
  <2>3. ch = w.d.chan \/ w.d.linked = "no"
    BY <1>2, <1>4, <2>2 DEF Sound, DescOK
  <2>4. Sound(r) /\ r.d = [e EXCEPT !.chan = ch]
    BY <1>2, <2>1, <2>2, <2>3, ChanSound
  <2> QED
    BY <1>2, <1>4, <2>4 DEF CallRec
<1> HIDE DEF e
<1>7. CASE ch = "no"
  <2>1. Net(c, FreeCall(r))
    BY <1>1, <1>5, <1>7
  <2>2. Fine(c, FreeCall(r))
    BY <1>6, FreeOver, OverFine
  <2> QED
    BY <2>1, <2>2, CommitNet
<1>8. CASE ch # "no"
  <2>1. PICK t : t = T(ch)
    <3> HIDE DEF T
    <3> QED
      OBVIOUS
  <2>2. Sound(t) /\ t.d.ai = d.ai /\ t.d.chan = ch
    <3>1. CASE ~tone
      BY <1>5, <1>6, <2>1, <3>1
    <3>2. CASE tone
      <4> DEFINE k == [r EXCEPT !.d.drv = "tone"]
      <4>1. Sound(k) /\ k.d = [r.d EXCEPT !.drv = "tone"]
        BY <1>6, DrvSound
      <4>2. t = LinkB3(k, able)
        BY <1>5, <2>1, <3>2
      <4> HIDE DEF k
      <4>3. k.d.ai = r.d.ai /\ k.d.chan = r.d.chan
        BY <1>6, <4>1 DEF CallRec, Sound, Contexts
      <4>4. blocks \in [Apps -> Blocks \cup {0}]
        BY DEF CapiInv, DeviceInv
      <4>5. Sound(t) /\ SameCall(k.d, t.d)
        BY <4>1, <4>2, <4>4, LinkSound
      <4> QED
        BY <1>6, <4>3, <4>5 DEF SameCall
    <3> QED
      BY <3>1, <3>2
  <2>3. PICK Z : Z = S(ch)
    OBVIOUS
  <2>4. t.d \in CallRec
    BY <2>2 DEF Sound, Contexts
  <2>5. Z \in SUBSET Apps /\ \A b \in Z : t.d.ai \in {"all", b}
    <3>1. Z \subseteq Hearers(t.d)
      BY <2>1, <2>3
    <3> QED
      BY <3>1 DEF Hearers
  <2>6. PICK n : n = N(ch)
    OBVIOUS
  <2>7. n \in 0 .. Cardinality(Apps) + 1
    <3>1. IsFiniteSet(Z) /\ Cardinality(Z) <= Cardinality(Apps)
      BY <2>5, FS_Subset, CapiAssumption
    <3>2. Cardinality(Z) \in Nat /\ Cardinality(Apps) \in Nat
      BY <3>1, FS_CardinalityType, CapiAssumption
    <3>3. n \in {Cardinality(Z), Cardinality(Z) + 1}
      BY <2>3, <2>6, <3>2
    <3> QED
      BY <3>1, <3>2, <3>3
  <2> DEFINE k == Put(t, Z, "connect")
             o == [k EXCEPT !.d.count = n]
  <2>8. o = O(ch)
    BY <2>1, <2>3, <2>6
  <2>9. Net(c, IF n = 0 THEN FreeCall(o) ELSE o)
    BY <1>1, <1>8, <2>6, <2>8
  <2>10. Sound(k) /\ k.d = t.d
    BY <2>2, <2>5, ConnectSound
  <2> HIDE DEF k
  <2>11. Sound(o) /\ o.d = [t.d EXCEPT !.count = n]
    BY <2>7, <2>10, CountSound
  <2> HIDE DEF o
  <2>12. o.d.ai = d.ai /\ o.d.chan = ch
    BY <2>2, <2>4, <2>11 DEF CallRec
  <2>13. Fine(c, o)
    BY <1>2, <2>11, <2>12 DEF Fine
  <2>14. Fine(c, FreeCall(o))
    BY <2>11, FreeOver, OverFine
  <2>15. CASE n = 0
    BY <2>9, <2>14, <2>15, CommitNet
  <2>16. CASE n # 0
    BY <2>9, <2>13, <2>16, CommitNet
  <2> QED
    BY <2>15, <2>16
<1> QED
  BY <1>7, <1>8

\* A SETUP, new or repeated, is offered to the programs that listen.
LEMMA NetSetupKeeps ==
  ASSUME CapiInv, NEW c \in Calls, NEW st \in {"overlap", "offered"}, NEW tone \in BOOLEAN,
         NEW able \in BOOLEAN, NetSetup(c, st, tone, able)
  PROVE  CapiInv'
<1>1. At(c) \in Contexts /\ At(c).d = call[c] /\ call[c] \in CallRec
  BY AtSound
<1>2. ASSUME CanAllocate(c),
             Offer(c, [NoCall EXCEPT !.used = TRUE, !.incoming = TRUE], st, tone, able)
      PROVE  CapiInv'
  <2> DEFINE d == [NoCall EXCEPT !.used = TRUE, !.incoming = TRUE]
             e == [d EXCEPT !.st = st]
  <2>1. d \in CallRec /\ d.ai = "all" /\ d.chan = "no"
    BY NoCallType DEF CallRec, NoCall
  <2>2. e \in CallRec /\ e.used /\ e.incoming /\ e.ai = "all" /\ e.linked = "no" /\ e.st = st
    BY NoCallType DEF CallRec, NoCall
  <2>3. e.tx = 0 /\ e.max = 0 /\ e.drv = "none"
    BY DEF NoCall
  <2>4. Offer(c, d, st, tone, able)
    BY <1>2
  <2> HIDE DEF d, e
  <2>5. Over(At(c))
    BY <1>2, AtSound DEF CanAllocate
  <2>6. DescOK(e)
    BY <2>2, <2>3, OwnerNames DEF DescOK
  <2>7. With(At(c), e) \in Contexts /\ With(At(c), e).d = e /\ With(At(c), e).v = At(c).v
    BY <1>1, <2>2, WithFields
  <2>8. \A a \in Apps : Trusts(a) => Told(e, a, At(c).v[a])
    BY <2>2, <2>5, OwnerNames DEF Over, Blank, Told
  <2>9. Sound(With(At(c), e))
    BY <2>2, <2>6, <2>7, <2>8 DEF Sound
  <2>10. Sound(With(At(c), [d EXCEPT !.st = st]))
    BY <2>9 DEF e
  <2> QED
    BY <2>1, <2>4, <2>10, OwnerNames, OfferKeeps
<1>3. ASSUME call[c].used, Offer(c, call[c], st, tone, able)
      PROVE  CapiInv'
  <2>1. Sound(At(c)) /\ With(At(c), [call[c] EXCEPT !.st = st]) = [At(c) EXCEPT !.d.st = st]
    BY <1>1, <1>3, AtSound DEF With, Contexts
  <2>2. Sound([At(c) EXCEPT !.d.st = st])
    BY <2>1, StateSound
  <2>3. call[c].ai \in Apps => app[call[c].ai] # "gone"
    BY DEF CapiInv, CallsInv
  <2>4. Sound(With(At(c), [call[c] EXCEPT !.st = st]))
    BY <2>1, <2>2
  <2> QED
    BY <1>1, <1>3, <2>3, <2>4, OfferKeeps
<1> QED
  BY <1>2, <1>3 DEF NetSetup

\* A call in a state that no descriptor that is free has
LEMMA InUse ==
  ASSUME CapiInv, NEW c \in Calls, call[c].st # "idle" \/ call[c].hold # "no"
  PROVE  /\ call[c].used /\ Sound(At(c)) /\ At(c).d = call[c] /\ call[c] \in CallRec
         /\ call[c].st \notin {"overlap", "offered"} => call[c].ai # "all"
<1>1. call[c] # NoCall
  BY DEF NoCall
<1>2. call[c].used
  BY <1>1, AtSound DEF Over
<1>3. Sound(At(c)) /\ At(c).d = call[c] /\ call[c] \in CallRec
  BY <1>2, AtSound
<1> QED
  BY <1>2, <1>3 DEF Sound, DescOK

\* A channel for a call that has none
LEMMA Channelled ==
  ASSUME CapiInv, NEW c \in Calls, call[c].used, NEW ch \in Allocated(call[c])
  PROVE  /\ Sound(SetChan(At(c), ch)) /\ SetChan(At(c), ch).d = [call[c] EXCEPT !.chan = ch]
         /\ ch \in {"no", "real", "void"}
         /\ ch = "real" => call[c].chan = "real" \/ Spare > 0
<1>1. Sound(At(c)) /\ At(c).d = call[c] /\ call[c] \in CallRec
  BY AtSound
<1>2. /\ ch \in {"no", "real", "void"} /\ (ch = call[c].chan \/ call[c].chan = "no")
      /\ ch = "real" => call[c].chan = "real" \/ Spare > 0
  BY <1>1, AllocatedIs
<1>3. ch = call[c].chan \/ call[c].linked = "no"
  BY <1>1, <1>2 DEF Sound, DescOK
<1>4. PICK r : r = At(c)
  OBVIOUS
<1>5. Sound(r) /\ (ch = r.d.chan \/ r.d.linked = "no") /\ r.d = call[c]
  BY <1>1, <1>3, <1>4
<1>6. Sound(SetChan(r, ch)) /\ SetChan(r, ch).d = [r.d EXCEPT !.chan = ch]
  BY <1>2, <1>5, ChanSound
<1> QED
  BY <1>2, <1>4, <1>5, <1>6

\* What is left with that channel is fine.
LEMMA ChannelledFine ==
  ASSUME CapiInv, NEW c \in Calls, NEW ch, NEW s, Sound(s), s.d.ai = call[c].ai, s.d.chan = ch,
         ch = "real" => call[c].chan = "real" \/ Spare > 0
  PROVE  Fine(c, s)
BY DEF Fine, CapiInv, CallsInv

\* A call gets its channel.
LEMMA NetChannelKeeps ==
  ASSUME CapiInv, NEW c \in Calls, NetChannel(c)
  PROVE  CapiInv'
<1>1. PICK ch \in Allocated(call[c]) : Net(c, [SetChan(At(c), ch) EXCEPT !.d.st = "acked"])
  BY DEF NetChannel
<1>2. call[c].used /\ call[c].ai # "all" /\ call[c] \in CallRec
  BY InUse DEF NetChannel
<1> DEFINE n == SetChan(At(c), ch)
           s == [n EXCEPT !.d.st = "acked"]
<1>3. /\ Sound(n) /\ n.d = [call[c] EXCEPT !.chan = ch] /\ ch \in {"no", "real", "void"}
      /\ ch = "real" => call[c].chan = "real" \/ Spare > 0
  BY <1>2, Channelled
<1> HIDE DEF n
<1>4. n.d \in CallRec /\ n.d.ai = call[c].ai /\ n.d.chan = ch
  BY <1>2, <1>3 DEF CallRec
<1>5. Sound(s) /\ s.d = [n.d EXCEPT !.st = "acked"]
  BY <1>2, <1>3, <1>4, StateSound
<1>6. Net(c, s)
  BY <1>1 DEF n
<1> HIDE DEF s
<1>7. s.d.ai = call[c].ai /\ s.d.chan = ch
  BY <1>4, <1>5 DEF CallRec
<1>8. Fine(c, s)
  BY <1>3, <1>5, <1>7, ChannelledFine
<1> QED
  BY <1>6, <1>8, CommitNet

\* The network answers a call.
LEMMA NetConnectKeeps ==
  ASSUME CapiInv, NEW c \in Calls, NetConnect(c)
  PROVE  CapiInv'
<1>0. /\ call[c].used /\ call[c].ai # "all" /\ call[c] \in CallRec /\ Sound(At(c))
      /\ At(c).d = call[c]
  BY InUse DEF NetConnect
<1>1. ASSUME NEW ch \in Allocated(call[c]),
             Net(c, IF ch = "no" THEN FreeCall(SetChan(At(c), ch)) ELSE Activate(SetChan(At(c), ch)))
      PROVE  CapiInv'
  <2> DEFINE n == SetChan(At(c), ch)
             s == Activate(n)
  <2>1. /\ Sound(n) /\ n.d = [call[c] EXCEPT !.chan = ch] /\ ch \in {"no", "real", "void"}
        /\ ch = "real" => call[c].chan = "real" \/ Spare > 0
    BY <1>0, Channelled
  <2>2. Net(c, FreeCall(n)) \/ Net(c, s)
    BY <1>1
  <2> HIDE DEF n
  <2>3. n.d \in CallRec /\ n.d.ai = call[c].ai /\ n.d.chan = ch
    BY <1>0, <2>1 DEF CallRec
  <2>4. Sound(s) /\ s.d = [n.d EXCEPT !.st = "active"]
    BY <1>0, <2>1, <2>3, ActivateSound
  <2> HIDE DEF s
  <2>5. s.d.ai = call[c].ai /\ s.d.chan = ch
    BY <2>3, <2>4 DEF CallRec
  <2>6. Fine(c, s)
    BY <2>1, <2>4, <2>5, ChannelledFine
  <2>7. Fine(c, FreeCall(n))
    BY <2>1, FreeOver, OverFine
  <2> QED
    BY <2>2, <2>6, <2>7, CommitNet
<1>2. ASSUME Net(c, Activate(At(c))) PROVE CapiInv'
  <2> DEFINE s == Activate(At(c))
  <2>1. Sound(s) /\ s.d = [call[c] EXCEPT !.st = "active"]
    BY <1>0, ActivateSound
  <2>2. Net(c, s)
    BY <1>2
  <2> HIDE DEF s
  <2>3. s.d.ai = call[c].ai /\ s.d.chan = call[c].chan
    BY <1>0, <2>1 DEF CallRec
  <2>4. Fine(c, s)
    BY <2>1, <2>3, KeptFine
  <2> QED
    BY <2>2, <2>4, CommitNet
<1> QED
  BY <1>1, <1>2 DEF NetConnect

\* The network ends a call.
LEMMA NetEndKeeps ==
  ASSUME CapiInv, NEW c \in Calls, NetEnd(c)
  PROVE  CapiInv'
<1>1. Sound(At(c))
  BY AtSound DEF NetEnd
<1>2. Fine(c, FreeCall(At(c)))
  BY <1>1, FreeOver, OverFine
<1> QED
  BY <1>2, CommitNet DEF NetEnd

\* The network puts a call on hold.
LEMMA NetHoldKeeps ==
  ASSUME CapiInv, NEW c \in Calls, NetHold(c)
  PROVE  CapiInv'
<1>1. PICK u : u = IF call[c].want THEN [UnlinkB3(At(c)) EXCEPT !.d.want = TRUE] ELSE At(c)
  OBVIOUS
<1> DEFINE h == [u EXCEPT !.d.chan = "no", !.d.hold = "held"]
<1>2. Net(c, h) /\ call[c].st # "idle"
  BY <1>1 DEF NetHold
<1>3. call[c].used
  BY <1>2, InUse
<1>4. Fine(c, h)
  BY <1>1, <1>3, Held
<1> HIDE DEF h
<1> QED
  BY <1>2, <1>4, CommitNet

\* The network retrieves a call.
LEMMA NetRetrieveKeeps ==
  ASSUME CapiInv, NEW c \in Calls, NEW able \in BOOLEAN, NetRetrieve(c, able)
  PROVE  CapiInv'
<1> DEFINE n(ch) == SetChan(At(c), ch)
           H(ch) == [n(ch) EXCEPT !.d.hold = "no"]
<1>1. PICK ch \in Allocated(call[c]) :
        /\ call[c].hold # "no"
        /\ Net(c, IF H(ch).d.want THEN LinkB3(H(ch), able) ELSE H(ch))
  BY DEF NetRetrieve
<1>2. call[c].used /\ call[c] \in CallRec /\ blocks \in [Apps -> Blocks \cup {0}]
  BY <1>1, InUse DEF CapiInv, DeviceInv
<1>3. PICK k : k = n(ch)
  OBVIOUS
<1>4. /\ Sound(k) /\ k.d = [call[c] EXCEPT !.chan = ch] /\ ch \in {"no", "real", "void"}
      /\ ch = "real" => call[c].chan = "real" \/ Spare > 0
  BY <1>2, <1>3, Channelled
<1>5. k.d \in CallRec /\ k.d.ai = call[c].ai /\ k.d.chan = ch
  BY <1>2, <1>4 DEF CallRec
<1> DEFINE h == [k EXCEPT !.d.hold = "no"]
<1>6. Net(c, IF h.d.want THEN LinkB3(h, able) ELSE h)
  BY <1>1, <1>3
<1>7. Sound(h) /\ h.d = [k.d EXCEPT !.hold = "no"]
  BY <1>4, HoldSound
<1> HIDE DEF h
<1>8. h.d.ai = call[c].ai /\ h.d.chan = ch
  BY <1>5, <1>7 DEF CallRec
<1>9. Sound(LinkB3(h, able)) /\ SameCall(h.d, LinkB3(h, able).d)
  BY <1>2, <1>7, LinkSound
<1>10. LinkB3(h, able).d.ai = call[c].ai /\ LinkB3(h, able).d.chan = ch
  BY <1>8, <1>9 DEF SameCall
<1>11. Fine(c, h)
  BY <1>4, <1>7, <1>8, ChannelledFine
<1>12. Fine(c, LinkB3(h, able))
  BY <1>4, <1>9, <1>10, ChannelledFine
<1>13. Net(c, h) \/ Net(c, LinkB3(h, able))
  BY <1>6
<1> QED
  BY <1>11, <1>12, <1>13, CommitNet

\* The daemon's driver gets the B-channel of a call that it took.
LEMMA DaemonLinkKeeps ==
  ASSUME CapiInv, NEW c \in Calls, NEW able \in BOOLEAN, DaemonLink(c, able)
  PROVE  CapiInv'
<1>1. Sound(At(c)) /\ At(c).d = call[c] /\ blocks \in [Apps -> Blocks \cup {0}]
  BY AtSound DEF DaemonLink, CapiInv, DeviceInv
<1>2. Sound(LinkB3(At(c), able)) /\ SameCall(call[c], LinkB3(At(c), able).d)
  BY <1>1, LinkSound
<1>3. Sound(UnlinkB3(At(c))) /\ SameCall(call[c], UnlinkB3(At(c)).d)
  BY <1>1, UnlinkSound
<1>4. Fine(c, LinkB3(At(c), able)) /\ Fine(c, UnlinkB3(At(c)))
  BY <1>2, <1>3, KeptFine DEF SameCall
<1>5. Net(c, LinkB3(At(c), able)) \/ Net(c, UnlinkB3(At(c)))
  BY DEF DaemonLink
<1> QED
  BY <1>4, <1>5, CommitNet

\* I4B_CONNECT_RESP of isdnd: no application has the call.
LEMMA DaemonTakeKeeps ==
  ASSUME CapiInv, NEW c \in Calls, DaemonTake(c)
  PROVE  CapiInv'
<1>1. PICK st \in {call[c].st, IF "nt" \in kind THEN "active" ELSE "accepted"} :
        Net(c, Put([At(c) EXCEPT !.d.ai = "i4b", !.d.drv = "other", !.d.st = st], Apps, "end"))
  BY DEF DaemonTake
<1>2. Sound(At(c)) /\ At(c).d = call[c] /\ call[c] \in CallRec /\ call[c].ai = "all"
  BY AtSound DEF DaemonTake
<1>3. st \in {"idle", "dialing", "acked", "overlap", "offered", "accepted", "active"}
  BY <1>2 DEF CallRec
<1> DEFINE e == [call[c] EXCEPT !.ai = "i4b", !.drv = "other", !.st = st]
           w == With(At(c), e)
           k == Put(w, Apps, "end")
<1>4. /\ e \in CallRec /\ e.used = call[c].used /\ e.ai = "i4b" /\ e.linked = call[c].linked
      /\ e.tx = call[c].tx
  BY <1>2, <1>3 DEF CallRec
<1>5. /\ e.want = call[c].want /\ e.chan = call[c].chan /\ e.copy = call[c].copy
      /\ e.max = call[c].max /\ e.incoming = call[c].incoming /\ e.drv = "other"
  BY <1>2 DEF CallRec
<1>6. At(c) \in Contexts /\ At(c).v \in [Apps -> ViewRec] /\ DescOK(call[c]) /\ call[c].used
  BY <1>2 DEF Sound, Contexts
<1>7. Net(c, k)
  BY <1>1, <1>2, <1>6 DEF With, Contexts
<1> HIDE DEF e
<1>8. w \in Contexts /\ w.d = e /\ w.v = At(c).v
  BY <1>4, <1>6, WithFields
<1> HIDE DEF w
<1>9. k \in Contexts /\ k.d = e /\ \A a \in Apps : k.v[a] = Hear(At(c).v[a], "end")
  BY <1>8, PutFields DEF Messages
<1> HIDE DEF k
<1>10. call[c].linked # "capi" /\ call[c].incoming
  BY <1>2, <1>6, OwnerNames DEF DescOK
<1>11. DescOK(e)
  BY <1>4, <1>5, <1>6, <1>10, OwnerNames DEF DescOK
<1>12. ASSUME NEW a \in Apps, Trusts(a) PROVE Told(e, a, k.v[a])
  <2>1. At(c).v[a] \in ViewRec /\ Told(call[c], a, At(c).v[a])
    BY <1>2, <1>6, <1>12 DEF Sound
  <2>2. At(c).v[a].ok /\ ~At(c).v[a].b3 /\ At(c).v[a].owed = 0
    BY <2>1, <1>10 DEF Told
  <2>3. k.v[a] = Hear(At(c).v[a], "end")
    BY <1>9
  <2>4. k.v[a].ok /\ ~k.v[a].b3 /\ k.v[a].owed = At(c).v[a].owed /\ ~k.v[a].known
    BY <2>1, <2>2, <2>3, HearEnd
  <2> QED
    BY <2>2, <2>4, <1>4, <1>10, OwnerNames DEF Told
<1>13. Sound(k)
  BY <1>4, <1>6, <1>9, <1>11, <1>12 DEF Sound
<1>14. Fine(c, k)
  BY <1>4, <1>5, <1>9, <1>13, OwnerNames DEF Fine
<1> QED
  BY <1>7, <1>14, CommitNet

-----------------------------------------------------------------------------
(* The device *)

\* CONNECT without memory: the application has lost the confirmation.
LEMMA ConnectNoMemKeeps ==
  ASSUME CapiInv, NEW a \in Apps, NEW c \in Calls, ConnectNoMem(a, c)
  PROVE  CapiInv'
<1>1. DeviceInv /\ ViewsInv
  BY DEF CapiInv
<1>2. PICK r : r = With(At(c), New(a))
  OBVIOUS
<1>3. PICK k : k = Put(r, {a}, "connect")
  OBVIOUS
<1>4. ~call[c].used /\ writing[a] /\ Keep /\ writing' = [writing EXCEPT ![a] = FALSE]
      /\ "lose" \in kind /\ call' = [call EXCEPT ![c] = New(a)]
  BY DEF ConnectNoMem, CanAllocate, New
<1>0. ~call[c].used
  BY <1>4
<1>a. New(a).ai = a /\ New(a).chan = "no" /\ Sound(k) /\ k.d = New(a) /\ OnlyTo(k, a, c)
  BY <1>0, <1>2, <1>3, NewSound
<1>5. /\ New(a).ai = a /\ New(a).chan = "no" /\ Sound(k) /\ k.d = New(a) /\ k.to = {a}
      /\ \A b \in Apps : b # a => k.v[b] = view[b][c]
  BY <1>a DEF OnlyTo
<1> DEFINE L == {x \in {a} : app[x] = "open"}
<1>6. L \in SUBSET {x \in k.to : "lose" \in kind /\ app[x] = "open"} /\ lost' = lost \cup L
  BY <1>4, <1>5 DEF ConnectNoMem
<1>7. view' = [x \in Apps |-> IF x \in lost' THEN [view[x] EXCEPT ![c] = Untold] ELSE view[x]]
  BY DEF ConnectNoMem
<1>8. ASSUME NEW x \in Apps
      PROVE  (IF x \in lost' THEN [view[x] EXCEPT ![c] = Untold] ELSE view[x])
             = [view[x] EXCEPT ![c] = IF x \in lost' \/ app[x] # "open" THEN Untold ELSE k.v[x]]
  <2>1. CASE x \in lost'
    BY <2>1
  <2>2. CASE x \notin lost' /\ app[x] # "open"
    <3>1. view[x][c] = Untold /\ view[x] = [view[x] EXCEPT ![c] = view[x][c]]
      BY <1>1, <2>2 DEF DeviceInv, ViewsInv
    <3> QED
      BY <2>2, <3>1
  <2>3. CASE x \notin lost' /\ app[x] = "open"
    <3>1. x # a
      BY <1>6, <2>3
    <3>2. k.v[x] = view[x][c] /\ view[x] = [view[x] EXCEPT ![c] = view[x][c]]
      BY <1>1, <1>5, <3>1 DEF ViewsInv
    <3> QED
      BY <2>3, <3>2
  <2> QED
    BY <2>1, <2>2, <2>3
<1>9. view' = [x \in Apps |->
        [view[x] EXCEPT ![c] = IF x \in lost' \/ app[x] # "open" THEN Untold ELSE k.v[x]]]
  BY <1>7, <1>8
<1> HIDE DEF L
<1>10. Tell(c, k)
  BY <1>6, <1>9 DEF Tell
<1>11. Handle(a, c, k)
  BY <1>4, <1>5, <1>10 DEF Handle, Becomes
<1>12. Fine(c, k)
  BY <1>4, <1>5, WriterThere, KeptFine
<1> QED
  BY <1>11, <1>12, CommitHandle

\* A step that concerns neither calls nor what is known of them
LEMMA AsideKeeps ==
  ASSUME CapiInv, UNCHANGED <<call, app, lost, view>>, writing' \in [Apps -> BOOLEAN],
         \A a \in Apps : writing'[a] => app[a] # "gone", listens' \in [Apps -> BOOLEAN],
         blocks' \in [Apps -> Blocks \cup {0}]
  PROVE  CapiInv'
<1>1. DeviceInv'
  BY DEF CapiInv, DeviceInv
<1>2. ViewsInv'
  BY DEF CapiInv, ViewsInv
<1>3. \A a \in Apps : Trusts(a)' <=> Trusts(a)
  BY DEF Trusts
<1>4. \A c \in Calls : (CallSound(c) => CallSound(c)') /\ (CallOver(c) => CallOver(c)')
  BY <1>3 DEF CallSound, CallOver
<1>5. CallsInv'
  BY <1>4 DEF CapiInv, CallsInv
<1>6. (Spare >= 0)'
  BY DEF CapiInv, Spare
<1> QED
  BY <1>1, <1>2, <1>5, <1>6 DEF CapiInv

\* A write that begins or ends, LISTEN and REGISTER
LEMMA WriteKeeps ==
  ASSUME CapiInv, NEW a \in Apps,
         BeginWrite(a) \/ IgnoredWrite(a) \/ ListenReq(a) \/ \E n \in Blocks : Register(a, n)
  PROVE  CapiInv'
<1>1. DeviceInv
  BY DEF CapiInv
<1>2. CASE BeginWrite(a)
  <2>1. /\ writing' = [writing EXCEPT ![a] = TRUE] /\ app[a] = "open"
        /\ UNCHANGED <<call, app, lost, view, listens, blocks>>
    BY <1>2 DEF BeginWrite, Keep
  <2>2. writing' \in [Apps -> BOOLEAN] /\ \A b \in Apps : writing'[b] => app[b] # "gone"
    BY <1>1, <2>1 DEF DeviceInv
  <2> QED
    BY <1>1, <2>1, <2>2, AsideKeeps DEF DeviceInv
<1>3. CASE IgnoredWrite(a)
  <2>1. /\ writing' = [writing EXCEPT ![a] = FALSE]
        /\ UNCHANGED <<call, app, lost, view, listens, blocks>>
    BY <1>3 DEF IgnoredWrite, Keep
  <2>2. writing' \in [Apps -> BOOLEAN] /\ \A b \in Apps : writing'[b] => app[b] # "gone"
    BY <1>1, <2>1 DEF DeviceInv
  <2> QED
    BY <1>1, <2>1, <2>2, AsideKeeps DEF DeviceInv
<1>4. CASE ListenReq(a)
  <2>1. /\ writing' = [writing EXCEPT ![a] = FALSE] /\ listens' = [listens EXCEPT ![a] = ~@]
        /\ UNCHANGED <<call, app, lost, view, blocks>>
    BY <1>4 DEF ListenReq
  <2>2. writing' \in [Apps -> BOOLEAN] /\ \A b \in Apps : writing'[b] => app[b] # "gone"
    BY <1>1, <2>1 DEF DeviceInv
  <2>3. listens' \in [Apps -> BOOLEAN] /\ blocks' \in [Apps -> Blocks \cup {0}]
    BY <1>1, <2>1 DEF DeviceInv
  <2> QED
    BY <2>1, <2>2, <2>3, AsideKeeps
<1>5. CASE \E n \in Blocks : Register(a, n)
  <2>1. PICK n \in Blocks : Register(a, n)
    BY <1>5
  <2>2. blocks' = [blocks EXCEPT ![a] = n] /\ UNCHANGED <<call, app, lost, view, writing, listens>>
    BY <2>1 DEF Register
  <2>3. blocks' \in [Apps -> Blocks \cup {0}]
    BY <1>1, <2>2 DEF DeviceInv
  <2> QED
    BY <1>1, <2>2, <2>3, AsideKeeps DEF DeviceInv
<1> QED
  BY <1>2, <1>3, <1>4, <1>5


\* Opening and closing: nobody is told anything who is trusted afterwards.
LEMMA CallsStay ==
  ASSUME CallsInv, UNCHANGED call, NEW c \in Calls,
         \A a \in Apps : Trusts(a)' => view'[a][c] = view[a][c] /\ Trusts(a)
  PROVE  CallSound(c)' \/ CallOver(c)'
<1>1. CallSound(c) \/ CallOver(c)
  BY DEF CallsInv
<1>2. CASE CallSound(c)
  BY <1>2 DEF CallSound
<1>3. CASE CallOver(c)
  BY <1>3 DEF CallOver
<1> QED
  BY <1>1, <1>2, <1>3

\* The first step of a close
LEMMA CloseAppKeeps ==
  ASSUME CapiInv, NEW a \in Apps, CloseApp(a)
  PROVE  CapiInv'
<1>1. DeviceInv /\ ViewsInv /\ CallsInv
  BY DEF CapiInv
<1>2. /\ app' = [app EXCEPT ![a] = "closing"] /\ lost' = lost \ {a}
      /\ view' = [view EXCEPT ![a] = [c \in Calls |-> Untold]]
      /\ call' = call /\ writing' = writing /\ listens' = listens /\ blocks' = blocks
  BY DEF CloseApp
<1>3. app'[a] = "closing" /\ \A b \in Apps : b # a => app'[b] = app[b]
  BY <1>1, <1>2 DEF DeviceInv
<1>4. /\ \A c \in Calls : view'[a][c] = Untold
      /\ \A b \in Apps : b # a => view'[b] = view[b]
  BY <1>1, <1>2 DEF ViewsInv
<1>5. DeviceInv'
  <2>1. /\ app' \in [Apps -> {"open", "closing", "gone"}]
        /\ writing' \in [Apps -> BOOLEAN] /\ listens' \in [Apps -> BOOLEAN]
        /\ blocks' \in [Apps -> Blocks \cup {0}] /\ lost' \subseteq Apps
    BY <1>1, <1>2 DEF DeviceInv
  <2>2. \A b \in Apps : writing'[b] => app'[b] # "gone"
    BY <1>1, <1>2, <1>3 DEF DeviceInv
  <2>3. ASSUME NEW b \in Apps, app'[b] # "open"
        PROVE  b \notin lost' /\ \A c \in Calls : view'[b][c] = Untold
    <3>1. CASE b = a
      BY <1>2, <1>4, <3>1
    <3>2. CASE b # a
      <4>1. b \notin lost /\ \A c \in Calls : view[b][c] = Untold
        BY <1>1, <1>3, <2>3, <3>2 DEF DeviceInv
      <4> QED
        BY <1>2, <1>4, <3>2, <4>1
    <3> QED
      BY <3>1, <3>2
  <2> QED
    BY <2>1, <2>2, <2>3 DEF DeviceInv
<1>6. ViewsInv'
  <2> DEFINE V == [known : BOOLEAN, b3 : BOOLEAN, owed : Nat, ok : BOOLEAN]
  <2>1. Untold \in V
    BY DEF Untold
  <2> HIDE DEF V
  <2>2. view \in [Apps -> [Calls -> V]]
    BY <1>1 DEF ViewsInv, V
  <2>3. view' \in [Apps -> [Calls -> V]]
    BY <1>2, <2>1, <2>2
  <2> QED
    BY <2>3 DEF ViewsInv, V
<1>7. \A b \in Apps : Trusts(b)' => b # a /\ Trusts(b)
  BY <1>2, <1>3 DEF Trusts
<1>8. \A c \in Calls : CallSound(c)' \/ CallOver(c)'
  <2> TAKE c \in Calls
  <2>1. \A b \in Apps : Trusts(b)' => view'[b][c] = view[b][c] /\ Trusts(b)
    BY <1>4, <1>7
  <2> QED
    BY <1>1, <1>2, <2>1, CallsStay
<1>9. CallsInv'
  BY <1>1, <1>2, <1>3, <1>8 DEF CallsInv
<1>10. (Spare >= 0)'
  BY <1>2 DEF CapiInv, Spare
<1> QED
  BY <1>5, <1>6, <1>9, <1>10 DEF CapiInv


\* The calls of an application that has gone are over; no other one knew of them.
LEMMA CloseDoneKeeps ==
  ASSUME CapiInv, NEW a \in Apps, CloseDone(a)
  PROVE  CapiInv'
<1>1. DeviceInv /\ ViewsInv /\ CallsInv /\ Spare >= 0
  BY DEF CapiInv
<1>2. /\ app[a] = "closing" /\ ~writing[a] /\ app' = [app EXCEPT ![a] = "gone"]
      /\ call' = [c \in Calls |-> IF call[c].used /\ call[c].ai = a THEN NoCall ELSE call[c]]
      /\ writing' = writing /\ listens' = listens /\ blocks' = blocks /\ lost' = lost
      /\ view' = view
  BY DEF CloseDone
<1>3. app'[a] = "gone" /\ \A b \in Apps : b # a => app'[b] = app[b]
  BY <1>1, <1>2 DEF DeviceInv
<1>4. DeviceInv'
  <2>1. /\ app' \in [Apps -> {"open", "closing", "gone"}]
        /\ writing' \in [Apps -> BOOLEAN] /\ listens' \in [Apps -> BOOLEAN]
        /\ blocks' \in [Apps -> Blocks \cup {0}] /\ lost' \subseteq Apps
    BY <1>1, <1>2 DEF DeviceInv
  <2>2. \A b \in Apps : writing'[b] => app'[b] # "gone"
    BY <1>1, <1>2, <1>3 DEF DeviceInv
  <2>3. \A b \in Apps : app'[b] # "open" => app[b] # "open"
    BY <1>2, <1>3
  <2>4. \A b \in Apps : app'[b] # "open" => b \notin lost' /\ \A c \in Calls : view'[b][c] = Untold
    BY <1>1, <1>2, <2>3 DEF DeviceInv
  <2> QED
    BY <2>1, <2>2, <2>4 DEF DeviceInv
<1>5. ViewsInv'
  BY <1>1, <1>2 DEF ViewsInv
<1>6. \A b \in Apps : Trusts(b)' => b # a /\ Trusts(b)
  BY <1>2, <1>3 DEF Trusts
<1>7. \A c \in Calls : call'[c] = IF call[c].used /\ call[c].ai = a THEN NoCall ELSE call[c]
  BY <1>2
<1>8. ASSUME NEW c \in Calls PROVE CallSound(c)' \/ CallOver(c)'
  <2>0. CallSound(c) \/ CallOver(c)
    BY <1>1 DEF CallsInv
  <2>1. CASE call[c].used /\ call[c].ai = a
    <3>1. call'[c] = NoCall
      BY <1>7, <2>1
    <3>2. CallSound(c)
      BY <2>0, <2>1, NoCallType DEF CallOver
    <3>3. ASSUME NEW b \in Apps, Trusts(b)' PROVE Blank(view'[b][c])
      <4>1. b # a /\ Told(call[c], b, view[b][c])
        BY <1>6, <3>2, <3>3 DEF CallSound
      <4>2. call[c].ai # b /\ call[c].ai # "all"
        BY <2>1, <4>1, OwnerNames
      <4>3. Blank(view[b][c])
        BY <4>1, <4>2 DEF Told, Blank
      <4> QED
        BY <1>2, <4>3
    <3> QED
      BY <3>1, <3>3 DEF CallOver
  <2>2. CASE ~(call[c].used /\ call[c].ai = a)
    <3>1. call'[c] = call[c]
      BY <1>7, <2>2
    <3>2. CASE CallSound(c)
      BY <1>2, <1>6, <3>1, <3>2 DEF CallSound
    <3>3. CASE CallOver(c)
      BY <1>2, <1>6, <3>1, <3>3 DEF CallOver
    <3> QED
      BY <2>0, <3>2, <3>3
  <2> QED
    BY <2>1, <2>2
<1>9. CallsInv'
  <2>1. call' \in [Calls -> CallRec]
    BY <1>1, <1>2, NoCallType DEF CallsInv
  <2>2. ASSUME NEW c \in Calls, call'[c].ai \in Apps PROVE app'[call'[c].ai] # "gone"
    <3>1. ~(call[c].used /\ call[c].ai = a)
      BY <1>7, <2>2, NoCallType, OwnerNames
    <3>2. call'[c] = call[c]
      BY <1>7, <3>1
    <3>3. call[c].used
      <4>1. CallSound(c) \/ CallOver(c)
        BY <1>1 DEF CallsInv
      <4>2. call[c] # NoCall
        BY <2>2, <3>2, NoCallType, OwnerNames
      <4> QED
        BY <4>1, <4>2 DEF CallSound, CallOver
    <3>4. call[c].ai # a /\ app[call[c].ai] # "gone"
      BY <1>1, <2>2, <3>1, <3>2, <3>3 DEF CallsInv
    <3> QED
      BY <1>3, <2>2, <3>2, <3>4
  <2> QED
    BY <1>8, <2>1, <2>2 DEF CallsInv
<1>10. (Spare >= 0)'
  <2> DEFINE R == {x \in Calls : call[x].chan = "real"}
             Q == {x \in Calls : call'[x].chan = "real"}
  <2>1. Q \subseteq R
    BY <1>7, NoCallType
  <2>2. IsFiniteSet(R) /\ Spare = Channels - Cardinality(R) /\ Spare' = Channels - Cardinality(Q)
    BY SpareType DEF Spare
  <2> HIDE DEF R, Q
  <2>3. Cardinality(R) \in Nat /\ Cardinality(Q) \in Nat /\ Cardinality(Q) <= Cardinality(R)
    BY <2>1, <2>2, FS_Subset, FS_CardinalityType
  <2>4. Channels \in Nat
    BY CapiAssumption
  <2> QED
    BY <1>1, <2>2, <2>3, <2>4
<1> QED
  BY <1>4, <1>5, <1>9, <1>10 DEF CapiInv

\* What was never told is true of every call that an application does not own.
LEMMA UntoldTrue ==
  /\ Blank(Untold)
  /\ \A d, a : d.ai # a => Told(d, a, Untold)
BY DEF Untold, Blank, Told

\* An application that is opened knows nothing, and owns nothing.
LEMMA OpenAppKeeps ==
  ASSUME CapiInv, NEW a \in Apps, OpenApp(a)
  PROVE  CapiInv'
<1>1. DeviceInv /\ ViewsInv /\ CallsInv
  BY DEF CapiInv
<1>2. /\ app[a] = "gone" /\ app' = [app EXCEPT ![a] = "open"]
      /\ listens' = [listens EXCEPT ![a] = FALSE] /\ blocks' = [blocks EXCEPT ![a] = 0]
      /\ call' = call /\ writing' = writing /\ lost' = lost /\ view' = view
  BY DEF OpenApp
<1>3. app'[a] = "open" /\ \A b \in Apps : b # a => app'[b] = app[b]
  BY <1>1, <1>2 DEF DeviceInv
<1>4. DeviceInv'
  <2>1. /\ app' \in [Apps -> {"open", "closing", "gone"}]
        /\ writing' \in [Apps -> BOOLEAN] /\ listens' \in [Apps -> BOOLEAN]
        /\ blocks' \in [Apps -> Blocks \cup {0}] /\ lost' \subseteq Apps
    BY <1>1, <1>2 DEF DeviceInv
  <2>2. \A b \in Apps : writing'[b] => app'[b] # "gone"
    BY <1>1, <1>2, <1>3 DEF DeviceInv
  <2>3. \A b \in Apps : app'[b] # "open" => b \notin lost' /\ \A c \in Calls : view'[b][c] = Untold
    BY <1>1, <1>2, <1>3 DEF DeviceInv
  <2> QED
    BY <2>1, <2>2, <2>3 DEF DeviceInv
<1>5. ViewsInv'
  BY <1>1, <1>2 DEF ViewsInv
<1>6. \A c \in Calls : view[a][c] = Untold /\ call[c].ai # a
  BY <1>1, <1>2 DEF DeviceInv, CallsInv
<1>7. \A b \in Apps : Trusts(b)' => b = a \/ Trusts(b)
  BY <1>2, <1>3 DEF Trusts
<1>8. ASSUME NEW c \in Calls PROVE CallSound(c)' \/ CallOver(c)'
  <2>1. CallSound(c) \/ CallOver(c)
    BY <1>1 DEF CallsInv
  <2>2. view[a][c] = Untold /\ Blank(view[a][c]) /\ Told(call[c], a, view[a][c])
    BY <1>6, UntoldTrue
  <2>3. CASE CallSound(c)
    BY <1>2, <1>7, <2>2, <2>3 DEF CallSound
  <2>4. CASE CallOver(c)
    BY <1>2, <1>7, <2>2, <2>4 DEF CallOver
  <2> QED
    BY <2>1, <2>3, <2>4
<1>9. CallsInv'
  BY <1>1, <1>2, <1>3, <1>6, <1>8 DEF CallsInv
<1>10. (Spare >= 0)'
  BY <1>2 DEF CapiInv, Spare
<1> QED
  BY <1>4, <1>5, <1>9, <1>10 DEF CapiInv


-----------------------------------------------------------------------------
(* The theorems *)

\* It holds when the driver is loaded.
LEMMA CapiInvInit == CapiInit => CapiInv
<1> SUFFICES ASSUME CapiInit PROVE CapiInv
  OBVIOUS
<1>1. /\ call = [c \in Calls |-> NoCall] /\ app \in [Apps -> {"open", "gone"}]
      /\ writing = [a \in Apps |-> FALSE] /\ listens = [a \in Apps |-> FALSE]
      /\ blocks = [a \in Apps |-> 0] /\ lost = {}
      /\ view = [a \in Apps |-> [c \in Calls |-> Untold]]
  BY DEF CapiInit
<1>2. \A a \in Apps, c \in Calls : view[a][c] = Untold
  BY <1>1
<1>3. DeviceInv
  BY <1>1, <1>2 DEF DeviceInv
<1>4. ViewsInv
  <2> DEFINE V == [known : BOOLEAN, b3 : BOOLEAN, owed : Nat, ok : BOOLEAN]
  <2>1. Untold \in V
    BY DEF Untold
  <2> HIDE DEF V
  <2>2. view \in [Apps -> [Calls -> V]]
    BY <1>1, <2>1
  <2> QED
    BY <2>2 DEF ViewsInv, V
<1>5. \A c \in Calls : call[c] = NoCall
  BY <1>1
<1>6. CallsInv
  <2>1. \A c \in Calls : CallOver(c)
    BY <1>2, <1>5, UntoldTrue DEF CallOver
  <2>2. call \in [Calls -> CallRec]
    BY <1>1, NoCallType
  <2>3. \A c \in Calls : call[c].ai \notin Apps
    BY <1>5, NoCallType, OwnerNames
  <2> QED
    BY <2>1, <2>2, <2>3 DEF CallsInv
<1>7. Spare >= 0
  <2> DEFINE R == {c \in Calls : call[c].chan = "real"}
  <2>1. R = {}
    BY <1>5, NoCallType
  <2>2. Spare = Channels - Cardinality(R) /\ Channels \in Nat
    BY CapiAssumption DEF Spare
  <2> HIDE DEF R
  <2>3. Cardinality(R) = 0
    BY <2>1, FS_EmptySet
  <2> QED
    BY <2>2, <2>3
<1> QED
  BY <1>3, <1>4, <1>6, <1>7 DEF CapiInv

\* A step of an application keeps it.
LEMMA AppStepKeeps ==
  ASSUME CapiInv, NEW a \in Apps, AppNext(a)
  PROVE  CapiInv'
<1>1. CASE BeginWrite(a) \/ IgnoredWrite(a) \/ ListenReq(a) \/ \E n \in Blocks : Register(a, n)
  BY <1>1, WriteKeeps
<1>2. CASE CloseApp(a) \/ CloseDone(a) \/ OpenApp(a)
  BY <1>2, CloseAppKeeps, CloseDoneKeeps, OpenAppKeeps
<1>3. ASSUME NEW c \in Calls,
             ConnectReq(a, c) \/ ConnectNoMem(a, c) \/ DataReq(a, c) \/ DisconnectB3Req(a, c)
      PROVE  CapiInv'
  BY <1>3, ConnectReqKeeps, ConnectNoMemKeeps, DataReqKeeps, DisconnectB3ReqKeeps
<1>4. ASSUME NEW c \in Calls,
             DisconnectReq(a, c) \/ SelectBReq(a, c) \/ HoldReq(a, c) \/ RetrReq(a, c)
      PROVE  CapiInv'
  BY <1>4, DisconnectReqKeeps, SelectBReqKeeps, HoldReqKeeps, RetrReqKeeps
<1>5. ASSUME NEW c \in Calls, IgnoreResp(a, c) \/ AcceptResp(a, c) \/ RejectResp(a, c)
      PROVE  CapiInv'
  BY <1>5, IgnoreRespKeeps, AcceptRespKeeps, RejectRespKeeps
<1>6. ASSUME NEW c \in Calls, NEW able \in BOOLEAN,
             ConnectB3Req(a, c, able) \/ ConnectB3Resp(a, c, able)
      PROVE  CapiInv'
  BY <1>6, ConnectB3ReqKeeps, ConnectB3RespKeeps
<1> QED
  BY <1>1, <1>2, <1>3, <1>4, <1>5, <1>6 DEF AppNext

\* A step of the network or of isdnd keeps it.
LEMMA NetStepKeeps ==
  ASSUME CapiInv, NEW c \in Calls, NetNext(c)
  PROVE  CapiInv'
<1>1. CASE NetChannel(c) \/ NetConnect(c) \/ NetEnd(c)
  BY <1>1, NetChannelKeeps, NetConnectKeeps, NetEndKeeps
<1>2. CASE NetHold(c) \/ TakeBlock(c) \/ DaemonTake(c)
  BY <1>2, NetHoldKeeps, TakeBlockKeeps, DaemonTakeKeeps
<1>3. ASSUME NEW able \in BOOLEAN, NetRetrieve(c, able) \/ DaemonLink(c, able)
      PROVE  CapiInv'
  BY <1>3, NetRetrieveKeeps, DaemonLinkKeeps
<1>4. ASSUME NEW able \in BOOLEAN, NEW st \in {"overlap", "offered"}, NEW tone \in BOOLEAN,
             NetSetup(c, st, tone, able)
      PROVE  CapiInv'
  BY <1>4, NetSetupKeeps
<1> QED
  BY <1>1, <1>2, <1>3, <1>4 DEF NetNext

\* The invariant holds for ever.
LEMMA CapiInvariance == CapiSpec => []CapiInv
<1>1. ASSUME CapiInv, [CapiNext]_capiVars PROVE CapiInv'
  <2>1. CASE UNCHANGED capiVars
    <3>1. /\ UNCHANGED <<call, app, lost, view>> /\ writing' = writing /\ listens' = listens
          /\ blocks' = blocks
      BY <2>1 DEF capiVars
    <3>2. DeviceInv
      BY <1>1 DEF CapiInv
    <3> QED
      BY <1>1, <3>1, <3>2, AsideKeeps DEF DeviceInv
  <2>2. CASE \E a \in Apps : AppNext(a)
    BY <1>1, <2>2, AppStepKeeps
  <2>3. CASE \E c \in Calls : NetNext(c)
    BY <1>1, <2>3, NetStepKeeps
  <2> QED
    BY <1>1, <2>1, <2>2, <2>3 DEF CapiNext
<1> QED
  BY <1>1, CapiInvInit, PTL DEF CapiSpec

\* Any number of applications, calls and B-channels: an application that lost no message is
\* told of the B-channel of its calls in order and truly, however requests, the network,
\* isdnd and the closing of other applications come together, and is never left waiting
\* for the confirmation of a block (capi_ai_*_ind, i4b_link_bchandrvr).
THEOREM AppsAlwaysToldTruth == CapiSpec => []AppsToldTruth
<1>1. CapiInv => AppsToldTruth
  <2> SUFFICES ASSUME CapiInv PROVE AppsToldTruth
    OBVIOUS
  <2>1. call \in [Calls -> CallRec] /\ \A c \in Calls : CallSound(c) \/ CallOver(c)
    BY DEF CapiInv, CallsInv
  <2>2. ASSUME NEW a \in Apps, NEW c \in Calls, Trusts(a)
        PROVE  /\ view[a][c].ok
               /\ view[a][c].b3 <=> call[c].used /\ call[c].ai = a /\ call[c].linked = "capi"
               /\ view[a][c].owed = IF call[c].used /\ call[c].ai = a /\ call[c].linked = "capi"
                                    THEN call[c].tx ELSE 0
               /\ call[c].tx <= call[c].max
    <3>1. CASE CallSound(c)
      BY <2>2, <3>1 DEF CallSound, Told, DescOK
    <3>2. CASE CallOver(c)
      <4>1. Blank(view[a][c]) /\ ~call[c].used /\ call[c].tx = 0 /\ call[c].max = 0
        BY <2>2, <3>2 DEF CallOver, NoCall
      <4> QED
        BY <4>1 DEF Blank
    <3> QED
      BY <2>1, <3>1, <3>2
  <2> QED
    BY <2>2 DEF AppsToldTruth, IndicationsInOrder, B3AsTold
<1> QED
  BY <1>1, CapiInvariance, PTL

\* Any number of applications, calls and B-channels: an application that was offered a call
\* and has not been told of its end may act on it, the owner of a call has not been closed,
\* and no more channels are in use than there are (capi_disconnect_broadcast,
\* i4b_disconnect_by_appl_interface, cd_allocate_channel).
THEOREM CallsAlwaysOwned == CapiSpec => []CallsHaveOwners
<1>1. CapiInv => CallsHaveOwners
  <2> SUFFICES ASSUME CapiInv PROVE CallsHaveOwners
    OBVIOUS
  <2>1. call \in [Calls -> CallRec] /\ \A c \in Calls : CallSound(c) \/ CallOver(c)
    BY DEF CapiInv, CallsInv
  <2>2. CapiTypeOK
    BY <2>1 DEF CapiInv, DeviceInv, ViewsInv, CapiTypeOK, CallRec
  <2>3. ASSUME NEW a \in Apps, NEW c \in Calls, Trusts(a), view[a][c].known PROVE MayAct(a, c)
    <3>1. CASE CallSound(c)
      BY <2>3, <3>1 DEF CallSound, Told, MayAct
    <3>2. CASE CallOver(c)
      BY <2>3, <3>2 DEF CallOver, Blank
    <3> QED
      BY <2>1, <3>1, <3>2
  <2>4. ASSUME NEW c \in Calls, call[c].linked = "capi" PROVE call[c].ai \in Apps
    <3>1. CASE CallSound(c)
      BY <2>4, <3>1 DEF CallSound, DescOK
    <3>2. CASE CallOver(c)
      BY <2>4, <3>2 DEF CallOver, NoCall
    <3> QED
      BY <2>1, <3>1, <3>2
  <2>5. OwnerExists
    BY <2>4 DEF OwnerExists, CapiInv, CallsInv
  <2>6. KnownCallsAreOpen
    BY <2>3 DEF KnownCallsAreOpen
  <2> QED
    BY <2>2, <2>5, <2>6 DEF CallsHaveOwners
<1> QED
  BY <1>1, CapiInvariance, PTL

=============================================================================
