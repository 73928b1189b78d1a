------------------------- MODULE VblkHandoverProofs -------------------------
(***************************************************************************)
(* Proofs about VblkHandover: however many emulators are spawned, live     *)
(* updates triggered, calls failing and processes crashing, no two         *)
(* emulators drive the device at once (OneServer), and a source leaves it  *)
(* only to another one (NoGap).                                            *)
(*                                                                         *)
(* The right to drive the device is a token.  An emulator holds it while   *)
(* its engine is not off, from the moment it is spawned as a source, and   *)
(* while it is draining for BEGIN_ACK.  BEGIN_ACK passes it to the         *)
(* destination, and END with failure passes it back.  It can be lost with  *)
(* a datagram or a process, and is only made again when the TLP process    *)
(* spawns a source and no emulator is alive.                               *)
(***************************************************************************)
EXTENDS VblkHandover, SequenceTheorems, TLAPS

Fields == {"proc", "role", "phase", "desc", "engine", "vqs", "main", "path", "bin"}

IsSeq(s) == s \in Seq({s[i] : i \in DOMAIN s})

TypeInv ==
    /\ emu = [p \in Pids |-> emu[p]]
    /\ \A p \in Pids : DOMAIN emu[p] = Fields
    /\ inbox = [p \in Pids \cup {TLP} |-> inbox[p]]
    /\ \A p \in Pids : IsSeq(inbox[p])
    /\ bound \in [{"SRC", "DST"} -> Pids \cup {None}]
    /\ tlp.src \in Pids \cup {None} /\ tlp.dst \in Pids \cup {None}
    /\ DOMAIN tlp = {"src", "dst", "lu", "awaiting", "desc", "bin", "pc"}

(* The TLP process knows every emulator that is alive, and a dead one      *)
(* drives nothing and receives nothing.                                    *)
ProcInv ==
    /\ \A p \in Pids : Alive(p) => p \in {tlp.src, tlp.dst}
    /\ ~tlp.lu => tlp.dst = None
    /\ \A p \in Pids : ~Alive(p) => emu[p].engine = "off" /\ inbox[p] = <<>>

(* Who holds the token, and the datagrams that carry it. *)
TokenTypes == {"HO_BEGIN_ACK", "HO_END_FAIL"}
Holds(p) ==
    /\ Alive(p)
    /\ \/ Serving(p)
       \/ emu[p].phase = "SRC_DRAINING"
       \/ emu[p].role = "SRC" /\ emu[p].proc \in {"start", "request", "boot"}
Tokens(s) == {i \in DOMAIN s : s[i].type \in TokenTypes}

NoToken(p) == ~Holds(p) /\ Tokens(inbox[p]) = {}

(* There is at most one token. *)
TokenInv ==
    \A p \in Pids :
        /\ NoToken(p) \/ \A r \in Pids \ {p} : NoToken(r)
        /\ Holds(p) => Tokens(inbox[p]) = {}
        /\ \A i, j \in Tokens(inbox[p]) : i = j

(* Only a source is bound to the source's path, and a destination that     *)
(* waits for its queues has its engine on.                                 *)
RoleInv ==
    /\ bound["SRC"] # None =>
         emu[bound["SRC"]].role = "SRC" /\ emu[bound["SRC"]].proc # "unborn"
    /\ \A p \in Pids :
         /\ emu[p].role = "DST" => emu[p].engine # "draining"
         /\ Alive(p) /\ emu[p].phase = "DST_RESUMING" =>
              emu[p].role = "DST" /\ emu[p].engine = "on" /\ emu[p].proc = "run"

Has(p, type) == \E i \in DOMAIN inbox[p] : inbox[p][i].type = type

(* A source has been, or is about to be, told that the handover is over. *)
Leaving(p) ==
    /\ Alive(p)
    /\ Has(p, "HO_END_SUCCESS") \/ (emu[p].role = "SRC" /\ emu[p].phase = "DONE")

(* Another emulator drives the device and is not asked to stop, or it has  *)
(* died and the token with it.                                             *)
TakenOver(p) ==
    \E r \in Pids \ {p} :
        \/ /\ emu[r].proc \in {"run", "quit"} /\ emu[r].engine = "on"
           /\ ~Has(r, "HO_BEGIN")
        \/ /\ emu[r].proc \in {"dead", "reaped"}
           /\ \A q \in Pids : NoToken(q)

GapInv == \A p \in Pids : Leaving(p) => emu[p].role = "SRC" /\ TakenOver(p)

HInv == TypeInv /\ ProcInv /\ TokenInv /\ RoleInv /\ GapInv

-----------------------------------------------------------------------------
(* What receiving and sending do to a sequence of datagrams. *)

(* A sequence of anything is a sequence of its own elements. *)
LEMMA SeqIsSeq ==
    ASSUME NEW S, NEW s \in Seq(S)
    PROVE  IsSeq(s)
<1> DEFINE T == {s[i] : i \in DOMAIN s}
<1>1. Len(s) \in Nat /\ s \in [1 .. Len(s) -> S] /\ DOMAIN s = 1 .. Len(s)
  OBVIOUS
<1>2. s \in [1 .. Len(s) -> T]
  BY <1>1
<1>3. s \in Seq(T)
  BY <1>1, <1>2, SeqDef
<1> QED
  BY <1>3 DEF IsSeq

(* Receiving takes the first datagram and moves the others up by one. *)
LEMMA TailFacts ==
    ASSUME NEW s, IsSeq(s), s # <<>>
    PROVE  /\ IsSeq(Tail(s)) /\ Len(s) \in Nat /\ DOMAIN s = 1 .. Len(s)
           /\ DOMAIN Tail(s) = 1 .. Len(s) - 1
           /\ 1 \in DOMAIN s /\ Head(s) = s[1]
           /\ \A i \in DOMAIN Tail(s) : i + 1 \in DOMAIN s /\ Tail(s)[i] = s[i + 1]
<1> DEFINE S == {s[i] : i \in DOMAIN s}
<1>1. s \in Seq(S)
  BY DEF IsSeq
<1>2. Len(s) \in Nat /\ DOMAIN s = 1 .. Len(s) /\ Len(s) > 0 /\ Head(s) = s[1]
  BY <1>1
<1>3. Tail(s) \in Seq(S) /\ Len(Tail(s)) = Len(s) - 1
      /\ \A i \in 1 .. Len(s) - 1 : Tail(s)[i] = s[i + 1]
  BY <1>1, <1>2
<1>4. DOMAIN Tail(s) = 1 .. Len(s) - 1
  BY <1>2, <1>3
<1>5. IsSeq(Tail(s))
  BY Zenon, <1>3, SeqIsSeq
<1> QED
  BY <1>2, <1>3, <1>4, <1>5

(* Sending puts one datagram behind the others. *)
LEMMA AddFacts ==
    ASSUME NEW s, NEW m, IsSeq(s)
    PROVE  /\ IsSeq(s \o <<m>>) /\ Len(s) \in Nat /\ DOMAIN s = 1 .. Len(s)
           /\ DOMAIN (s \o <<m>>) = 1 .. Len(s) + 1
           /\ \A i \in DOMAIN s : (s \o <<m>>)[i] = s[i]
           /\ (s \o <<m>>)[Len(s) + 1] = m
<1> DEFINE S == {s[i] : i \in DOMAIN s} \cup {m}
           t == s \o <<m>>
<1>1. s \in Seq(S) /\ <<m>> \in Seq(S)
  <2>1. s \in Seq({s[i] : i \in DOMAIN s})
    BY DEF IsSeq
  <2> QED
    BY <2>1
<1>2. Len(s) \in Nat /\ DOMAIN s = 1 .. Len(s)
  BY <1>1
<1>3. t \in Seq(S) /\ Len(t) = Len(s) + 1
      /\ (\A i \in 1 .. Len(s) : t[i] = s[i]) /\ t[Len(s) + 1] = m
  BY <1>1, <1>2
<1>4. DOMAIN t = 1 .. Len(s) + 1
  BY <1>2, <1>3
<1>5. IsSeq(t)
  BY Zenon, <1>3, SeqIsSeq
<1> QED
  BY <1>2, <1>3, <1>4, <1>5

-----------------------------------------------------------------------------
(* A step of process p that leaves it alive: it may take a datagram out of *)
(* its socket, send one of type t to a path, and bind a path.              *)
Rest(p, q, taken) == IF taken /\ q = p THEN Tail(inbox[q]) ELSE inbox[q]

Delivers(p, taken, path, t) ==
    /\ inbox' = [q \in Pids \cup {TLP} |-> inbox'[q]]
    /\ taken => inbox[p] # <<>>
    /\ \A q \in Pids :
         \/ inbox'[q] = Rest(p, q, taken)
         \/ /\ q = bound[path] /\ Alive(q)
            /\ inbox'[q] = Rest(p, q, taken) \o <<Msg(t)>>

Changed(p) ==
    /\ emu' = [q \in Pids |-> emu'[q]]
    /\ DOMAIN emu'[p] = Fields
    /\ \A q \in Pids \ {p} : emu'[q] = emu[q]

Moves(p, taken, path, t) ==
    /\ Alive(p) /\ Alive(p)' /\ Changed(p)
    /\ Delivers(p, taken, path, t)
    /\ tlp' = tlp
    /\ bound' \in [{"SRC", "DST"} -> Pids \cup {None}]
    /\ bound'["SRC"] \in {p, bound["SRC"], None}

Took(p, taken, types) == taken /\ Head(inbox[p]).type \in types

TokenKept(p, taken, t) ==
    /\ t \notin TokenTypes
    /\ Holds(p)' => Holds(p) \/ Took(p, taken, TokenTypes)

TokenPassed(p, taken, t) ==
    /\ t \in TokenTypes
    /\ ~Holds(p)'
    /\ Holds(p) \/ Took(p, taken, TokenTypes)

RoleKept(p) ==
    /\ emu[p].role = "SRC" => emu'[p].role = "SRC"
    /\ bound'["SRC"] = p => emu'[p].role = "SRC"
    /\ emu'[p].role = "DST" => emu'[p].engine # "draining"
    /\ emu'[p].phase = "DST_RESUMING" =>
         emu'[p].role = "DST" /\ emu'[p].engine = "on" /\ emu'[p].proc = "run"

ServiceKept(p, taken, path, t) ==
    /\ t = "HO_BEGIN" => emu[p].role = "DST" /\ emu[p].proc = "boot"
    /\ t = "HO_END_SUCCESS" =>
         /\ path = "SRC" /\ emu[p].role = "DST" /\ emu'[p].role = "DST"
         /\ inbox[p] = <<>> /\ emu'[p].proc = "run" /\ emu'[p].engine = "on"
    /\ emu'[p].role = "SRC" /\ emu'[p].phase = "DONE" =>
         /\ emu[p].role = "SRC"
         /\ emu[p].phase = "DONE" \/ Took(p, taken, {"HO_END_SUCCESS"})
    /\ emu[p].proc \in {"run", "quit"} /\ emu[p].engine = "on" =>
         /\ emu'[p].proc \in {"run", "quit"}
         /\ emu'[p].engine = "on" \/ Took(p, taken, {"HO_BEGIN"})

(* What is in the socket of a process after such a step was there before,  *)
(* or is the datagram that was sent.                                       *)
LEMMA RestFacts ==
    ASSUME TypeInv, NEW p \in Pids, NEW q \in Pids, NEW taken \in BOOLEAN,
           taken => inbox[p] # <<>>
    PROVE  /\ IsSeq(Rest(p, q, taken))
           /\ \A i \in DOMAIN Rest(p, q, taken) :
                IF taken /\ q = p
                THEN i + 1 \in DOMAIN inbox[q] /\ Rest(p, q, taken)[i] = inbox[q][i + 1]
                ELSE i \in DOMAIN inbox[q] /\ Rest(p, q, taken)[i] = inbox[q][i]
           /\ \A i \in DOMAIN inbox[q] : i \in Nat \ {0}
           /\ taken => 1 \in DOMAIN inbox[p] /\ Head(inbox[p]) = inbox[p][1]
<1>1. IsSeq(inbox[p]) /\ IsSeq(inbox[q])
  BY DEF TypeInv
<1>2. \A i \in DOMAIN inbox[q] : i \in Nat \ {0}
  <2>1. Len(inbox[q]) \in Nat /\ DOMAIN inbox[q] = 1 .. Len(inbox[q])
    BY <1>1 DEF IsSeq
  <2> QED
    BY <2>1
<1>3. taken => 1 \in DOMAIN inbox[p] /\ Head(inbox[p]) = inbox[p][1]
  BY <1>1, TailFacts
<1>4. CASE taken /\ q = p
  BY <1>1, <1>2, <1>3, <1>4, TailFacts DEF Rest
<1>5. CASE ~(taken /\ q = p)
  BY <1>1, <1>2, <1>3, <1>5 DEF Rest
<1> QED
  BY <1>4, <1>5

(* The datagram that a process takes is the first one in its socket. *)
LEMMA TookFacts ==
    ASSUME TypeInv, NEW p \in Pids, NEW taken \in BOOLEAN, NEW types,
           taken => inbox[p] # <<>>, Took(p, taken, types)
    PROVE  taken /\ 1 \in DOMAIN inbox[p] /\ inbox[p][1].type \in types
<1>1. taken /\ Head(inbox[p]).type \in types
  BY DEF Took
<1>2. inbox[p] # <<>> /\ IsSeq(inbox[p])
  BY <1>1 DEF TypeInv
<1> QED
  BY <1>1, <1>2, TailFacts

(* What is in any socket after a step of process p: a datagram that was    *)
(* there before, or at the end the one that p sent.                        *)
LEMMA InboxFacts ==
    ASSUME TypeInv, NEW p \in Pids, NEW taken \in BOOLEAN, NEW path, NEW t,
           Moves(p, taken, path, t), NEW q \in Pids
    PROVE  /\ IsSeq(inbox'[q])
           /\ \A i \in DOMAIN inbox'[q] :
                \/ IF taken /\ q = p
                   THEN i + 1 \in DOMAIN inbox[q] /\ inbox'[q][i] = inbox[q][i + 1]
                   ELSE i \in DOMAIN inbox[q] /\ inbox'[q][i] = inbox[q][i]
                \/ /\ i = Len(Rest(p, q, taken)) + 1 /\ inbox'[q][i] = Msg(t)
                   /\ q = bound[path] /\ Alive(q)
           /\ \A i \in DOMAIN inbox[q] : i \in Nat \ {0}
           /\ taken => 1 \in DOMAIN inbox[p] /\ Head(inbox[p]) = inbox[p][1]
<1> DEFINE R == Rest(p, q, taken)
<1>1. taken => inbox[p] # <<>>
  BY DEF Moves, Delivers
<1>2. IsSeq(R)
      /\ (\A i \in DOMAIN R :
            IF taken /\ q = p
            THEN i + 1 \in DOMAIN inbox[q] /\ R[i] = inbox[q][i + 1]
            ELSE i \in DOMAIN inbox[q] /\ R[i] = inbox[q][i])
      /\ (\A i \in DOMAIN inbox[q] : i \in Nat \ {0})
      /\ (taken => 1 \in DOMAIN inbox[p] /\ Head(inbox[p]) = inbox[p][1])
  BY <1>1, RestFacts
<1>3. \/ inbox'[q] = R
      \/ q = bound[path] /\ Alive(q) /\ inbox'[q] = R \o <<Msg(t)>>
  BY DEF Moves, Delivers
<1> HIDE DEF R
<1>4. CASE inbox'[q] = R
  BY <1>2, <1>4
<1>5. CASE q = bound[path] /\ Alive(q) /\ inbox'[q] = R \o <<Msg(t)>>
  <2>1. IsSeq(inbox'[q]) /\ Len(R) \in Nat /\ DOMAIN R = 1 .. Len(R)
        /\ DOMAIN inbox'[q] = 1 .. Len(R) + 1
        /\ (\A i \in DOMAIN R : inbox'[q][i] = R[i])
        /\ inbox'[q][Len(R) + 1] = Msg(t)
    BY <1>2, <1>5, AddFacts
  <2>2. \A i \in DOMAIN inbox'[q] : i \in DOMAIN R \/ i = Len(R) + 1
    BY <2>1
  <2> QED
    BY <1>2, <1>5, <2>1, <2>2 DEF R
<1> QED
  BY <1>3, <1>4, <1>5

(* A step of process p keeps the types. *)
LEMMA MovesType ==
    ASSUME TypeInv, NEW p \in Pids, NEW taken \in BOOLEAN, NEW path, NEW t,
           Moves(p, taken, path, t)
    PROVE  TypeInv'
<1>1. \A q \in Pids : IsSeq(inbox'[q])
  BY InboxFacts
<1>2. \A q \in Pids : DOMAIN emu'[q] = Fields
  BY DEF TypeInv, Moves, Changed
<1> QED
  BY <1>1, <1>2 DEF TypeInv, Moves, Changed, Delivers

(* A step of process p starts and ends none, and puts nothing into the     *)
(* socket of a dead one.                                                   *)
LEMMA MovesProc ==
    ASSUME TypeInv, ProcInv, NEW p \in Pids, NEW taken \in BOOLEAN, NEW path, NEW t,
           Moves(p, taken, path, t)
    PROVE  ProcInv'
<1>1. \A q \in Pids : (~Alive(q))' => q # p /\ ~Alive(q)
  BY DEF Moves, Changed, Alive
<1>2. \A q \in Pids : Alive(q)' => Alive(q)
  BY DEF Moves, Changed, Alive
<1>3. \A q \in Pids : q # p /\ ~Alive(q) => inbox'[q] = inbox[q] /\ emu'[q] = emu[q]
  BY DEF Moves, Changed, Delivers, Rest
<1> QED
  BY <1>1, <1>2, <1>3 DEF ProcInv, Moves

(* A step that neither makes nor passes the token leaves at most one. *)
LEMMA KeptToken ==
    ASSUME TypeInv, TokenInv, NEW p \in Pids, NEW taken \in BOOLEAN, NEW path, NEW t,
           Moves(p, taken, path, t), TokenKept(p, taken, t)
    PROVE  /\ TokenInv'
           /\ (\A q \in Pids : NoToken(q)) => \A q \in Pids : NoToken(q)'
<1>1. \A q \in Pids : \A i \in Tokens(inbox'[q]) :
        IF taken /\ q = p THEN i + 1 \in Tokens(inbox[q]) ELSE i \in Tokens(inbox[q])
  <2> SUFFICES ASSUME NEW q \in Pids, NEW i \in Tokens(inbox'[q])
               PROVE  IF taken /\ q = p THEN i + 1 \in Tokens(inbox[q])
                                        ELSE i \in Tokens(inbox[q])
    OBVIOUS
  <2>1. i \in DOMAIN inbox'[q] /\ inbox'[q][i].type \in TokenTypes
    BY DEF Tokens
  <2>2. inbox'[q][i] # Msg(t)
    BY <2>1 DEF TokenKept, Msg
  <2>3. IF taken /\ q = p
        THEN i + 1 \in DOMAIN inbox[q] /\ inbox'[q][i] = inbox[q][i + 1]
        ELSE i \in DOMAIN inbox[q] /\ inbox'[q][i] = inbox[q][i]
    BY <2>1, <2>2, InboxFacts
  <2> QED
    BY <2>1, <2>3 DEF Tokens
<1>3. Took(p, taken, TokenTypes) => 1 \in Tokens(inbox[p]) /\ taken
  BY TookFacts DEF Moves, Delivers, Tokens
<1>4. \A q \in Pids \ {p} : Holds(q)' => Holds(q)
  BY DEF Moves, Changed, Holds, Serving, Alive
<1>5. \A q \in Pids : \A i \in DOMAIN inbox'[q] : i \in Nat \ {0}
  <2>1. \A q \in Pids : IsSeq(inbox'[q])
    BY InboxFacts
  <2>2. \A q \in Pids : Len(inbox'[q]) \in Nat /\ DOMAIN inbox'[q] = 1 .. Len(inbox'[q])
    BY <2>1 DEF IsSeq
  <2> QED
    BY <2>2
<1>2. \A q \in Pids : \A i \in Tokens(inbox'[q]) : i \in Int
  BY <1>5 DEF Tokens
<1>6. \A q \in Pids : NoToken(q) => NoToken(q)'
  BY <1>1, <1>3, <1>4 DEF NoToken, TokenKept
<1>7. \A q \in Pids :
        /\ Holds(q)' => Tokens(inbox'[q]) = {}
        /\ \A i, j \in Tokens(inbox'[q]) : i = j
  <2> SUFFICES ASSUME NEW q \in Pids
               PROVE  /\ Holds(q)' => Tokens(inbox'[q]) = {}
                      /\ \A i, j \in Tokens(inbox'[q]) : i = j
    OBVIOUS
  <2>1. Holds(q) => Tokens(inbox[q]) = {}
    BY DEF TokenInv
  <2>2. \A i, j \in Tokens(inbox[q]) : i = j
    BY DEF TokenInv
  <2>3. \A i, j \in Tokens(inbox'[q]) : i = j
    BY <1>1, <1>2, <2>2
  <2>4. ASSUME Holds(q)', NEW i \in Tokens(inbox'[q]) PROVE FALSE
    <3>1. ~Holds(q)
      BY <1>1, <2>1, <2>4
    <3>2. q = p /\ Took(p, taken, TokenTypes)
      BY <1>4, <2>4, <3>1 DEF TokenKept
    <3>3. i + 1 = 1
      BY <1>1, <1>3, <2>2, <2>4, <3>2
    <3>4. i \in Nat \ {0}
      BY <1>5, <2>4 DEF Tokens
    <3> QED
      BY <3>3, <3>4
  <2> QED
    BY <2>3, <2>4
<1>8. \A q \in Pids : ~NoToken(q)' => \A r \in Pids \ {q} : NoToken(r)'
  BY <1>6 DEF TokenInv
<1> QED
  BY <1>6, <1>7, <1>8 DEF TokenInv

(* A step that passes the token on gives up its own. *)
LEMMA PassedToken ==
    ASSUME TypeInv, TokenInv, NEW p \in Pids, NEW taken \in BOOLEAN, NEW path, NEW t,
           Moves(p, taken, path, t), TokenPassed(p, taken, t)
    PROVE  TokenInv' /\ ~NoToken(p)
<1>1. Took(p, taken, TokenTypes) => 1 \in Tokens(inbox[p]) /\ taken
  BY TookFacts DEF Moves, Delivers, Tokens
<1>2. ~NoToken(p)
  BY <1>1 DEF TokenPassed, NoToken
<1>3. \A q \in Pids \ {p} : ~Holds(q) /\ Tokens(inbox[q]) = {}
  BY <1>2 DEF TokenInv, NoToken
<1>4. \A q \in Pids : ~Holds(q)'
  BY <1>3 DEF Moves, Changed, Holds, Serving, Alive, TokenPassed
<1>5. \A q \in Pids : \A i \in Tokens(inbox'[q]) :
        i = Len(Rest(p, q, taken)) + 1 /\ q = bound[path]
  <2> SUFFICES ASSUME NEW q \in Pids, NEW i \in Tokens(inbox'[q]),
                      ~(i = Len(Rest(p, q, taken)) + 1 /\ q = bound[path])
               PROVE  FALSE
    OBVIOUS
  <2>1. i \in DOMAIN inbox'[q] /\ inbox'[q][i].type \in TokenTypes
    BY DEF Tokens
  <2>2. IF taken /\ q = p
        THEN i + 1 \in DOMAIN inbox[q] /\ inbox'[q][i] = inbox[q][i + 1]
        ELSE i \in DOMAIN inbox[q] /\ inbox'[q][i] = inbox[q][i]
    BY <2>1, InboxFacts
  <2>3. i \in Nat \ {0}
    <3>1. IsSeq(inbox'[q])
      BY InboxFacts
    <3>2. Len(inbox'[q]) \in Nat /\ DOMAIN inbox'[q] = 1 .. Len(inbox'[q])
      BY <3>1 DEF IsSeq
    <3> QED
      BY <2>1, <3>2
  <2>4. CASE q # p
    BY <1>3, <2>1, <2>2, <2>4 DEF Tokens
  <2>5. CASE q = p /\ taken
    <3>1. i + 1 \in Tokens(inbox[p])
      BY <2>1, <2>2, <2>5 DEF Tokens
    <3>2. ~Holds(p)
      BY <3>1 DEF TokenInv
    <3>3. 1 \in Tokens(inbox[p])
      BY <1>1, <3>2 DEF TokenPassed
    <3> QED
      BY <2>3, <3>1, <3>3 DEF TokenInv
  <2>6. CASE q = p /\ ~taken
    <3>1. i \in Tokens(inbox[p])
      BY <2>1, <2>2, <2>6 DEF Tokens
    <3>2. Holds(p)
      BY <2>6 DEF TokenPassed, Took
    <3> QED
      BY <3>1, <3>2 DEF TokenInv
  <2> QED
    BY <2>4, <2>5, <2>6
<1>6. \A q \in Pids : ~NoToken(q)' => q = bound[path]
  BY <1>4, <1>5 DEF NoToken
<1>7. \A q \in Pids : ~NoToken(q)' => \A r \in Pids \ {q} : NoToken(r)'
  BY <1>6
<1>8. \A q \in Pids : \A i, j \in Tokens(inbox'[q]) : i = j
  BY <1>5
<1> QED
  BY <1>2, <1>4, <1>7, <1>8 DEF TokenInv

(* A step of process p that respects its own role leaves the roles and the *)
(* source's path as they should be.                                        *)
LEMMA MovesRole ==
    ASSUME TypeInv, RoleInv, NEW p \in Pids, NEW taken \in BOOLEAN, NEW path, NEW t,
           Moves(p, taken, path, t), RoleKept(p)
    PROVE  RoleInv'
<1>1. bound'["SRC"] # None =>
        emu'[bound'["SRC"]].role = "SRC" /\ emu'[bound'["SRC"]].proc # "unborn"
  <2> SUFFICES ASSUME bound'["SRC"] # None
               PROVE  emu'[bound'["SRC"]].role = "SRC"
                      /\ emu'[bound'["SRC"]].proc # "unborn"
    OBVIOUS
  <2>1. CASE bound'["SRC"] = p
    BY <2>1 DEF Moves, RoleKept, Alive
  <2>2. CASE bound'["SRC"] # p
    <3>1. bound'["SRC"] = bound["SRC"] /\ bound["SRC"] \in Pids
      BY <2>2 DEF Moves, TypeInv
    <3>2. emu'[bound["SRC"]] = emu[bound["SRC"]]
      BY <2>2, <3>1 DEF Moves, Changed
    <3> QED
      BY <3>1, <3>2 DEF RoleInv
  <2> QED
    BY <2>1, <2>2
<1>2. ASSUME NEW q \in Pids
      PROVE  /\ emu'[q].role = "DST" => emu'[q].engine # "draining"
             /\ Alive(q)' /\ emu'[q].phase = "DST_RESUMING" =>
                  emu'[q].role = "DST" /\ emu'[q].engine = "on" /\ emu'[q].proc = "run"
  BY DEF RoleInv, RoleKept, Moves, Changed, Alive
<1> QED
  BY <1>1, <1>2 DEF RoleInv

(* A source that is leaving is still replaced after such a step. *)
LEMMA MovesGap ==
    ASSUME TypeInv, ProcInv, RoleInv, GapInv, TokenInv,
           NEW p \in Pids, NEW taken \in BOOLEAN, NEW path, NEW t,
           Moves(p, taken, path, t), RoleKept(p), ServiceKept(p, taken, path, t),
           (\A q \in Pids : NoToken(q)) => \A q \in Pids : NoToken(q)'
    PROVE  GapInv'
<1> SUFFICES ASSUME NEW s \in Pids, Leaving(s)'
             PROVE  emu'[s].role = "SRC" /\ TakenOver(s)'
  BY DEF GapInv
<1>0. \A q \in Pids : Alive(q)' <=> Alive(q)
  BY DEF Moves, Changed, Alive
<1>1. Alive(s)
  BY <1>0 DEF Leaving
<1>2. ASSUME NEW q \in Pids, NEW type, Has(q, type)', type # t
      PROVE  Has(q, type)
  <2>1. PICK i \in DOMAIN inbox'[q] : inbox'[q][i].type = type
    BY <1>2 DEF Has
  <2>2. inbox'[q][i] # Msg(t)
    BY <1>2, <2>1 DEF Msg
  <2> QED
    BY <2>1, <2>2, InboxFacts DEF Has
<1>3. ASSUME NEW q \in Pids, NEW type, Has(q, type)', q # bound[path]
      PROVE  Has(q, type)
  <2>1. PICK i \in DOMAIN inbox'[q] : inbox'[q][i].type = type
    BY <1>3 DEF Has
  <2> QED
    BY <1>3, <2>1, InboxFacts DEF Has
<1>4. CASE Leaving(s)
  <2>1. emu[s].role = "SRC" /\ TakenOver(s)
    BY <1>4 DEF GapInv
  <2>2. emu'[s].role = "SRC"
    BY <2>1 DEF Moves, Changed, RoleKept
  <2>3. PICK r \in Pids \ {s} :
          \/ emu[r].proc \in {"run", "quit"} /\ emu[r].engine = "on" /\ ~Has(r, "HO_BEGIN")
          \/ emu[r].proc \in {"dead", "reaped"} /\ \A q \in Pids : NoToken(q)
    BY <2>1 DEF TakenOver
  <2>4. CASE emu[r].proc \in {"dead", "reaped"} /\ \A q \in Pids : NoToken(q)
    <3>1. r # p
      BY <2>4 DEF Moves, Changed, Alive
    <3>2. emu'[r] = emu[r]
      BY <3>1 DEF Moves, Changed
    <3> QED
      BY <2>2, <2>4, <3>2 DEF TakenOver
  <2>5. CASE emu[r].proc \in {"run", "quit"} /\ emu[r].engine = "on" /\ ~Has(r, "HO_BEGIN")
    <3>1. ~Took(p, taken, {"HO_BEGIN"}) \/ r # p
      <4> SUFFICES ASSUME Took(p, taken, {"HO_BEGIN"}), r = p PROVE FALSE
        OBVIOUS
      <4>1. 1 \in DOMAIN inbox[p] /\ inbox[p][1].type \in {"HO_BEGIN"}
        BY TookFacts DEF Moves, Delivers
      <4> QED
        BY <2>5, <4>1 DEF Has
    <3>2. emu'[r].proc \in {"run", "quit"} /\ emu'[r].engine = "on"
      BY <2>5, <3>1 DEF Moves, Changed, ServiceKept
    <3>3. ~Has(r, "HO_BEGIN")'
      <4> SUFFICES ASSUME Has(r, "HO_BEGIN")' PROVE FALSE
        OBVIOUS
      <4>1. t = "HO_BEGIN"
        BY <1>2, <2>5
      <4>2. emu[p].role = "DST" /\ emu[p].proc = "boot"
        BY <4>1 DEF ServiceKept
      <4>3. p # s /\ p # r /\ r # s
        BY <2>1, <2>5, <4>2
      <4>4. Alive(p) /\ Alive(s) /\ Alive(r)
        BY <1>1, <2>5, <4>2 DEF Alive
      <4> QED
        BY <4>3, <4>4 DEF ProcInv
    <3> QED
      BY <2>2, <3>2, <3>3 DEF TakenOver
  <2> QED
    BY <2>2, <2>3, <2>4, <2>5
<1>5. CASE ~Leaving(s)
  <2>1. t = "HO_END_SUCCESS" /\ s = bound[path]
    <3>1. CASE Has(s, "HO_END_SUCCESS")'
      BY <1>1, <1>2, <1>3, <1>5, <3>1 DEF Leaving
    <3>2. CASE emu'[s].role = "SRC" /\ emu'[s].phase = "DONE"
      <4>1. s = p
        BY <1>1, <1>5, <3>2 DEF Moves, Changed, Leaving
      <4>2. Took(p, taken, {"HO_END_SUCCESS"})
        BY <1>1, <1>5, <3>2, <4>1 DEF ServiceKept, Leaving
      <4>3. 1 \in DOMAIN inbox[p] /\ inbox[p][1].type \in {"HO_END_SUCCESS"}
        BY <4>2, TookFacts DEF Moves, Delivers
      <4> QED
        BY <1>1, <1>5, <4>1, <4>3 DEF Leaving, Has
    <3> QED
      BY <3>1, <3>2 DEF Leaving
  <2>2. /\ path = "SRC" /\ emu[p].role = "DST" /\ emu'[p].role = "DST"
        /\ inbox[p] = <<>> /\ emu'[p].proc = "run" /\ emu'[p].engine = "on"
    BY <2>1 DEF ServiceKept
  <2>3. emu[s].role = "SRC" /\ s # p
    BY <2>1, <2>2 DEF RoleInv, Pids, None
  <2>4. emu'[s].role = "SRC"
    BY <2>3 DEF Moves, Changed
  <2>5. ~Has(p, "HO_BEGIN")'
    <3>1. ~Has(p, "HO_BEGIN")
      BY <2>2 DEF Has
    <3> QED
      BY <1>2, <2>1, <3>1
  <2> QED
    BY <2>2, <2>3, <2>4, <2>5 DEF TakenOver
<1> QED
  BY <1>4, <1>5

(* A step of process p that keeps the token or passes it on, respects its  *)
(* role and gives up no service keeps the whole invariant.                 *)
LEMMA MoveKeeps ==
    ASSUME HInv, NEW p \in Pids, NEW taken \in BOOLEAN, NEW path, NEW t,
           Moves(p, taken, path, t),
           TokenKept(p, taken, t) \/ TokenPassed(p, taken, t),
           RoleKept(p), ServiceKept(p, taken, path, t)
    PROVE  HInv'
<1>0. TypeInv /\ ProcInv /\ TokenInv /\ RoleInv /\ GapInv
  BY DEF HInv
<1>1. TypeInv' /\ ProcInv' /\ RoleInv'
  BY <1>0, MovesType, MovesProc, MovesRole
<1>2. /\ TokenInv'
      /\ (\A q \in Pids : NoToken(q)) => \A q \in Pids : NoToken(q)'
  BY <1>0, KeptToken, PassedToken
<1>3. GapInv'
  BY <1>0, <1>2, MovesGap
<1> QED
  BY <1>1, <1>2, <1>3 DEF HInv

(* The token dies with its holder, and the socket of a dead process is     *)
(* empty.                                                                  *)
LEMMA DeathKeeps ==
    ASSUME HInv, NEW p \in Pids, Alive(p),
           emu' = [emu EXCEPT ![p].proc = "dead", ![p].engine = "off"],
           inbox' = [inbox EXCEPT ![p] = <<>>],
           bound' \in {bound, Unlinked(p)}, tlp' = tlp
    PROVE  HInv'
<1>0. TypeInv /\ ProcInv /\ TokenInv /\ RoleInv /\ GapInv
  BY DEF HInv
<1>1. /\ emu' = [q \in Pids |-> emu'[q]]
      /\ \A q \in Pids \ {p} : emu'[q] = emu[q]
      /\ DOMAIN emu'[p] = Fields
      /\ emu'[p].proc = "dead" /\ emu'[p].engine = "off"
      /\ emu'[p].role = emu[p].role /\ emu'[p].phase = emu[p].phase
  BY Zenon, <1>0 DEF TypeInv, Fields
<1>2. /\ inbox' = [q \in Pids \cup {TLP} |-> inbox'[q]]
      /\ \A q \in Pids \ {p} : inbox'[q] = inbox[q]
      /\ inbox'[p] = <<>>
  BY Zenon, <1>0 DEF TypeInv
<1>3. /\ bound' \in [{"SRC", "DST"} -> Pids \cup {None}]
      /\ bound'["SRC"] \in {bound["SRC"], None}
  BY <1>0 DEF TypeInv, Unlinked
<1>4. TypeInv'
  <2>1. IsSeq(<<>>)
    BY DEF IsSeq
  <2>2. \A q \in Pids : IsSeq(inbox'[q]) /\ DOMAIN emu'[q] = Fields
    BY <1>0, <1>1, <1>2, <2>1 DEF TypeInv
  <2> QED
    BY Zenon, <1>0, <1>1, <1>2, <1>3, <2>2 DEF TypeInv
<1>5. ~Alive(p)' /\ \A q \in Pids \ {p} : Alive(q)' <=> Alive(q)
  BY Zenon, <1>1 DEF Alive
<1>6. ProcInv'
  BY Zenon, <1>0, <1>1, <1>2, <1>5 DEF ProcInv
<1>7. NoToken(p)' /\ \A q \in Pids \ {p} : NoToken(q)' <=> NoToken(q)
  <2>1. ~Holds(p)' /\ Tokens(inbox'[p]) = {}
    BY <1>2, <1>5 DEF Holds, Tokens
  <2>2. \A q \in Pids \ {p} : Holds(q)' <=> Holds(q)
    BY Zenon, <1>1, <1>5 DEF Holds, Serving
  <2> QED
    BY <1>2, <2>1, <2>2 DEF NoToken
<1>8. TokenInv'
  <2>1. \A q \in Pids \ {p} : (Holds(q)' <=> Holds(q)) /\ inbox'[q] = inbox[q]
    BY Zenon, <1>1, <1>2, <1>5 DEF Holds, Serving
  <2>2. Tokens(inbox'[p]) = {}
    BY <1>2 DEF Tokens
  <2>3. ASSUME NEW q \in Pids
        PROVE  /\ Holds(q)' => Tokens(inbox'[q]) = {}
               /\ \A i, j \in Tokens(inbox'[q]) : i = j
    <3>1. CASE q = p
      BY <2>2, <3>1
    <3>2. CASE q # p
      BY Zenon, <1>0, <2>1, <3>2 DEF TokenInv
    <3> QED
      BY <3>1, <3>2
  <2>4. \A q \in Pids : NoToken(q)' \/ \A r \in Pids \ {q} : NoToken(r)'
    <3>1. \A q \in Pids : NoToken(q) \/ \A r \in Pids \ {q} : NoToken(r)
      BY <1>0 DEF TokenInv
    <3> QED
      BY <1>7, <3>1
  <2> QED
    BY Zenon, <2>3, <2>4 DEF TokenInv
<1>9. RoleInv'
  <2>1. bound'["SRC"] # None =>
          emu'[bound'["SRC"]].role = "SRC" /\ emu'[bound'["SRC"]].proc # "unborn"
    <3> SUFFICES ASSUME bound'["SRC"] # None
                 PROVE  emu'[bound'["SRC"]].role = "SRC"
                        /\ emu'[bound'["SRC"]].proc # "unborn"
      OBVIOUS
    <3>1. bound'["SRC"] = bound["SRC"] /\ bound["SRC"] \in Pids
      BY <1>0, <1>3 DEF TypeInv
    <3>2. emu[bound["SRC"]].role = "SRC" /\ emu[bound["SRC"]].proc # "unborn"
      BY <1>0, <3>1 DEF RoleInv
    <3>3. CASE bound["SRC"] = p
      BY <1>1, <3>1, <3>2, <3>3
    <3>4. CASE bound["SRC"] # p
      BY Zenon, <1>1, <3>1, <3>2, <3>4
    <3> QED
      BY <3>3, <3>4
  <2>2. \A q \in Pids :
          /\ emu'[q].role = "DST" => emu'[q].engine # "draining"
          /\ Alive(q)' /\ emu'[q].phase = "DST_RESUMING" =>
               emu'[q].role = "DST" /\ emu'[q].engine = "on" /\ emu'[q].proc = "run"
    BY Zenon, <1>0, <1>1, <1>5 DEF RoleInv
  <2> QED
    BY Zenon, <2>1, <2>2 DEF RoleInv
<1>10. GapInv'
  <2> SUFFICES ASSUME NEW s \in Pids, Leaving(s)'
               PROVE  emu'[s].role = "SRC" /\ TakenOver(s)'
    BY Zenon DEF GapInv
  <2>1. s # p /\ Leaving(s) /\ emu'[s].role = emu[s].role
    BY Zenon, <1>1, <1>2, <1>5 DEF Leaving, Has
  <2>2. PICK r \in Pids \ {s} :
          \/ emu[r].proc \in {"run", "quit"} /\ emu[r].engine = "on" /\ ~Has(r, "HO_BEGIN")
          \/ emu[r].proc \in {"dead", "reaped"} /\ \A q \in Pids : NoToken(q)
    BY <1>0, <2>1 DEF GapInv, TakenOver
  <2>3. emu'[s].role = "SRC"
    BY <1>0, <2>1 DEF GapInv
  <2>4. CASE emu[r].proc \in {"dead", "reaped"} /\ \A q \in Pids : NoToken(q)
    <3>1. r # p
      BY <2>4 DEF Alive
    <3> QED
      BY Zenon, <1>1, <1>7, <2>3, <2>4, <3>1 DEF TakenOver
  <2>5. CASE /\ r # p
             /\ emu[r].proc \in {"run", "quit"} /\ emu[r].engine = "on" /\ ~Has(r, "HO_BEGIN")
    <3>1. ~Has(r, "HO_BEGIN")'
      BY <1>2, <2>5 DEF Has
    <3> QED
      BY Zenon, <1>1, <2>3, <2>5, <3>1 DEF TakenOver
  <2>6. CASE r = p /\ emu[r].engine = "on"
    <3>1. ~NoToken(p)
      BY <2>6 DEF NoToken, Holds, Serving
    <3>2. \A q \in Pids : NoToken(q)'
      BY <1>0, <1>7, <3>1 DEF TokenInv
    <3> QED
      BY Zenon, <1>1, <2>3, <2>6, <3>2 DEF TakenOver
  <2> QED
    BY <2>2, <2>4, <2>5, <2>6
<1> QED
  BY <1>4, <1>6, <1>8, <1>9, <1>10 DEF HInv

(* The TLP process reaps dead emulators and sends datagrams that are none  *)
(* of the handover's.                                                      *)
Reaps ==
    /\ emu' = [q \in Pids |-> emu'[q]]
    /\ \A q \in Pids :
         \/ emu'[q] = emu[q]
         \/ emu[q].proc = "dead" /\ emu'[q] = [emu[q] EXCEPT !.proc = "reaped"]

Informs ==
    /\ inbox' = [q \in Pids \cup {TLP} |-> inbox'[q]]
    /\ \A q \in Pids :
         /\ IsSeq(inbox'[q])
         /\ ~Alive(q) => inbox'[q] = inbox[q]
         /\ \A i \in DOMAIN inbox'[q] :
              \/ i \in DOMAIN inbox[q] /\ inbox'[q][i] = inbox[q][i]
              \/ inbox'[q][i].type \in {"RECOVERY_STATE", "STATE_UPDATE", "HO_DEVICE"}

TlpOk ==
    /\ tlp'.src \in Pids \cup {None} /\ tlp'.dst \in Pids \cup {None}
    /\ DOMAIN tlp' = {"src", "dst", "lu", "awaiting", "desc", "bin", "pc"}
    /\ ~tlp'.lu => tlp'.dst = None
    /\ \A q \in Pids : Alive(q)' => q \in {tlp'.src, tlp'.dst}

(* What the TLP process does without spawning keeps the invariant. *)
LEMMA TlpKeeps ==
    ASSUME HInv, Reaps, Informs, TlpOk, bound' = bound
    PROVE  HInv'
<1>0. TypeInv /\ ProcInv /\ TokenInv /\ RoleInv /\ GapInv
  BY DEF HInv
<1>1. ASSUME NEW q \in Pids
      PROVE  /\ DOMAIN emu'[q] = Fields
             /\ emu'[q].engine = emu[q].engine
             /\ emu'[q].role = emu[q].role /\ emu'[q].phase = emu[q].phase
             /\ emu'[q].proc = emu[q].proc \/ (emu[q].proc = "dead" /\ emu'[q].proc = "reaped")
  <2>1. DOMAIN emu[q] = Fields
    BY <1>0 DEF TypeInv
  <2>2. CASE emu'[q] = emu[q]
    BY <2>1, <2>2
  <2>3. CASE emu[q].proc = "dead" /\ emu'[q] = [emu[q] EXCEPT !.proc = "reaped"]
    BY <2>1, <2>3 DEF Fields
  <2> QED
    BY <2>2, <2>3 DEF Reaps
<1>2. \A q \in Pids : Alive(q)' <=> Alive(q)
  BY <1>1 DEF Alive
<1>3. TypeInv'
  BY <1>0, <1>1 DEF TypeInv, Reaps, Informs, TlpOk
<1>4. ProcInv'
  BY <1>0, <1>1, <1>2 DEF ProcInv, Informs, TlpOk
<1>5. \A q \in Pids : Holds(q)' <=> Holds(q)
  <2> SUFFICES ASSUME NEW q \in Pids PROVE Holds(q)' <=> Holds(q)
    OBVIOUS
  <2> QED
    BY <1>1, <1>2 DEF Holds, Serving, Alive
<1>6. \A q \in Pids : Tokens(inbox'[q]) \subseteq Tokens(inbox[q])
  BY DEF Informs, Tokens, TokenTypes
<1>7. TokenInv' /\ \A q \in Pids : NoToken(q) => NoToken(q)'
  BY Zenon, <1>0, <1>5, <1>6 DEF TokenInv, NoToken
<1>8. RoleInv'
  <2>1. bound["SRC"] # None =>
          emu'[bound["SRC"]].role = "SRC" /\ emu'[bound["SRC"]].proc # "unborn"
    BY <1>0, <1>1 DEF RoleInv, TypeInv
  <2> QED
    BY <1>0, <1>1, <1>2, <2>1 DEF RoleInv, Alive
<1>9. \A q \in Pids : \A type \in {"HO_BEGIN", "HO_END_SUCCESS"} :
        Has(q, type)' => Has(q, type)
  BY DEF Has, Informs
<1>10. GapInv'
  <2> SUFFICES ASSUME NEW s \in Pids, Leaving(s)'
               PROVE  emu'[s].role = "SRC" /\ TakenOver(s)'
    BY DEF GapInv
  <2>1. Leaving(s)
    BY <1>1, <1>2, <1>9 DEF Leaving
  <2>2. emu'[s].role = "SRC" /\ TakenOver(s)
    BY <1>0, <1>1, <2>1 DEF GapInv
  <2>3. PICK r \in Pids \ {s} :
          \/ emu[r].proc \in {"run", "quit"} /\ emu[r].engine = "on" /\ ~Has(r, "HO_BEGIN")
          \/ emu[r].proc \in {"dead", "reaped"} /\ \A q \in Pids : NoToken(q)
    BY <2>2 DEF TakenOver
  <2>4. \/ emu'[r].proc \in {"run", "quit"} /\ emu'[r].engine = "on" /\ ~Has(r, "HO_BEGIN")'
        \/ emu'[r].proc \in {"dead", "reaped"} /\ \A q \in Pids : NoToken(q)'
    BY <1>1, <1>7, <1>9, <2>3
  <2> QED
    BY <2>2, <2>4 DEF TakenOver
<1> QED
  BY <1>3, <1>4, <1>7, <1>8, <1>10 DEF HInv

(* A process is spawned: a source only when no emulator is alive. *)
LEMMA SpawnKeeps ==
    ASSUME HInv, NEW p \in Pids, NEW role \in {"SRC", "DST"}, NEW bin,
           emu[p].proc = "unborn",
           role = "SRC" => \A q \in Pids : ~Alive(q),
           emu' = [q \in Pids |-> emu'[q]],
           emu'[p] = Spawn(role, bin),
           \A q \in Pids \ {p} :
             \/ emu'[q] = emu[q]
             \/ emu[q].proc = "dead" /\ emu'[q] = [emu[q] EXCEPT !.proc = "reaped"],
           inbox' = [q \in Pids \cup {TLP} |-> inbox'[q]],
           \A q \in Pids : inbox'[q] = inbox[q],
           bound' = bound, TlpOk
    PROVE  HInv'
<1>0. TypeInv /\ ProcInv /\ TokenInv /\ RoleInv /\ GapInv
  BY DEF HInv
<1>1. ASSUME NEW q \in Pids \ {p}
      PROVE  /\ DOMAIN emu'[q] = Fields
             /\ emu'[q].engine = emu[q].engine
             /\ emu'[q].role = emu[q].role /\ emu'[q].phase = emu[q].phase
             /\ emu'[q].proc = emu[q].proc \/ (emu[q].proc = "dead" /\ emu'[q].proc = "reaped")
  <2>1. DOMAIN emu[q] = Fields
    BY <1>0 DEF TypeInv
  <2>2. CASE emu'[q] = emu[q]
    BY <2>1, <2>2
  <2>3. CASE emu[q].proc = "dead" /\ emu'[q] = [emu[q] EXCEPT !.proc = "reaped"]
    BY <2>1, <2>3 DEF Fields
  <2> QED
    BY <2>2, <2>3
<1>2. /\ DOMAIN emu'[p] = Fields
      /\ emu'[p].engine = "off" /\ emu'[p].role = role
      /\ emu'[p].phase = "IDLE" /\ emu'[p].proc = "start"
  BY DEF Spawn, Unborn, Fields
<1>3. ~Alive(p) /\ Alive(p)' /\ \A q \in Pids \ {p} : Alive(q)' <=> Alive(q)
  BY <1>1, <1>2 DEF Alive
<1>4. inbox[p] = <<>>
  BY <1>0, <1>3 DEF ProcInv
<1>5. TypeInv'
  <2>1. \A q \in Pids : DOMAIN emu'[q] = Fields
    BY <1>1, <1>2
  <2> QED
    BY <1>0, <2>1 DEF TypeInv, TlpOk
<1>6. ProcInv'
  BY <1>0, <1>1, <1>3 DEF ProcInv, TlpOk
<1>7. \A q \in Pids \ {p} : Holds(q)' <=> Holds(q)
  <2> SUFFICES ASSUME NEW q \in Pids \ {p} PROVE Holds(q)' <=> Holds(q)
    OBVIOUS
  <2> QED
    BY <1>1, <1>3 DEF Holds, Serving, Alive
<1>8. Tokens(inbox'[p]) = {}
  BY <1>4 DEF Tokens
<1>9. \A q \in Pids \ {p} : NoToken(q)' <=> NoToken(q)
  BY <1>7 DEF NoToken
<1>10. role = "DST" => NoToken(p)'
  BY <1>2, <1>8 DEF NoToken, Holds, Serving
<1>11. role = "SRC" => \A q \in Pids : NoToken(q)
  <2> SUFFICES ASSUME role = "SRC", NEW q \in Pids PROVE NoToken(q)
    OBVIOUS
  <2>1. ~Alive(q) /\ inbox[q] = <<>>
    BY <1>0 DEF ProcInv
  <2> QED
    BY <2>1 DEF NoToken, Holds, Tokens
<1>12. TokenInv'
  <2>1. ASSUME NEW q \in Pids
        PROVE  /\ Holds(q)' => Tokens(inbox'[q]) = {}
               /\ \A i, j \in Tokens(inbox'[q]) : i = j
    <3>1. CASE q = p
      BY <1>8, <3>1
    <3>2. CASE q # p
      BY <1>0, <1>7, <3>2 DEF TokenInv
    <3> QED
      BY <3>1, <3>2
  <2>2. \A q \in Pids : NoToken(q)' \/ \A r \in Pids \ {q} : NoToken(r)'
    <3>1. \A q \in Pids : NoToken(q) \/ \A r \in Pids \ {q} : NoToken(r)
      BY <1>0 DEF TokenInv
    <3>2. CASE role = "SRC"
      BY <1>9, <1>11, <3>2
    <3>3. CASE role = "DST"
      BY <1>9, <1>10, <3>1, <3>3
    <3> QED
      BY <3>2, <3>3
  <2> QED
    BY <2>1, <2>2 DEF TokenInv
<1>13. RoleInv'
  <2>1. bound["SRC"] # None =>
          emu'[bound["SRC"]].role = "SRC" /\ emu'[bound["SRC"]].proc # "unborn"
    BY <1>0, <1>1 DEF RoleInv, TypeInv
  <2>2. ASSUME NEW q \in Pids
        PROVE  /\ emu'[q].role = "DST" => emu'[q].engine # "draining"
               /\ Alive(q)' /\ emu'[q].phase = "DST_RESUMING" =>
                    emu'[q].role = "DST" /\ emu'[q].engine = "on" /\ emu'[q].proc = "run"
    <3>1. CASE q = p
      BY <1>2, <3>1
    <3>2. CASE q # p
      BY <1>0, <1>1, <1>3, <3>2 DEF RoleInv, Alive
    <3> QED
      BY <3>1, <3>2
  <2> QED
    BY <2>1, <2>2 DEF RoleInv
<1>14. GapInv'
  <2> SUFFICES ASSUME NEW s \in Pids, Leaving(s)'
               PROVE  emu'[s].role = "SRC" /\ TakenOver(s)'
    BY DEF GapInv
  <2>1. s # p
    BY <1>2, <1>4 DEF Leaving, Has
  <2>2. Leaving(s)
    BY <1>1, <1>3, <2>1 DEF Leaving, Has
  <2>3. role = "DST"
    BY <2>2 DEF Leaving
  <2>4. emu'[s].role = "SRC" /\ TakenOver(s)
    BY <1>0, <1>1, <2>1, <2>2 DEF GapInv
  <2>5. PICK r \in Pids \ {s} :
          \/ emu[r].proc \in {"run", "quit"} /\ emu[r].engine = "on" /\ ~Has(r, "HO_BEGIN")
          \/ emu[r].proc \in {"dead", "reaped"} /\ \A q \in Pids : NoToken(q)
    BY <2>4 DEF TakenOver
  <2>6. r # p
    BY <2>5
  <2>7. Has(r, "HO_BEGIN")' <=> Has(r, "HO_BEGIN")
    BY DEF Has
  <2>8. (\A q \in Pids : NoToken(q)) => \A q \in Pids : NoToken(q)'
    BY <1>9, <1>10, <2>3
  <2>9. \/ emu'[r].proc \in {"run", "quit"} /\ emu'[r].engine = "on" /\ ~Has(r, "HO_BEGIN")'
        \/ emu'[r].proc \in {"dead", "reaped"} /\ \A q \in Pids : NoToken(q)'
    BY <1>1, <2>5, <2>6, <2>7, <2>8
  <2> QED
    BY <2>4, <2>9 DEF TakenOver
<1> QED
  BY <1>5, <1>6, <1>12, <1>13, <1>14 DEF HInv

-----------------------------------------------------------------------------
(* The forms in which the actions receive and send. *)

(* A step that at most sends to the TLP process delivers nothing to an     *)
(* emulator.                                                               *)
LEMMA StayFacts ==
    ASSUME TypeInv, NEW p \in Pids, NEW path, NEW t, NEW x,
           inbox' = inbox \/ inbox' = [inbox EXCEPT ![TLP] = x]
    PROVE  Delivers(p, FALSE, path, t)
<1>1. TLP \notin Pids
  BY DEF TLP, Pids
<1>2. /\ inbox' = [q \in Pids \cup {TLP} |-> inbox'[q]]
      /\ \A q \in Pids : inbox'[q] = inbox[q]
  BY <1>1 DEF TypeInv
<1> QED
  BY <1>2 DEF Delivers, Rest

(* A step that takes a datagram, and at most sends to the TLP process,     *)
(* delivers nothing to an emulator.                                        *)
LEMMA PopFacts ==
    ASSUME TypeInv, NEW p \in Pids, NEW path, NEW t, NEW x, inbox[p] # <<>>,
           inbox' = Popped(p) \/ inbox' = [Popped(p) EXCEPT ![TLP] = x]
    PROVE  Delivers(p, TRUE, path, t)
<1>1. TLP \notin Pids
  BY DEF TLP, Pids
<1>2. /\ inbox' = [q \in Pids \cup {TLP} |-> inbox'[q]]
      /\ \A q \in Pids : inbox'[q] = IF q = p THEN Tail(inbox[q]) ELSE inbox[q]
  BY Zenon, <1>1 DEF TypeInv, Popped
<1> QED
  BY <1>2 DEF Delivers, Rest

(* ipc_send delivers one datagram to whoever is bound to the path and      *)
(* alive.                                                                  *)
LEMMA SendFacts ==
    ASSUME TypeInv, NEW p \in Pids, NEW path \in {"SRC", "DST"}, NEW t,
           inbox' = Sent(inbox, path, <<Msg(t)>>)
    PROVE  Delivers(p, FALSE, path, t)
<1>1. CASE bound[path] # None /\ Alive(bound[path])
  <2>1. bound[path] \in Pids
    BY <1>1 DEF TypeInv
  <2>2. inbox' = [inbox EXCEPT ![bound[path]] = inbox[bound[path]] \o <<Msg(t)>>]
    BY <1>1, <2>1 DEF Sent, TypeInv
  <2>3. /\ inbox' = [q \in Pids \cup {TLP} |-> inbox'[q]]
        /\ \A q \in Pids :
             inbox'[q] = IF q = bound[path] THEN inbox[q] \o <<Msg(t)>> ELSE inbox[q]
    BY Zenon, <2>1, <2>2 DEF TypeInv
  <2> QED
    BY Zenon, <1>1, <2>3 DEF Delivers, Rest
<1>2. CASE ~(bound[path] # None /\ Alive(bound[path]))
  BY Zenon, <1>2 DEF Sent, TypeInv, Delivers, Rest
<1> QED
  BY Zenon, <1>1, <1>2

(* So does a handler that has taken a datagram before it sends. *)
LEMMA ReplyFacts ==
    ASSUME TypeInv, NEW p \in Pids, NEW path \in {"SRC", "DST"}, NEW t,
           inbox[p] # <<>>,
           inbox' = Sent(Popped(p), path, <<Msg(t)>>)
    PROVE  Delivers(p, TRUE, path, t)
<1>0. /\ Popped(p) = [q \in Pids \cup {TLP} |-> Popped(p)[q]]
      /\ \A q \in Pids : Popped(p)[q] = Rest(p, q, TRUE)
  BY Zenon DEF TypeInv, Popped, Rest
<1>1. CASE bound[path] # None /\ Alive(bound[path])
  <2>1. bound[path] \in Pids
    BY <1>1 DEF TypeInv
  <2> DEFINE b == Popped(p)
  <2>2. inbox' = [b EXCEPT ![bound[path]] = b[bound[path]] \o <<Msg(t)>>]
    BY <1>0, <1>1, <2>1 DEF Sent
  <2>3. b = [q \in Pids \cup {TLP} |-> b[q]] /\ \A q \in Pids : b[q] = Rest(p, q, TRUE)
    BY Zenon, <1>0
  <2> HIDE DEF b
  <2>4. /\ inbox' = [q \in Pids \cup {TLP} |-> inbox'[q]]
        /\ \A q \in Pids :
             inbox'[q] = IF q = bound[path] THEN b[q] \o <<Msg(t)>> ELSE b[q]
    BY Zenon, <2>1, <2>2, <2>3
  <2> QED
    BY Zenon, <1>1, <2>3, <2>4 DEF Delivers
<1>2. CASE ~(bound[path] # None /\ Alive(bound[path]))
  BY Zenon, <1>0, <1>2 DEF Sent, Delivers
<1> QED
  BY Zenon, <1>1, <1>2

-----------------------------------------------------------------------------
(* Most steps are quiet: the engine stays as it is, nobody's role changes, *)
(* and the phase is not one of those that the invariants speak of.         *)
Quiet(p) ==
    /\ emu'[p].engine = emu[p].engine /\ emu'[p].role = emu[p].role
    /\ \/ emu'[p].phase = emu[p].phase
       \/ emu'[p].phase \in {"SETUP", "WAIT_DEVICE", "GET_STATE", "SWITCHOVER",
                             "FAILED", "IDLE"}
       \/ emu'[p].phase = "DONE" /\ emu[p].role = "DST"
    /\ \/ emu'[p].proc = emu[p].proc
       \/ emu[p].proc = "start" /\ emu'[p].proc = "request"
       \/ emu[p].proc = "request" /\ emu'[p].proc = "boot"
       \/ emu[p].proc = "boot" /\ emu'[p].proc = "run" /\ emu[p].role = "DST"
       \/ /\ emu[p].proc = "run" /\ emu'[p].proc = "quit"
          /\ emu[p].phase = "DONE" /\ emu'[p].phase = "DONE"

(* A step of process p that is silent about the device keeps the           *)
(* invariant.                                                              *)
LEMMA QuietKeeps ==
    ASSUME HInv, NEW p \in Pids, NEW taken \in BOOLEAN,
           NEW path \in {"SRC", "DST"}, NEW t,
           Alive(p), Changed(p), Quiet(p), Delivers(p, taken, path, t),
           t \notin TokenTypes \cup {"HO_END_SUCCESS"},
           t = "HO_BEGIN" => emu[p].role = "DST" /\ emu[p].proc = "boot",
           tlp' = tlp,
           bound' \in [{"SRC", "DST"} -> Pids \cup {None}],
           bound'["SRC"] = bound["SRC"] \/ (bound'["SRC"] = p /\ emu[p].role = "SRC")
    PROVE  HInv'
<1>0. RoleInv
  BY DEF HInv
<1>1. Alive(p)'
  BY DEF Quiet, Alive
<1>2. Moves(p, taken, path, t)
  BY <1>1 DEF Moves
<1>3. TokenKept(p, taken, t)
  <2>1. Holds(p)' => Holds(p)
    BY DEF Quiet, Holds, Serving
  <2> QED
    BY <2>1 DEF TokenKept
<1>4. RoleKept(p)
  <2>1. bound'["SRC"] = p => emu[p].role = "SRC"
    BY <1>0 DEF RoleInv, None, Pids
  <2>2. emu'[p].phase = "DST_RESUMING" =>
          emu'[p].role = "DST" /\ emu'[p].engine = "on" /\ emu'[p].proc = "run"
    BY <1>0 DEF RoleInv, Quiet
  <2>3. emu'[p].role = "DST" => emu'[p].engine # "draining"
    BY Zenon, <1>0 DEF RoleInv, Quiet
  <2> QED
    BY <2>1, <2>2, <2>3 DEF RoleKept, Quiet
<1>5. ServiceKept(p, taken, path, t)
  BY DEF ServiceKept, Quiet
<1> QED
  BY <1>2, <1>3, <1>4, <1>5, MoveKeeps

(* Start-up. *)

(* The source asks the TLP process for the device. *)
LEMMA SrcStartKeeps ==
    ASSUME HInv, NEW p \in Pids, SrcStart(p)
    PROVE  HInv'
<1>0. TypeInv
  BY DEF HInv
<1>1. Changed(p) /\ Quiet(p) /\ Alive(p)
  BY <1>0 DEF SrcStart, Set, TypeInv, Fields, Changed, Quiet, Alive
<1>2. Delivers(p, FALSE, "SRC", "HO_SETUP")
  BY Zenon, <1>0, StayFacts DEF SrcStart, ToTlp
<1>3. /\ bound' \in [{"SRC", "DST"} -> Pids \cup {None}]
      /\ bound'["SRC"] = p /\ emu[p].role = "SRC" /\ tlp' = tlp
  BY <1>0 DEF SrcStart, TypeInv
<1> QED
  BY Zenon, <1>1, <1>2, <1>3, QuietKeeps DEF TokenTypes

(* The source is told the state that the controller starts from. *)
LEMMA SrcInitialStateKeeps ==
    ASSUME HInv, NEW p \in Pids, SrcInitialState(p)
    PROVE  HInv'
<1>0. TypeInv
  BY DEF HInv
<1>1. \/ UNCHANGED emu
      \/ Set(p, [desc |-> Head(inbox[p]).desc])
      \/ Set(p, [proc |-> "boot"])
  BY DEF SrcInitialState
<1>2. Changed(p) /\ Quiet(p) /\ Alive(p)
  <2>1. emu[p].proc = "request"
    BY DEF SrcInitialState
  <2>2. CASE UNCHANGED emu
    BY <1>0, <2>1, <2>2 DEF TypeInv, Changed, Quiet, Alive
  <2>3. CASE Set(p, [desc |-> Head(inbox[p]).desc])
    BY <1>0, <2>1, <2>3 DEF Set, TypeInv, Fields, Changed, Quiet, Alive
  <2>4. CASE Set(p, [proc |-> "boot"])
    BY <1>0, <2>1, <2>4 DEF Set, TypeInv, Fields, Changed, Quiet, Alive
  <2> QED
    BY <1>1, <2>2, <2>3, <2>4
<1>3. Delivers(p, TRUE, "SRC", "HO_SETUP")
  BY Zenon, <1>0, PopFacts DEF SrcInitialState
<1>4. bound' = bound /\ tlp' = tlp
  BY DEF SrcInitialState
<1> QED
  BY Zenon, <1>0, <1>2, <1>3, <1>4, QuietKeeps DEF TokenTypes, TypeInv

(* A source that boots already holds the token. *)
LEMMA SrcBootKeeps ==
    ASSUME HInv, NEW p \in Pids, SrcBoot(p)
    PROVE  HInv'
<1>0. TypeInv /\ RoleInv
  BY DEF HInv
<1>1. /\ Changed(p) /\ Alive(p) /\ Alive(p)'
      /\ emu[p].proc = "boot" /\ emu[p].role = "SRC"
      /\ emu'[p].proc = "run" /\ emu'[p].engine = "on"
      /\ emu'[p].role = "SRC" /\ emu'[p].phase = emu[p].phase
  BY Zenon, <1>0 DEF SrcBoot, Set, TypeInv, Fields, Changed, Alive
<1>2. Delivers(p, FALSE, "SRC", "HO_SETUP")
  BY Zenon, <1>0, StayFacts DEF SrcBoot
<1>3. bound' = bound /\ tlp' = tlp
  BY DEF SrcBoot
<1>4. Moves(p, FALSE, "SRC", "HO_SETUP")
  BY Zenon, <1>0, <1>1, <1>2, <1>3 DEF Moves, TypeInv
<1>5. TokenKept(p, FALSE, "HO_SETUP")
  BY <1>1 DEF TokenKept, TokenTypes, Holds
<1>6. emu[p].phase # "DST_RESUMING"
  BY <1>0, <1>1 DEF RoleInv
<1>7. RoleKept(p) /\ ServiceKept(p, FALSE, "SRC", "HO_SETUP")
  BY Zenon, <1>1, <1>6 DEF RoleKept, ServiceKept
<1> QED
  BY Zenon, <1>4, <1>5, <1>7, MoveKeeps

(* The destination binds its path and asks for the device. *)
LEMMA DstStartKeeps ==
    ASSUME HInv, NEW p \in Pids, DstStart(p)
    PROVE  HInv'
<1>0. TypeInv
  BY DEF HInv
<1>1. Changed(p) /\ Quiet(p) /\ Alive(p)
  BY Zenon, <1>0 DEF DstStart, Set, TypeInv, Fields, Changed, Quiet, Alive
<1>2. Delivers(p, FALSE, "SRC", "HO_SETUP")
  BY Zenon, <1>0, SendFacts DEF DstStart
<1>3. /\ bound' \in [{"SRC", "DST"} -> Pids \cup {None}]
      /\ bound'["SRC"] = bound["SRC"] /\ tlp' = tlp
  BY <1>0 DEF DstStart, TypeInv
<1> QED
  BY Zenon, <1>1, <1>2, <1>3, QuietKeeps DEF TokenTypes

(* The destination prepares: it is given the device and the state of the   *)
(* source's controller, or gives up.                                       *)
LEMMA DstInitialStateKeeps ==
    ASSUME HInv, NEW p \in Pids, DstInitialState(p)
    PROVE  HInv'
<1>0. TypeInv
  BY DEF HInv
<1>1. emu[p].proc = "request" /\ inbox[p] # <<>> /\ bound' = bound /\ tlp' = tlp
  BY DEF DstInitialState
<1>2. \/ UNCHANGED emu
      \/ \E x \in {"WAIT_DEVICE", "GET_STATE", "FAILED"} : Set(p, [phase |-> x])
      \/ Set(p, [phase |-> "SWITCHOVER", proc |-> "boot"])
  BY DEF DstInitialState
<1>3. Changed(p) /\ Quiet(p) /\ Alive(p)
  <2>1. CASE UNCHANGED emu
    BY <1>0, <1>1, <2>1 DEF TypeInv, Changed, Quiet, Alive
  <2>2. CASE Set(p, [phase |-> "SWITCHOVER", proc |-> "boot"])
    BY <1>0, <1>1, <2>2 DEF Set, TypeInv, Fields, Changed, Quiet, Alive
  <2>3. ASSUME NEW x \in {"WAIT_DEVICE", "GET_STATE", "FAILED"}, Set(p, [phase |-> x])
        PROVE  Changed(p) /\ Quiet(p) /\ Alive(p)
    BY <1>0, <1>1, <2>3 DEF Set, TypeInv, Fields, Changed, Quiet, Alive
  <2> QED
    BY <1>2, <2>1, <2>2, <2>3
<1>4. Delivers(p, TRUE, "SRC", "HO_GET_STATE")
  <2>1. \/ inbox' = Popped(p)
        \/ inbox' = ToTlp(Popped(p), Msg("HO_INITIATE_ACK"))
        \/ inbox' = Sent(Popped(p), "SRC", <<Msg("HO_GET_STATE")>>)
    BY DEF DstInitialState
  <2> QED
    BY Zenon, <1>0, <1>1, <2>1, PopFacts, ReplyFacts DEF ToTlp
<1> QED
  BY Zenon, <1>0, <1>1, <1>3, <1>4, QuietKeeps DEF TokenTypes, TypeInv

(* The destination asks the source to begin: BEGIN is no token. *)
LEMMA DstBeginKeeps ==
    ASSUME HInv, NEW p \in Pids, DstBegin(p)
    PROVE  HInv'
<1>0. TypeInv
  BY DEF HInv
<1>1. Changed(p) /\ Quiet(p) /\ Alive(p)
  BY Zenon, <1>0 DEF DstBegin, Set, TypeInv, Fields, Changed, Quiet, Alive
<1>2. Delivers(p, FALSE, "SRC", "HO_BEGIN")
  BY Zenon, <1>0, SendFacts DEF DstBegin
<1>3. /\ bound' = bound /\ tlp' = tlp
      /\ emu[p].role = "DST" /\ emu[p].proc = "boot"
  BY DEF DstBegin
<1> QED
  BY Zenon, <1>0, <1>1, <1>2, <1>3, QuietKeeps DEF TokenTypes, TypeInv

(* The destination's main thread notes that the switchover has begun. *)
LEMMA DstBegunKeeps ==
    ASSUME HInv, NEW p \in Pids, DstBegun(p)
    PROVE  HInv'
<1>0. TypeInv
  BY DEF HInv
<1>1. Changed(p) /\ Quiet(p) /\ Alive(p)
  BY <1>0 DEF DstBegun, Set, TypeInv, Fields, Changed, Quiet, Alive
<1>2. Delivers(p, FALSE, "SRC", "HO_SETUP")
  BY Zenon, <1>0, StayFacts DEF DstBegun
<1>3. bound' = bound /\ tlp' = tlp
  BY DEF DstBegun
<1> QED
  BY Zenon, <1>0, <1>1, <1>2, <1>3, QuietKeeps DEF TokenTypes, TypeInv

(* The handlers of a source. *)

(* The handover messages that are answered without touching the engine. *)
LEMMA QuietReply ==
    ASSUME HInv, NEW p \in Pids, emu[p].proc = "run", inbox[p] # <<>>,
           bound' = bound, tlp' = tlp,
           NEW x \in {"WAIT_DEVICE", "SWITCHOVER", "FAILED", "IDLE"},
           Set(p, [phase |-> x]),
           NEW m \in {"HO_SETUP_ACK", "HO_GET_STATE_ACK", "HO_GET_STATE_NACK",
                      "HO_BEGIN_NACK", "HO_END_NACK"},
           inbox' = Popped(p) \/ inbox' = Reply(p, m)
    PROVE  HInv'
<1>0. TypeInv
  BY DEF HInv
<1>1. Changed(p) /\ Quiet(p) /\ Alive(p)
  BY <1>0 DEF Set, TypeInv, Fields, Changed, Quiet, Alive
<1>2. PeerPath(p) \in {"SRC", "DST"}
  BY DEF PeerPath
<1>3. Delivers(p, TRUE, PeerPath(p), m)
  BY Zenon, <1>0, <1>2, PopFacts, ReplyFacts DEF Reply
<1> QED
  BY Zenon, <1>0, <1>1, <1>2, <1>3, QuietKeeps DEF TokenTypes, TypeInv

(* BEGIN: the source disables its engine and, at once or when it is        *)
(* drained, passes the token with BEGIN_ACK.                               *)
LEMMA SrcBeginKeeps ==
    ASSUME HInv, NEW p \in Pids, emu[p].proc = "run", inbox[p] # <<>>,
           emu[p].role = "SRC", Head(inbox[p]).type = "HO_BEGIN",
           bound' = bound, tlp' = tlp, SrcBegin(p)
    PROVE  HInv'
<1>0. TypeInv
  BY DEF HInv
<1>1. PeerPath(p) \in {"SRC", "DST"}
  BY DEF PeerPath
<1>2. Took(p, TRUE, {"HO_BEGIN"})
  BY DEF Took
<1>3. CASE /\ emu[p].engine # "off"
           /\ Set(p, [phase |-> "CLEANUP", engine |-> "off"])
           /\ inbox' = Reply(p, "HO_BEGIN_ACK")
  <2>1. /\ Changed(p) /\ Alive(p) /\ Alive(p)'
        /\ emu'[p].proc = "run" /\ emu'[p].role = "SRC"
        /\ emu'[p].phase = "CLEANUP" /\ emu'[p].engine = "off"
    BY Zenon, <1>0, <1>3 DEF Set, TypeInv, Fields, Changed, Alive
  <2>2. Delivers(p, TRUE, PeerPath(p), "HO_BEGIN_ACK")
    BY Zenon, <1>0, <1>1, <1>3, ReplyFacts DEF Reply
  <2>3. Moves(p, TRUE, PeerPath(p), "HO_BEGIN_ACK")
    BY Zenon, <1>0, <2>1, <2>2 DEF Moves, TypeInv
  <2>4. TokenPassed(p, TRUE, "HO_BEGIN_ACK")
    BY Zenon, <1>3, <2>1 DEF TokenPassed, TokenTypes, Holds, Serving
  <2>5. RoleKept(p) /\ ServiceKept(p, TRUE, PeerPath(p), "HO_BEGIN_ACK")
    BY Zenon, <1>2, <2>1 DEF RoleKept, ServiceKept
  <2> QED
    BY Zenon, <2>3, <2>4, <2>5, MoveKeeps
<1>4. CASE /\ emu[p].engine # "off"
           /\ Set(p, [phase |-> "SRC_DRAINING", engine |-> "draining"])
           /\ inbox' = Popped(p)
  <2>1. /\ Changed(p) /\ Alive(p) /\ Alive(p)'
        /\ emu'[p].proc = "run" /\ emu'[p].role = "SRC"
        /\ emu'[p].phase = "SRC_DRAINING"
    BY Zenon, <1>0, <1>4 DEF Set, TypeInv, Fields, Changed, Alive
  <2>2. Delivers(p, TRUE, "SRC", "HO_SETUP")
    BY Zenon, <1>0, <1>4, PopFacts
  <2>3. Moves(p, TRUE, "SRC", "HO_SETUP")
    BY Zenon, <1>0, <2>1, <2>2 DEF Moves, TypeInv
  <2>4. TokenKept(p, TRUE, "HO_SETUP")
    BY Zenon, <1>4, <2>1 DEF TokenKept, TokenTypes, Holds, Serving
  <2>5. RoleKept(p) /\ ServiceKept(p, TRUE, "SRC", "HO_SETUP")
    BY Zenon, <1>2, <2>1 DEF RoleKept, ServiceKept
  <2> QED
    BY Zenon, <2>3, <2>4, <2>5, MoveKeeps
<1>5. CASE Set(p, [phase |-> "FAILED"]) /\ inbox' = Reply(p, "HO_BEGIN_NACK")
  BY <1>5, QuietReply
<1> QED
  BY <1>3, <1>4, <1>5 DEF SrcBegin

(* END: the source leaves when the destination has succeeded, and takes    *)
(* the token back when it has failed.                                      *)
LEMMA SrcEndKeeps ==
    ASSUME HInv, NEW p \in Pids, emu[p].proc = "run", inbox[p] # <<>>,
           emu[p].role = "SRC", bound' = bound, tlp' = tlp,
           \/ Head(inbox[p]).type = "HO_END_SUCCESS" /\ SrcEnd(p, TRUE)
           \/ Head(inbox[p]).type = "HO_END_FAIL" /\ SrcEnd(p, FALSE)
    PROVE  HInv'
<1>0. TypeInv
  BY DEF HInv
<1>1. PeerPath(p) \in {"SRC", "DST"}
  BY DEF PeerPath
<1>2. CASE /\ Took(p, TRUE, {"HO_END_SUCCESS"})
           /\ Set(p, [phase |-> "DONE"]) /\ inbox' = Reply(p, "HO_END_ACK")
  <2>1. /\ Changed(p) /\ Alive(p) /\ Alive(p)'
        /\ emu'[p].proc = "run" /\ emu'[p].role = "SRC"
        /\ emu'[p].phase = "DONE" /\ emu'[p].engine = emu[p].engine
    BY <1>0, <1>2 DEF Set, TypeInv, Fields, Changed, Alive
  <2>2. Delivers(p, TRUE, PeerPath(p), "HO_END_ACK")
    BY Zenon, <1>0, <1>1, <1>2, ReplyFacts DEF Reply
  <2>3. Moves(p, TRUE, PeerPath(p), "HO_END_ACK")
    BY Zenon, <1>0, <2>1, <2>2 DEF Moves, TypeInv
  <2>4. TokenKept(p, TRUE, "HO_END_ACK")
    BY Zenon, <2>1 DEF TokenKept, TokenTypes, Holds, Serving
  <2>5. RoleKept(p) /\ ServiceKept(p, TRUE, PeerPath(p), "HO_END_ACK")
    BY Zenon, <1>2, <2>1 DEF RoleKept, ServiceKept
  <2> QED
    BY Zenon, <2>3, <2>4, <2>5, MoveKeeps
<1>3. CASE /\ Took(p, TRUE, {"HO_END_FAIL"})
           /\ Set(p, [phase |-> "IDLE", engine |-> "on"])
           /\ inbox' = Reply(p, "HO_END_ACK")
  <2>1. /\ Changed(p) /\ Alive(p) /\ Alive(p)'
        /\ emu'[p].proc = "run" /\ emu'[p].role = "SRC"
        /\ emu'[p].phase = "IDLE" /\ emu'[p].engine = "on"
    BY <1>0, <1>3 DEF Set, TypeInv, Fields, Changed, Alive
  <2>2. Delivers(p, TRUE, PeerPath(p), "HO_END_ACK")
    BY Zenon, <1>0, <1>1, <1>3, ReplyFacts DEF Reply
  <2>3. Moves(p, TRUE, PeerPath(p), "HO_END_ACK")
    BY Zenon, <1>0, <2>1, <2>2 DEF Moves, TypeInv
  <2>4. TokenKept(p, TRUE, "HO_END_ACK")
    BY <1>3 DEF TokenKept, TokenTypes, Took
  <2>5. RoleKept(p) /\ ServiceKept(p, TRUE, PeerPath(p), "HO_END_ACK")
    BY <2>1 DEF RoleKept, ServiceKept
  <2> QED
    BY Zenon, <2>3, <2>4, <2>5, MoveKeeps
<1>4. CASE Set(p, [phase |-> "IDLE"]) /\ inbox' = Reply(p, "HO_END_NACK")
  BY <1>4, QuietReply
<1> QED
  BY <1>2, <1>3, <1>4 DEF SrcEnd, Took

(* The handlers of a destination. *)

(* BEGIN_ACK: the destination takes the token and enables its engine, or   *)
(* gives it back with END.                                                 *)
LEMMA DstBeginAckKeeps ==
    ASSUME HInv, NEW p \in Pids, emu[p].proc = "run", inbox[p] # <<>>,
           emu[p].role = "DST", Head(inbox[p]).type = "HO_BEGIN_ACK",
           bound' = bound, tlp' = tlp, DstBeginAck(p)
    PROVE  HInv'
<1>0. TypeInv /\ TokenInv /\ RoleInv
  BY DEF HInv
<1>1. PeerPath(p) \in {"SRC", "DST"}
  BY DEF PeerPath
<1>2. Took(p, TRUE, TokenTypes) /\ Took(p, TRUE, {"HO_BEGIN_ACK"})
  BY DEF Took, TokenTypes
<1>3. bound["SRC"] # p
  BY <1>0 DEF RoleInv, None, Pids
<1>4. CASE /\ Set(p, [phase |-> "DST_RESUMING", engine |-> "on", vqs |-> "binding"])
           /\ inbox' = Popped(p)
  <2>1. /\ Changed(p) /\ Alive(p) /\ Alive(p)'
        /\ emu'[p].proc = "run" /\ emu'[p].role = "DST"
        /\ emu'[p].phase = "DST_RESUMING" /\ emu'[p].engine = "on"
    BY <1>0, <1>4 DEF Set, TypeInv, Fields, Changed, Alive
  <2>2. Delivers(p, TRUE, "SRC", "HO_SETUP")
    BY Zenon, <1>0, <1>4, PopFacts
  <2>3. Moves(p, TRUE, "SRC", "HO_SETUP")
    BY Zenon, <1>0, <2>1, <2>2 DEF Moves, TypeInv
  <2>4. TokenKept(p, TRUE, "HO_SETUP")
    BY Zenon, <1>2 DEF TokenKept, TokenTypes
  <2>5. RoleKept(p) /\ ServiceKept(p, TRUE, "SRC", "HO_SETUP")
    BY <1>3, <2>1 DEF RoleKept, ServiceKept
  <2> QED
    BY Zenon, <2>3, <2>4, <2>5, MoveKeeps
<1>5. CASE Set(p, [phase |-> "CLEANUP"]) /\ inbox' = Reply(p, "HO_END_FAIL")
  <2>1. /\ Changed(p) /\ Alive(p) /\ Alive(p)'
        /\ emu'[p].proc = "run" /\ emu'[p].role = "DST"
        /\ emu'[p].phase = "CLEANUP" /\ emu'[p].engine = emu[p].engine
    BY Zenon, <1>0, <1>5 DEF Set, TypeInv, Fields, Changed, Alive
  <2>2. Delivers(p, TRUE, PeerPath(p), "HO_END_FAIL")
    BY Zenon, <1>0, <1>1, <1>5, ReplyFacts DEF Reply
  <2>3. Moves(p, TRUE, PeerPath(p), "HO_END_FAIL")
    BY Zenon, <1>0, <2>1, <2>2 DEF Moves, TypeInv
  <2>4. ~Holds(p)
    <3>1. 1 \in DOMAIN inbox[p] /\ inbox[p][1].type \in TokenTypes
      BY Zenon, <1>0, <1>2, TookFacts
    <3> QED
      BY <1>0, <3>1 DEF TokenInv, Tokens
  <2>5. emu[p].engine = "off"
    BY <2>1, <2>4 DEF Holds, Serving
  <2>6. TokenPassed(p, TRUE, "HO_END_FAIL")
    BY Zenon, <1>2, <2>1, <2>5 DEF TokenPassed, TokenTypes, Holds, Serving
  <2>7. RoleKept(p) /\ ServiceKept(p, TRUE, PeerPath(p), "HO_END_FAIL")
    BY <1>3, <2>1, <2>5 DEF RoleKept, ServiceKept
  <2> QED
    BY Zenon, <2>3, <2>6, <2>7, MoveKeeps
<1> QED
  BY <1>4, <1>5 DEF DstBeginAck

(* Every handler of ho_on_msg keeps the invariant. *)
LEMMA EmuRecvKeeps ==
    ASSUME HInv, NEW p \in Pids, EmuRecv(p)
    PROVE  HInv'
<1>0. TypeInv
  BY DEF HInv
<1>1. emu[p].proc = "run" /\ inbox[p] # <<>> /\ bound' = bound /\ tlp' = tlp
  BY DEF EmuRecv
<1> DEFINE type == Head(inbox[p]).type
<1>2. CASE emu[p].role = "SRC" /\ SrcHandle(p, type)
  <2>1. CASE SrcSetup(p)
    BY <1>1, <2>1, QuietReply DEF SrcSetup
  <2>2. CASE SrcGetState(p)
    BY <1>1, <2>2, QuietReply DEF SrcGetState
  <2>3. CASE type = "HO_BEGIN" /\ SrcBegin(p)
    BY <1>1, <1>2, <2>3, SrcBeginKeeps
  <2>4. CASE \/ type = "HO_END_SUCCESS" /\ SrcEnd(p, TRUE)
             \/ type = "HO_END_FAIL" /\ SrcEnd(p, FALSE)
    BY Zenon, <1>1, <1>2, <2>4, SrcEndKeeps
  <2> QED
    BY Zenon, <1>2, <2>1, <2>2, <2>3, <2>4 DEF SrcHandle
<1>3. CASE emu[p].role = "DST" /\ DstHandle(p, type)
  <2>1. CASE type = "HO_BEGIN_ACK" /\ DstBeginAck(p)
    BY <1>1, <1>3, <2>1, DstBeginAckKeeps
  <2>2. CASE DstEndAck(p)
    <3>1. Changed(p) /\ Quiet(p) /\ Alive(p)
      BY Zenon, <1>0, <1>1, <1>3, <2>2
      DEF DstEndAck, Set, TypeInv, Fields, Changed, Quiet, Alive
    <3>2. Delivers(p, TRUE, "SRC", "HO_SETUP")
      BY Zenon, <1>0, <1>1, <2>2, PopFacts DEF DstEndAck, ToTlp
    <3> QED
      BY Zenon, <1>0, <1>1, <3>1, <3>2, QuietKeeps DEF TokenTypes, TypeInv
  <2>3. CASE Set(p, [phase |-> "FAILED"]) /\ inbox' = Popped(p)
    BY <1>1, <2>3, QuietReply
  <2> QED
    BY <1>3, <2>1, <2>2, <2>3 DEF DstHandle
<1>4. CASE inbox' = Popped(p) /\ UNCHANGED emu
  <2>1. Changed(p) /\ Quiet(p) /\ Alive(p)
    BY <1>0, <1>1, <1>4 DEF TypeInv, Changed, Quiet, Alive
  <2>2. Delivers(p, TRUE, "SRC", "HO_SETUP")
    BY Zenon, <1>0, <1>1, <1>4, PopFacts
  <2> QED
    BY Zenon, <1>0, <1>1, <2>1, <2>2, QuietKeeps DEF TokenTypes, TypeInv
<1> QED
  BY <1>2, <1>3, <1>4 DEF EmuRecv

(* A source that has drained passes the token; a destination whose queues  *)
(* run keeps it and tells the source that the handover is over.            *)
LEMMA EmuPollKeeps ==
    ASSUME HInv, NEW p \in Pids, EmuPoll(p)
    PROVE  HInv'
<1>0. TypeInv /\ RoleInv
  BY DEF HInv
<1>1. emu[p].proc = "run" /\ inbox[p] = <<>> /\ bound' = bound /\ tlp' = tlp
      /\ Set(p, [phase |-> "CLEANUP"])
  BY DEF EmuPoll
<1>2. PeerPath(p) \in {"SRC", "DST"}
  BY DEF PeerPath
<1>3. /\ Changed(p) /\ Alive(p) /\ Alive(p)'
      /\ emu'[p].proc = "run" /\ emu'[p].role = emu[p].role
      /\ emu'[p].phase = "CLEANUP" /\ emu'[p].engine = emu[p].engine
  BY <1>0, <1>1 DEF Set, TypeInv, Fields, Changed, Alive
<1>4. RoleKept(p)
  <2>1. bound["SRC"] = p => emu[p].role = "SRC"
    BY <1>0 DEF RoleInv, None, Pids
  <2>2. emu[p].role = "DST" => emu[p].engine # "draining"
    BY <1>0 DEF RoleInv
  <2> QED
    BY <1>1, <1>3, <2>1, <2>2 DEF RoleKept
<1>5. CASE /\ emu[p].phase = "SRC_DRAINING" /\ emu[p].engine = "off"
           /\ inbox' = Sent(inbox, PeerPath(p), <<Msg("HO_BEGIN_ACK")>>)
  <2>1. Delivers(p, FALSE, PeerPath(p), "HO_BEGIN_ACK")
    BY Zenon, <1>0, <1>2, <1>5, SendFacts
  <2>2. Moves(p, FALSE, PeerPath(p), "HO_BEGIN_ACK")
    BY Zenon, <1>0, <1>1, <1>3, <2>1 DEF Moves, TypeInv
  <2>3. TokenPassed(p, FALSE, "HO_BEGIN_ACK")
    BY <1>3, <1>5 DEF TokenPassed, TokenTypes, Holds, Serving
  <2>4. ServiceKept(p, FALSE, PeerPath(p), "HO_BEGIN_ACK")
    BY <1>3, <1>5 DEF ServiceKept
  <2> QED
    BY Zenon, <1>4, <2>2, <2>3, <2>4, MoveKeeps
<1>6. CASE /\ emu[p].phase = "DST_RESUMING"
           /\ inbox' = Sent(inbox, PeerPath(p), <<Msg("HO_END_SUCCESS")>>)
  <2>1. emu[p].role = "DST" /\ emu[p].engine = "on"
    BY <1>0, <1>3, <1>6 DEF RoleInv
  <2>2. Delivers(p, FALSE, "SRC", "HO_END_SUCCESS")
    BY Zenon, <1>0, <1>6, <2>1, SendFacts DEF PeerPath
  <2>3. Moves(p, FALSE, "SRC", "HO_END_SUCCESS")
    BY Zenon, <1>0, <1>1, <1>3, <2>2 DEF Moves, TypeInv
  <2>4. TokenKept(p, FALSE, "HO_END_SUCCESS")
    BY <1>3, <2>1 DEF TokenKept, TokenTypes, Holds, Serving
  <2>5. ServiceKept(p, FALSE, "SRC", "HO_END_SUCCESS")
    BY <1>1, <1>3, <2>1 DEF ServiceKept
  <2> QED
    BY Zenon, <1>4, <2>3, <2>4, <2>5, MoveKeeps
<1> QED
  BY <1>5, <1>6 DEF EmuPoll

(* The source that is done leaves its loop. *)
LEMMA SrcDoneKeeps ==
    ASSUME HInv, NEW p \in Pids, SrcDone(p)
    PROVE  HInv'
<1>0. TypeInv
  BY DEF HInv
<1>1. Changed(p) /\ Quiet(p) /\ Alive(p)
  BY Zenon, <1>0 DEF SrcDone, Set, TypeInv, Fields, Changed, Quiet, Alive
<1>2. Delivers(p, FALSE, "SRC", "HO_SETUP")
  BY Zenon, <1>0, StayFacts DEF SrcDone
<1>3. bound' = bound /\ tlp' = tlp
  BY Zenon DEF SrcDone
<1> QED
  BY Zenon, <1>0, <1>1, <1>2, <1>3, QuietKeeps DEF TokenTypes, TypeInv

(* The destination that is done binds the source's path: it is the source  *)
(* of the next live update.                                                *)
LEMMA DstRebindKeeps ==
    ASSUME HInv, NEW p \in Pids, DstRebind(p)
    PROVE  HInv'
<1>0. TypeInv
  BY DEF HInv
<1>1. /\ Changed(p) /\ Alive(p) /\ Alive(p)'
      /\ emu[p].proc = "run" /\ emu[p].role = "DST"
      /\ emu'[p].proc = "run" /\ emu'[p].role = "SRC"
      /\ emu'[p].phase = "IDLE" /\ emu'[p].engine = emu[p].engine
  BY Zenon, <1>0 DEF DstRebind, Set, TypeInv, Fields, Changed, Alive
<1>2. Delivers(p, FALSE, "SRC", "HO_SETUP")
  BY Zenon, <1>0, StayFacts DEF DstRebind, ToTlp
<1>3. /\ bound' \in [{"SRC", "DST"} -> Pids \cup {None}]
      /\ bound'["SRC"] = p /\ tlp' = tlp
  BY <1>0 DEF DstRebind, Unlinked, TypeInv
<1>4. Moves(p, FALSE, "SRC", "HO_SETUP")
  BY Zenon, <1>1, <1>2, <1>3 DEF Moves
<1>5. TokenKept(p, FALSE, "HO_SETUP")
  BY Zenon, <1>1 DEF TokenKept, TokenTypes, Holds, Serving
<1>6. RoleKept(p) /\ ServiceKept(p, FALSE, "SRC", "HO_SETUP")
  BY Zenon, <1>1 DEF RoleKept, ServiceKept
<1> QED
  BY Zenon, <1>4, <1>5, <1>6, MoveKeeps

(* The engine of the library is drained or started, and its queues run. *)
LEMMA LibraryKeeps ==
    ASSUME HInv, NEW p \in Pids, Library(p)
    PROVE  HInv'
<1>0. TypeInv /\ RoleInv
  BY DEF HInv
<1>1. inbox' = inbox /\ bound' = bound /\ tlp' = tlp
  BY DEF Library, EngineDrained, QueuesRun
<1>2. Delivers(p, FALSE, "SRC", "HO_SETUP")
  BY Zenon, <1>0, <1>1, StayFacts
<1>3. CASE EngineDrained(p)
  <2>1. /\ Changed(p) /\ Alive(p) /\ Alive(p)'
        /\ emu[p].engine = "draining" /\ emu'[p].engine = "off"
        /\ emu'[p].proc = emu[p].proc /\ emu'[p].role = emu[p].role
        /\ emu'[p].phase = emu[p].phase
    BY <1>0, <1>3 DEF EngineDrained, Set, TypeInv, Fields, Changed, Alive
  <2>2. Moves(p, FALSE, "SRC", "HO_SETUP")
    BY Zenon, <1>0, <1>1, <1>2, <2>1 DEF Moves, TypeInv
  <2>3. TokenKept(p, FALSE, "HO_SETUP")
    BY <2>1 DEF TokenKept, TokenTypes, Holds, Serving
  <2>4. RoleKept(p)
    <3>1. bound["SRC"] = p => emu[p].role = "SRC"
      BY <1>0 DEF RoleInv, None, Pids
    <3>2. emu[p].phase # "DST_RESUMING"
      BY <1>0, <2>1 DEF RoleInv
    <3> QED
      BY <1>1, <2>1, <3>1, <3>2 DEF RoleKept
  <2>5. ServiceKept(p, FALSE, "SRC", "HO_SETUP")
    BY Zenon, <2>1 DEF ServiceKept
  <2> QED
    BY Zenon, <2>2, <2>3, <2>4, <2>5, MoveKeeps
<1>4. CASE QueuesRun(p)
  <2>1. Changed(p) /\ Quiet(p) /\ Alive(p)
    BY Zenon, <1>0, <1>4 DEF QueuesRun, Set, TypeInv, Fields, Changed, Quiet, Alive
  <2> QED
    BY Zenon, <1>0, <1>1, <1>2, <2>1, QuietKeeps DEF TokenTypes, TypeInv
<1> QED
  BY <1>3, <1>4 DEF Library

(* A process that fails, is killed or exits takes its token with it. *)
LEMMA ExitKeeps ==
    ASSUME HInv, NEW p \in Pids,
           EmuFault(p) \/ DstFailed(p) \/ EmuExit(p)
    PROVE  HInv'
<1>1. Alive(p) /\ tlp' = tlp
  BY DEF EmuFault, SrcTimeout, BootFails, Crash, DstFailed, EmuExit, Alive
<1>2. /\ emu' = [emu EXCEPT ![p].proc = "dead", ![p].engine = "off"]
      /\ inbox' = [inbox EXCEPT ![p] = <<>>]
      /\ bound' \in {bound, Unlinked(p)}
  BY DEF EmuFault, SrcTimeout, BootFails, Crash, DstFailed, EmuExit, Exits
<1> QED
  BY Zenon, <1>1, <1>2, DeathKeeps

(* The TLP process. *)

(* Sending two datagrams puts both behind the others. *)
LEMMA AddTwoFacts ==
    ASSUME NEW s, NEW a, NEW b, IsSeq(s)
    PROVE  /\ IsSeq(s \o <<a, b>>)
           /\ \A i \in DOMAIN (s \o <<a, b>>) :
                \/ i \in DOMAIN s /\ (s \o <<a, b>>)[i] = s[i]
                \/ (s \o <<a, b>>)[i] \in {a, b}
<1> DEFINE S == {s[i] : i \in DOMAIN s} \cup {a, b}
           u == s \o <<a, b>>
<1>1. s \in Seq(S) /\ <<a, b>> \in Seq(S)
  <2>1. s \in Seq({s[i] : i \in DOMAIN s})
    BY DEF IsSeq
  <2> QED
    BY <2>1
<1>2. Len(s) \in Nat /\ DOMAIN s = 1 .. Len(s)
  BY <1>1
<1>3. u \in Seq(S) /\ DOMAIN u = 1 .. Len(s) + 2
      /\ (\A i \in 1 .. Len(s) : u[i] = s[i])
      /\ u[Len(s) + 1] = a /\ u[Len(s) + 2] = b
  BY <1>1, <1>2
<1>4. IsSeq(u)
  BY Zenon, <1>3, SeqIsSeq
<1>5. \A i \in DOMAIN u : i \in DOMAIN s \/ i = Len(s) + 1 \/ i = Len(s) + 2
  BY <1>2, <1>3
<1> QED
  BY <1>2, <1>3, <1>4, <1>5

(* Datagrams of the TLP process to a path. *)
LEMMA InformFacts ==
    ASSUME TypeInv, NEW path \in {"SRC", "DST"},
           \/ inbox' = Sent(Popped(TLP), path, <<Msg("HO_DEVICE")>>)
           \/ inbox' = Sent(Popped(TLP), path, <<Recovery(tlp.desc), Msg("STATE_UPDATE")>>)
    PROVE  Informs
<1>1. PICK ms : /\ inbox' = Sent(Popped(TLP), path, ms)
                /\ \/ ms = <<Msg("HO_DEVICE")>>
                   \/ ms = <<Recovery(tlp.desc), Msg("STATE_UPDATE")>>
  OBVIOUS
<1>2. TLP \notin Pids
  BY DEF TLP, Pids
<1> DEFINE b == Popped(TLP)
<1>3. b = [q \in Pids \cup {TLP} |-> b[q]] /\ \A q \in Pids : b[q] = inbox[q]
  BY Zenon, <1>2 DEF TypeInv, Popped
<1>4. \A q \in Pids : IsSeq(inbox[q])
  BY DEF TypeInv
<1>5. CASE bound[path] # None /\ Alive(bound[path])
  <2>1. bound[path] \in Pids
    BY <1>5 DEF TypeInv
  <2>2. inbox' = [b EXCEPT ![bound[path]] = b[bound[path]] \o ms]
    BY <1>1, <1>3, <1>5, <2>1 DEF Sent
  <2> HIDE DEF b
  <2>3. /\ inbox' = [q \in Pids \cup {TLP} |-> inbox'[q]]
        /\ \A q \in Pids : inbox'[q] = IF q = bound[path] THEN inbox[q] \o ms ELSE inbox[q]
    BY Zenon, <1>3, <2>1, <2>2
  <2>4. \A m : m \in {Msg("HO_DEVICE"), Recovery(tlp.desc), Msg("STATE_UPDATE")} =>
          m.type \in {"RECOVERY_STATE", "STATE_UPDATE", "HO_DEVICE"}
    BY DEF Msg, Recovery
  <2>5. /\ IsSeq(inbox[bound[path]] \o ms)
        /\ \A i \in DOMAIN (inbox[bound[path]] \o ms) :
             \/ i \in DOMAIN inbox[bound[path]]
                /\ (inbox[bound[path]] \o ms)[i] = inbox[bound[path]][i]
             \/ (inbox[bound[path]] \o ms)[i]
                  \in {Msg("HO_DEVICE"), Recovery(tlp.desc), Msg("STATE_UPDATE")}
    <3>1. IsSeq(inbox[bound[path]])
      BY <1>4, <2>1
    <3>2. CASE ms = <<Recovery(tlp.desc), Msg("STATE_UPDATE")>>
      BY <3>1, <3>2, AddTwoFacts
    <3>3. CASE ms = <<Msg("HO_DEVICE")>>
      <4> DEFINE s == inbox[bound[path]]
                 m == Msg("HO_DEVICE")
      <4>1. /\ IsSeq(s \o <<m>>) /\ Len(s) \in Nat /\ DOMAIN s = 1 .. Len(s)
            /\ DOMAIN (s \o <<m>>) = 1 .. Len(s) + 1
            /\ \A i \in DOMAIN s : (s \o <<m>>)[i] = s[i]
            /\ (s \o <<m>>)[Len(s) + 1] = m
        BY <3>1, AddFacts
      <4>2. \A i \in DOMAIN (s \o <<m>>) : i \in DOMAIN s \/ i = Len(s) + 1
        BY <4>1
      <4> HIDE DEF s, m
      <4>3. /\ IsSeq(s \o ms)
            /\ \A i \in DOMAIN (s \o ms) :
                 (i \in DOMAIN s /\ (s \o ms)[i] = s[i]) \/ (s \o ms)[i] = m
        BY <3>3, <4>1, <4>2 DEF m
      <4> QED
        BY <4>3 DEF s, m
    <3> QED
      BY <1>1, <3>2, <3>3
  <2>6. ASSUME NEW q \in Pids
        PROVE  /\ IsSeq(inbox'[q])
               /\ ~Alive(q) => inbox'[q] = inbox[q]
               /\ \A i \in DOMAIN inbox'[q] :
                    \/ i \in DOMAIN inbox[q] /\ inbox'[q][i] = inbox[q][i]
                    \/ inbox'[q][i].type \in {"RECOVERY_STATE", "STATE_UPDATE", "HO_DEVICE"}
    <3>1. CASE q = bound[path]
      BY Zenon, <1>5, <2>3, <2>4, <2>5, <3>1
    <3>2. CASE q # bound[path]
      BY <1>4, <2>3, <3>2
    <3> QED
      BY <3>1, <3>2
  <2> QED
    BY <2>3, <2>6 DEF Informs
<1>6. CASE ~(bound[path] # None /\ Alive(bound[path]))
  <2>1. inbox' = b
    BY <1>1, <1>6 DEF Sent
  <2> QED
    BY <1>3, <1>4, <2>1 DEF Informs
<1> QED
  BY <1>5, <1>6

(* The TLP process answers a request for the device. *)
LEMMA TlpRecvKeeps ==
    ASSUME HInv, TlpRecv
    PROVE  HInv'
<1>0. TypeInv /\ ProcInv
  BY DEF HInv
<1>1. emu' = emu /\ bound' = bound
  BY DEF TlpRecv
<1>2. Reaps
  BY <1>0, <1>1 DEF TypeInv, Reaps
<1>3. /\ tlp'.src = tlp.src /\ tlp'.dst = tlp.dst /\ tlp'.lu = tlp.lu
      /\ DOMAIN tlp' = DOMAIN tlp
  BY <1>0 DEF TlpRecv, TypeInv
<1>4. TlpOk
  BY <1>0, <1>1, <1>3 DEF TlpOk, TypeInv, ProcInv, Alive
<1>5. CASE inbox' = Popped(TLP)
  <2>1. TLP \notin Pids
    BY DEF TLP, Pids
  <2>2. Informs
    BY Zenon, <1>0, <1>5, <2>1 DEF TypeInv, Popped, Informs
  <2> QED
    BY <1>1, <1>2, <1>4, <2>2, TlpKeeps
<1>6. CASE \/ inbox' = Sent(Popped(TLP), "SRC", <<Recovery(tlp.desc), Msg("STATE_UPDATE")>>)
           \/ inbox' = Sent(Popped(TLP), "DST", <<Msg("HO_DEVICE")>>)
  <2>1. Informs
    BY <1>0, <1>6, InformFacts
  <2> QED
    BY <1>1, <1>2, <1>4, <2>1, TlpKeeps
<1> QED
  BY <1>5, <1>6 DEF TlpRecv

(* The TLP process finds its source dead: it promotes the destination, or  *)
(* spawns a source when no emulator is left.                               *)
LEMMA CheckSrcKeeps ==
    ASSUME HInv, CheckSrc
    PROVE  HInv'
<1>0. TypeInv /\ ProcInv
  BY DEF HInv
<1>1. bound' = bound
  BY Zenon DEF CheckSrc
<1>2. TLP \notin Pids /\ None \notin Pids
  BY DEF TLP, None, Pids
<1>3. CASE tlp' = [tlp EXCEPT !.pc = "dst"] /\ UNCHANGED <<emu, inbox>>
  <2>1. Reaps /\ Informs
    BY <1>0, <1>3 DEF TypeInv, Reaps, Informs
  <2>2. TlpOk
    BY <1>0, <1>3 DEF TypeInv, ProcInv, TlpOk, Alive
  <2> QED
    BY <1>1, <2>1, <2>2, TlpKeeps
<1>4. CASE /\ Dead(tlp.src) /\ tlp.lu
           /\ emu' = [emu EXCEPT ![tlp.src].proc = "reaped"]
           /\ tlp' = [Finalized EXCEPT !.pc = "dst"]
           /\ UNCHANGED inbox
  <2>1. tlp.src \in Pids /\ emu[tlp.src].proc = "dead"
    BY <1>0, <1>4 DEF TypeInv, Dead
  <2>2. Reaps /\ Informs
    BY <1>0, <1>4, <2>1 DEF TypeInv, Reaps, Informs
  <2>3. /\ tlp'.src = tlp.dst /\ tlp'.dst = None /\ ~tlp'.lu
        /\ DOMAIN tlp' = DOMAIN tlp
    BY <1>0, <1>4 DEF TypeInv, Finalized
  <2>4. \A q \in Pids : Alive(q)' => Alive(q) /\ q # tlp.src
    BY <1>0, <1>4, <2>1 DEF TypeInv, Alive, Fields
  <2>5. TlpOk
    BY <1>0, <2>3, <2>4 DEF TypeInv, ProcInv, TlpOk
  <2> QED
    BY <1>1, <2>2, <2>5, TlpKeeps
<1>5. ASSUME Dead(tlp.src), ~tlp.lu
      PROVE  /\ tlp.src \in Pids /\ emu[tlp.src].proc = "dead"
             /\ \A q \in Pids : ~Alive(q)
  <2>1. tlp.src \in Pids /\ emu[tlp.src].proc = "dead" /\ tlp.dst = None
    BY <1>0, <1>5 DEF TypeInv, ProcInv, Dead
  <2> QED
    BY <1>0, <1>2, <2>1 DEF ProcInv, Alive
<1>6. ASSUME Dead(tlp.src), ~tlp.lu, NEW p \in NextPid,
             emu' = [emu EXCEPT ![tlp.src].proc = "reaped", ![p] = Spawn("SRC", tlp.bin)],
             tlp' = [tlp EXCEPT !.pc = "dst", !.src = p],
             inbox' = [inbox EXCEPT ![TLP] = <<>>]
      PROVE  HInv'
  <2>1. /\ tlp.src \in Pids /\ emu[tlp.src].proc = "dead"
        /\ \A q \in Pids : ~Alive(q)
    BY <1>5, <1>6
  <2>2. p \in Pids /\ emu[p].proc = "unborn" /\ p # tlp.src
    BY <1>6, <2>1 DEF NextPid
  <2>3. /\ emu' = [q \in Pids |-> emu'[q]]
        /\ emu'[p] = Spawn("SRC", tlp.bin)
        /\ emu'[tlp.src] = [emu[tlp.src] EXCEPT !.proc = "reaped"]
        /\ \A q \in Pids \ {p, tlp.src} : emu'[q] = emu[q]
    BY Zenon, <1>0, <1>6, <2>1, <2>2 DEF TypeInv
  <2>4. /\ inbox' = [q \in Pids \cup {TLP} |-> inbox'[q]]
        /\ \A q \in Pids : inbox'[q] = inbox[q]
    BY Zenon, <1>0, <1>2, <1>6 DEF TypeInv
  <2>5. /\ tlp'.src = p /\ tlp'.dst = tlp.dst /\ tlp'.lu = tlp.lu
        /\ DOMAIN tlp' = DOMAIN tlp
    BY <1>0, <1>6 DEF TypeInv
  <2>6. \A q \in Pids : Alive(q)' => q = p
    <3> SUFFICES ASSUME NEW q \in Pids \ {p} PROVE ~Alive(q)'
      OBVIOUS
    <3>1. CASE q = tlp.src
      <4>1. emu'[q].proc = "reaped"
        BY <1>0, <2>1, <2>3, <3>1 DEF TypeInv, Fields
      <4> QED
        BY <4>1 DEF Alive
    <3>2. CASE q # tlp.src
      BY <2>1, <2>3, <3>2 DEF Alive
    <3> QED
      BY <3>1, <3>2
  <2>7. TlpOk
    BY <1>0, <2>2, <2>5, <2>6 DEF TypeInv, ProcInv, TlpOk
  <2>8. \A q \in Pids \ {p} :
          \/ emu'[q] = emu[q]
          \/ emu[q].proc = "dead" /\ emu'[q] = [emu[q] EXCEPT !.proc = "reaped"]
    BY <2>1, <2>3
  <2> QED
    BY <1>1, <2>1, <2>2, <2>3, <2>4, <2>7, <2>8, SpawnKeeps
<1>7. CASE /\ Dead(tlp.src) /\ ~tlp.lu
           /\ emu' = [emu EXCEPT ![tlp.src].proc = "reaped"]
           /\ tlp' = [tlp EXCEPT !.pc = "dst", !.src = None]
           /\ inbox' = [inbox EXCEPT ![TLP] = <<>>]
  <2>1. /\ tlp.src \in Pids /\ emu[tlp.src].proc = "dead"
        /\ \A q \in Pids : ~Alive(q)
    BY <1>5, <1>7
  <2>2. Reaps
    BY <1>0, <1>7, <2>1 DEF TypeInv, Reaps
  <2>3. Informs
    BY Zenon, <1>0, <1>2, <1>7 DEF TypeInv, Informs
  <2>4. /\ tlp'.src = None /\ tlp'.dst = tlp.dst /\ tlp'.lu = tlp.lu
        /\ DOMAIN tlp' = DOMAIN tlp
    BY <1>0, <1>7 DEF TypeInv
  <2>5. \A q \in Pids : ~Alive(q)'
    BY <1>0, <1>7, <2>1 DEF TypeInv, Alive, Fields
  <2>6. TlpOk
    BY <1>0, <2>4, <2>5 DEF TypeInv, ProcInv, TlpOk
  <2> QED
    BY <1>1, <2>2, <2>3, <2>6, TlpKeeps
<1> QED
  BY Zenon, <1>3, <1>4, <1>6, <1>7 DEF CheckSrc

(* The TLP process finds its destination dead and gives up the live        *)
(* update.                                                                 *)
LEMMA CheckDstKeeps ==
    ASSUME HInv, CheckDst
    PROVE  HInv'
<1>0. TypeInv /\ ProcInv
  BY DEF HInv
<1>1. bound' = bound /\ inbox' = inbox
  BY DEF CheckDst
<1>2. Informs
  BY <1>0, <1>1 DEF TypeInv, Informs
<1>3. CASE ~Dead(tlp.dst)
  <2>1. emu' = emu /\ tlp' = [tlp EXCEPT !.pc = "poll"]
    BY <1>3 DEF CheckDst
  <2>2. Reaps
    BY <1>0, <2>1 DEF TypeInv, Reaps
  <2>3. TlpOk
    BY <1>0, <2>1 DEF TypeInv, ProcInv, TlpOk, Alive
  <2> QED
    BY <1>1, <1>2, <2>2, <2>3, TlpKeeps
<1>4. CASE Dead(tlp.dst)
  <2>1. /\ emu' = [emu EXCEPT ![tlp.dst].proc = "reaped"]
        /\ tlp' = [tlp EXCEPT !.pc = "poll", !.dst = None, !.lu = FALSE]
    BY <1>4 DEF CheckDst
  <2>2. tlp.dst \in Pids /\ emu[tlp.dst].proc = "dead"
    BY <1>0, <1>4 DEF TypeInv, Dead
  <2>3. Reaps
    BY <1>0, <2>1, <2>2 DEF TypeInv, Reaps
  <2>4. /\ tlp'.src = tlp.src /\ tlp'.dst = None /\ ~tlp'.lu
        /\ DOMAIN tlp' = DOMAIN tlp
    BY <1>0, <2>1 DEF TypeInv
  <2>5. \A q \in Pids : Alive(q)' => Alive(q) /\ q # tlp.dst
    BY <1>0, <2>1, <2>2 DEF TypeInv, Alive, Fields
  <2>6. TlpOk
    BY <1>0, <2>4, <2>5 DEF TypeInv, ProcInv, TlpOk
  <2> QED
    BY <1>1, <1>2, <2>3, <2>6, TlpKeeps
<1> QED
  BY <1>3, <1>4

(* A live update begins: a destination is spawned beside the source. *)
LEMMA TriggerKeeps ==
    ASSUME HInv, Trigger
    PROVE  HInv'
<1>0. TypeInv /\ ProcInv
  BY DEF HInv
<1>1. bound' = bound /\ inbox' = inbox
  BY Zenon DEF Trigger
<1>2. CASE tlp' = [tlp EXCEPT !.pc = "src"] /\ UNCHANGED emu
  <2>1. Reaps /\ Informs
    BY <1>0, <1>1, <1>2 DEF TypeInv, Reaps, Informs
  <2>2. TlpOk
    BY <1>0, <1>2 DEF TypeInv, ProcInv, TlpOk, Alive
  <2> QED
    BY <1>1, <2>1, <2>2, TlpKeeps
<1>3. ASSUME ~tlp.lu, NEW p \in NextPid,
             emu' = [emu EXCEPT ![p] = Spawn("DST", "new")],
             tlp' = [tlp EXCEPT !.pc = "src", !.dst = p, !.lu = TRUE, !.awaiting = TRUE]
      PROVE  HInv'
  <2>1. p \in Pids /\ emu[p].proc = "unborn"
    BY DEF NextPid
  <2>2. /\ emu' = [q \in Pids |-> emu'[q]]
        /\ emu'[p] = Spawn("DST", "new")
        /\ \A q \in Pids \ {p} : emu'[q] = emu[q]
    BY <1>0, <1>3, <2>1 DEF TypeInv
  <2>3. /\ inbox' = [q \in Pids \cup {TLP} |-> inbox'[q]]
        /\ \A q \in Pids : inbox'[q] = inbox[q]
    BY <1>0, <1>1 DEF TypeInv
  <2>4. /\ tlp'.src = tlp.src /\ tlp'.dst = p /\ tlp'.lu
        /\ DOMAIN tlp' = DOMAIN tlp
    BY <1>0, <1>3 DEF TypeInv
  <2>5. \A q \in Pids : Alive(q)' => q = p \/ (Alive(q) /\ q \in Pids)
    BY <2>2 DEF Alive
  <2>6. tlp.dst = None /\ None \notin Pids
    BY <1>0, <1>3 DEF ProcInv, None, Pids
  <2>7. TlpOk
    BY <1>0, <2>1, <2>4, <2>5, <2>6 DEF TypeInv, ProcInv, TlpOk
  <2> QED
    BY <1>1, <2>1, <2>2, <2>3, <2>7, SpawnKeeps
<1> QED
  BY Zenon, <1>2, <1>3 DEF Trigger

-----------------------------------------------------------------------------
(* The first source holds the only token. *)
LEMMA HandoverInit == Init => HInv
<1> SUFFICES ASSUME Init PROVE HInv
  OBVIOUS
<1>0. 1 \in Pids /\ None \notin Pids
  BY VblkHandoverAssumption DEF Pids, None
<1>1. /\ emu = [q \in Pids |-> emu[q]]
      /\ \A q \in Pids :
           /\ DOMAIN emu[q] = Fields
           /\ emu[q].engine = "off" /\ emu[q].role = "SRC" /\ emu[q].phase = "IDLE"
           /\ emu[q].proc = IF q = 1 THEN "start" ELSE "unborn"
  BY Zenon DEF Init, Unborn, Fields
<1>2. /\ inbox = [q \in Pids \cup {TLP} |-> inbox[q]]
      /\ \A q \in Pids : inbox[q] = <<>> /\ Tokens(inbox[q]) = {}
  BY DEF Init, Tokens
<1>3. /\ tlp.src = 1 /\ tlp.dst = None /\ ~tlp.lu
      /\ DOMAIN tlp = {"src", "dst", "lu", "awaiting", "desc", "bin", "pc"}
      /\ bound \in [{"SRC", "DST"} -> Pids \cup {None}] /\ bound["SRC"] = None
  BY DEF Init
<1>4. TypeInv
  <2>1. IsSeq(<<>>)
    BY DEF IsSeq
  <2> QED
    BY <1>0, <1>1, <1>2, <1>3, <2>1 DEF TypeInv
<1>5. \A q \in Pids : Alive(q) => q = 1
  BY <1>1 DEF Alive
<1>6. ProcInv
  BY <1>1, <1>2, <1>3, <1>5 DEF ProcInv
<1>7. TokenInv
  BY <1>2, <1>5 DEF TokenInv, NoToken, Holds
<1>8. RoleInv
  BY <1>1, <1>3 DEF RoleInv
<1>9. GapInv
  BY <1>1, <1>2 DEF GapInv, Leaving, Has
<1> QED
  BY <1>4, <1>6, <1>7, <1>8, <1>9 DEF HInv

(* Every step keeps the invariant. *)
LEMMA HandoverNext ==
    ASSUME HInv, [Next]_vars
    PROVE  HInv'
<1>1. CASE TlpNext
  BY <1>1, CheckSrcKeeps, CheckDstKeeps, TlpRecvKeeps, TriggerKeeps DEF TlpNext
<1>2. ASSUME NEW p \in Pids, EmuStep(p) \/ Library(p) \/ EmuFault(p)
      PROVE  HInv'
  BY <1>2, SrcStartKeeps, SrcInitialStateKeeps, SrcBootKeeps, DstStartKeeps,
     DstInitialStateKeeps, DstBeginKeeps, DstBegunKeeps, EmuRecvKeeps, EmuPollKeeps,
     SrcDoneKeeps, DstRebindKeeps, LibraryKeeps, ExitKeeps DEF EmuStep
<1>3. CASE UNCHANGED vars
  <2>1. TypeInv /\ ProcInv
    BY DEF HInv
  <2>2. Reaps /\ Informs /\ bound' = bound
    BY <1>3, <2>1 DEF vars, TypeInv, Reaps, Informs
  <2>3. TlpOk
    BY <1>3, <2>1 DEF vars, TypeInv, ProcInv, TlpOk, Alive
  <2> QED
    BY <2>2, <2>3, TlpKeeps
<1> QED
  BY <1>1, <1>2, <1>3 DEF Next

(* The invariant of the token holds throughout every behaviour. *)
LEMMA HandoverInvariant == Spec => []HInv
BY HandoverInit, HandoverNext, PTL DEF Spec

(* No two emulators drive the device at once, however many are spawned and *)
(* whatever crashes, fails or is lost (OneServer): the source disables its *)
(* engine before BEGIN_ACK, the destination enables its own only then, and *)
(* the source is enabled again only by END with failure.                   *)
THEOREM OneServerHolds == Spec => []OneServer
<1>1. HInv => OneServer
  <2> SUFFICES ASSUME HInv, NEW p \in Pids, NEW r \in Pids, Serving(p), Serving(r)
               PROVE  p = r
    BY DEF OneServer
  <2>1. ProcInv /\ TokenInv
    BY DEF HInv
  <2>2. Holds(p) /\ Holds(r)
    BY <2>1 DEF ProcInv, Serving, Holds
  <2> QED
    BY <2>1, <2>2 DEF TokenInv, NoToken
<1> QED
  BY <1>1, HandoverInvariant, PTL

(* A source that was told that the handover is over no longer drives the   *)
(* device, and the emulator that took it over drives it or has died since  *)
(* (NoGap): END with success is sent by a destination whose engine is on,  *)
(* and nothing can disable that one while the source is there.             *)
THEOREM NoGapHolds == Spec => []NoGap
<1>1. HInv => NoGap
  <2> SUFFICES ASSUME HInv, NEW p \in Pids,
                      emu[p].role = "SRC", emu[p].phase = "DONE", Alive(p)
               PROVE  /\ ~Serving(p)
                      /\ \E r \in Pids \ {p} :
                           Serving(r) \/ emu[r].proc \in {"dead", "reaped"}
    BY DEF NoGap
  <2>1. TokenInv /\ GapInv
    BY DEF HInv
  <2>2. TakenOver(p)
    BY <2>1 DEF GapInv, Leaving
  <2>3. PICK r \in Pids \ {p} :
          \/ emu[r].proc \in {"run", "quit"} /\ emu[r].engine = "on" /\ ~Has(r, "HO_BEGIN")
          \/ emu[r].proc \in {"dead", "reaped"} /\ \A q \in Pids : NoToken(q)
    BY <2>2 DEF TakenOver
  <2>4. NoToken(p)
    <3>1. CASE emu[r].proc \in {"run", "quit"} /\ emu[r].engine = "on"
      <4>1. ~NoToken(r)
        BY <3>1 DEF NoToken, Holds, Serving, Alive
      <4> QED
        BY <2>1, <4>1 DEF TokenInv
    <3>2. CASE \A q \in Pids : NoToken(q)
      BY <3>2
    <3> QED
      BY <2>3, <3>1, <3>2
  <2>5. ~Serving(p)
    BY <2>4 DEF NoToken, Holds
  <2>6. Serving(r) \/ emu[r].proc \in {"dead", "reaped"}
    BY <2>3 DEF Serving
  <2> QED
    BY <2>5, <2>6
<1> QED
  BY <1>1, HandoverInvariant, PTL
=============================================================================
