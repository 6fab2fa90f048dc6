-------------------------- MODULE TaskStackProofs --------------------------
(***************************************************************************)
(* What the operations of the task stack preserve: the types, identities   *)
(* that are never handed out twice, the connection state on the active     *)
(* screen, a root screen at the bottom, and exactly one link of the chain  *)
(* of every screen.                                                        *)
(***************************************************************************)
EXTENDS TaskStack, WellFoundedInduction, FiniteSetTheorems, TLAPS

-----------------------------------------------------------------------------
(* Induction on the natural numbers, over sets: the library's theorem      *)
(* takes an operator.                                                      *)
Below == {ss \in Nat \X Nat : ss[1] < ss[2]}

LEMMA BelowFounded == IsWellFoundedOn(Below, Nat)
BY NatLessThanWellFounded DEF OpToRel, Below

LEMMA LeastOf ==
  ASSUME NEW T \in SUBSET Nat, T # {}
  PROVE  \E x \in T : \A y \in T : x <= y
<1>1. PICK x \in T : \A y \in T : <<y, x>> \notin Below BY BelowFounded, WFMin
<1>2. \A y \in T : ~(y < x) BY <1>1 DEF Below
<1> QED BY <1>2

LEMMA InductOver ==
  ASSUME NEW T, 0 \in T, \A n \in Nat : n \in T => n + 1 \in T
  PROVE  Nat \subseteq T
<1> SUFFICES ASSUME Nat \ T # {} PROVE FALSE OBVIOUS
<1>1. PICK x \in Nat \ T : \A y \in Nat \ T : x <= y BY LeastOf
<1>2. x # 0 BY <1>1
<1>3. x - 1 \in Nat /\ x - 1 \in T BY <1>1, <1>2
<1> QED BY <1>3, <1>1

-----------------------------------------------------------------------------
(* DeliverHeld is a fold over the positions of the held messages. It has   *)
(* a value: each prefix of them leads from one record to the next.         *)
Delivered(u, id, what) ==
  IF u.task.id = id THEN Forward(u, what) ELSE HoldFor(u, id, what)

Folding(u, id, held, D, f) ==
  f = [s \in SUBSET D |-> IF s = {} THEN u
                          ELSE Delivered(f[s \ {Max(s)}], id, held[Max(s)])]

LEMMA DeliverIsFold ==
  ASSUME NEW u, NEW e
  PROVE  DeliverHeld(u, e) = (CHOOSE f : Folding(u, e.task.id, e.held, DOMAIN e.held, f))[DOMAIN e.held]
BY DEF DeliverHeld, FoldLeft, MapThenFoldSet, Folding, Delivered

LEMMA MaxIs ==
  ASSUME NEW n \in Nat, NEW s \in SUBSET (1..n), n \in s
  PROVE  Max(s) = n
<1>1. \A y \in s : n >= y /\ y \in Nat OBVIOUS
<1>2. \A x \in s : (\A y \in s : x >= y) => x = n BY <1>1
<1> QED BY <1>1, <1>2 DEF Max

LEMMA FoldExists ==
  ASSUME NEW u, NEW id, NEW held
  PROVE  \A n \in Nat : \E f : Folding(u, id, held, 1..n, f)
<1> DEFINE T == {n \in Nat : \E f : Folding(u, id, held, 1..n, f)}
<1>1. 0 \in T
  <2>1. PICK f : f = [s \in SUBSET (1..0) |-> u] OBVIOUS
  <2>2. \A s \in SUBSET (1..0) : s = {} OBVIOUS
  <2>3. f = [s \in SUBSET (1..0) |-> IF s = {} THEN u
                                     ELSE Delivered(f[s \ {Max(s)}], id, held[Max(s)])]
    BY <2>1, <2>2
  <2> QED BY <2>3 DEF Folding
<1>2. ASSUME NEW n \in Nat, n \in T PROVE n + 1 \in T
  <2>1. PICK f : Folding(u, id, held, 1..n, f) BY <1>2
  <2>2. PICK g : g = [s \in SUBSET (1..(n + 1)) |->
                        IF n + 1 \in s THEN Delivered(f[s \ {n + 1}], id, held[n + 1]) ELSE f[s]]
    OBVIOUS
  <2>3. ASSUME NEW s \in SUBSET (1..(n + 1)), n + 1 \notin s
        PROVE  s \in SUBSET (1..n)
    BY <2>3
  <2>4. ASSUME NEW s \in SUBSET (1..(n + 1))
        PROVE  g[s] = IF s = {} THEN u ELSE Delivered(g[s \ {Max(s)}], id, held[Max(s)])
    <3>1. CASE n + 1 \in s
      <4>1. Max(s) = n + 1 BY <3>1, MaxIs
      <4>2. s \ {n + 1} \in SUBSET (1..n) OBVIOUS
      <4>3. g[s \ {n + 1}] = f[s \ {n + 1}] BY <2>2, <4>2
      <4>4. g[s] = Delivered(f[s \ {n + 1}], id, held[n + 1]) BY <2>2, <3>1
      <4> QED BY <3>1, <4>1, <4>3, <4>4
    <3>2. CASE n + 1 \notin s
      <4>1. PICK t : t = s \ {Max(s)} OBVIOUS
      <4>2. s \in SUBSET (1..n) /\ t \in SUBSET (1..n) /\ t \in SUBSET (1..(n + 1))
        BY <2>3, <3>2, <4>1
      <4>3. n + 1 \notin t BY <4>2
      <4>4. g[s] = f[s] /\ g[t] = f[t] BY <2>2, <3>2, <4>2, <4>3
      <4>5. f[s] = IF s = {} THEN u ELSE Delivered(f[t], id, held[Max(s)])
        BY <2>1, <4>1, <4>2 DEF Folding
      <4> QED BY <4>1, <4>4, <4>5
    <3> QED BY <3>1, <3>2
  <2>5. g = [s \in SUBSET (1..(n + 1)) |->
               IF s = {} THEN u ELSE Delivered(g[s \ {Max(s)}], id, held[Max(s)])]
    <3>1. PICK h : h = [s \in SUBSET (1..(n + 1)) |->
                          IF s = {} THEN u ELSE Delivered(g[s \ {Max(s)}], id, held[Max(s)])]
      OBVIOUS
    <3>2. \A s \in SUBSET (1..(n + 1)) : h[s] = g[s] BY <2>4, <3>1
    <3>3. g = h BY <2>2, <3>1, <3>2
    <3> QED BY <3>1, <3>3
  <2>6. Folding(u, id, held, 1..(n + 1), g) BY <2>5 DEF Folding
  <2>7. n + 1 \in Nat OBVIOUS
  <2> QED BY <2>6, <2>7
<1> HIDE DEF T
<1>3. Nat \subseteq T BY <1>1, <1>2, InductOver
<1> QED BY <1>3 DEF T

(* The records DeliverHeld goes through, one for each message delivered.   *)
LEMMA DeliverSteps ==
  ASSUME NEW u, NEW e, e.held \in Seq(Whats)
  PROVE  \E d : /\ d[0] = u /\ DeliverHeld(u, e) = d[Len(e.held)]
                /\ \A i \in 0..(Len(e.held) - 1) :
                     d[i + 1] = Delivered(d[i], e.task.id, e.held[i + 1])
<1>1. PICK n \in Nat : n = Len(e.held) /\ DOMAIN e.held = 1..n OBVIOUS
<1>2. PICK f : /\ Folding(u, e.task.id, e.held, 1..n, f)
               /\ DeliverHeld(u, e) = f[1..n]
  <2>1. PICK D : D = DOMAIN e.held OBVIOUS
  <2>2. \E f : Folding(u, e.task.id, e.held, D, f) BY <1>1, <2>1, FoldExists
  <2>3. PICK f : f = CHOOSE g : Folding(u, e.task.id, e.held, D, g) OBVIOUS
  <2>4. Folding(u, e.task.id, e.held, D, f) BY <2>2, <2>3
  <2> QED BY <1>1, <2>1, <2>3, <2>4, DeliverIsFold
<1>3. PICK d : d = [i \in 0..n |-> f[1..i]] OBVIOUS
<1>4. d[0] = u
  <2>1. 1..0 = {} /\ {} \in SUBSET (1..n) OBVIOUS
  <2>2. f[{}] = u BY <1>2, <2>1 DEF Folding
  <2> QED BY <1>3, <2>1, <2>2
<1>5. ASSUME NEW i \in 0..(n - 1)
      PROVE  d[i + 1] = Delivered(d[i], e.task.id, e.held[i + 1])
  <2>1. PICK s : s = 1..(i + 1) OBVIOUS
  <2>0. i \in Nat /\ i + 1 \in 1..n BY <1>1
  <2>2. s \in SUBSET (1..n) /\ s # {} /\ i + 1 \in s /\ i + 1 \in Nat
    <3>1. \A j \in s : j \in 1..n BY <2>0, <2>1
    <3>2. i + 1 \in s BY <2>0, <2>1
    <3> QED BY <2>0, <3>1, <3>2
  <2>3. Max(s) = i + 1
    <3>1. PICK k \in Nat : k = i + 1 BY <2>0
    <3>2. s \in SUBSET (1..k) BY <2>1, <3>1
    <3> QED BY <2>2, <3>1, <3>2, MaxIs
  <2>4. s \ {i + 1} = 1..i BY <2>0, <2>1
  <2>5. f[s] = Delivered(f[s \ {Max(s)}], e.task.id, e.held[Max(s)]) BY <1>2, <2>2 DEF Folding
  <2>6. d[i + 1] = f[s] /\ d[i] = f[1..i]
    <3>1. i \in 0..n /\ i + 1 \in 0..n BY <2>0
    <3> QED BY <1>3, <2>1, <3>1
  <2> QED BY <2>3, <2>4, <2>5, <2>6
<1>6. d[n] = f[1..n] BY <1>3
<1> QED BY <1>1, <1>2, <1>4, <1>5, <1>6

-----------------------------------------------------------------------------
(* The inductive invariant of the stack.                                   *)
States  == Phases \cup {Unknown}
Screens == [id : Nat, kind : Kinds, conn : States, retrying : BOOLEAN]
Parked  == [task : Screens, held : Seq(Whats)]
Shells  == [task : Screens, stack : Seq(Parked), last : Nat, conn : States,
            flight : SUBSET [owner : Nat, what : {"tick", "open"}]]

(* An identity was handed out once, and nothing is addressed to one that   *)
(* was not.                                                                *)
Numbered(u) ==
  /\ u.task.id <= u.last
  /\ \A k \in 1..Len(u.stack) : /\ u.stack[k].task.id <= u.last
                                /\ u.stack[k].task.id # u.task.id
  /\ \A j, k \in 1..Len(u.stack) : u.stack[j].task.id = u.stack[k].task.id => j = k
  /\ \A om \in u.flight : om.owner <= u.last

(* The active screen shows the state last heard; until one is heard no     *)
(* parked screen shows any.                                                *)
Told(u) ==
  /\ u.task.conn = u.conn
  /\ u.conn = Unknown => \A k \in 1..Len(u.stack) : u.stack[k].task.conn = Unknown

(* The screen at the bottom is not a transient one, so that a screen it    *)
(* opens is pushed over it.                                                *)
Grounded(u) ==
  IF u.stack = <<>> THEN u.task.kind # "transient" ELSE u.stack[1].task.kind # "transient"

(* Screen t has one link of its chain: in flight, held at one position of  *)
(* q, or at one of the positions R of messages taken out to be delivered.  *)
Flies(u, t)   == Owned(t, "tick") \in u.flight
HeldAt(q, j)  == j \in 1..Len(q) /\ q[j] = "tick"
OneLink(u, t, q, R) ==
  /\ Flies(u, t) \/ (\E j \in 1..Len(q) : HeldAt(q, j)) \/ R # {}
  /\ Flies(u, t) => R = {}
  /\ \A j \in 1..Len(q) : HeldAt(q, j) => ~Flies(u, t) /\ R = {}
  /\ \A j, k \in 1..Len(q) : HeldAt(q, j) /\ HeldAt(q, k) => j = k
  /\ \A r1, r2 \in R : r1 = r2

Owed(t, id, R) == IF t = id THEN R ELSE {}
Linked(u, id, R) ==
  /\ OneLink(u, u.task.id, <<>>, Owed(u.task.id, id, R))
  /\ \A k \in 1..Len(u.stack) :
       OneLink(u, u.stack[k].task.id, u.stack[k].held, Owed(u.stack[k].task.id, id, R))

Sane(u) == u \in Shells /\ Numbered(u) /\ Told(u) /\ Grounded(u)
Whole(u, id, R) == Sane(u) /\ id \in 0..u.last /\ Linked(u, id, R)

LEMMA StackEntries ==
  ASSUME NEW u \in Shells
  PROVE  /\ Len(u.stack) \in Nat /\ DOMAIN u.stack = 1..Len(u.stack)
         /\ \A k \in 1..Len(u.stack) :
              u.stack[k] \in Parked /\ u.stack[k].task \in Screens /\ u.stack[k].task.id \in Nat
         /\ u.task \in Screens /\ u.task.id \in Nat /\ u.last \in Nat
<1>1. u.stack \in Seq(Parked) /\ u.task \in Screens /\ u.last \in Nat BY DEF Shells
<1>2. \A e \in Parked : e.task \in Screens BY DEF Parked
<1>3. \A t \in Screens : t.id \in Nat BY DEF Screens
<1>4. \A k \in 1..Len(u.stack) : u.stack[k] \in Parked BY <1>1
<1>5. Len(u.stack) \in Nat /\ DOMAIN u.stack = 1..Len(u.stack) BY <1>1
<1> QED BY <1>1, <1>2, <1>3, <1>4, <1>5

(* Where no messages are taken out, they are taken out of any entry.       *)
LEMMA WholeForAny ==
  ASSUME NEW u, NEW id, NEW t \in 0..u.last, Whole(u, id, {})
  PROVE  Whole(u, t, {})
BY DEF Whole, Linked, Owed

-----------------------------------------------------------------------------
(* A screen that is built: over the stack as it was, over the screen that  *)
(* opened it, or over nothing.                                             *)
Fresh(u, base, c, kind) ==
  [task |-> [id |-> u.last + 1, kind |-> kind, conn |-> c, retrying |-> FALSE],
   stack |-> base, last |-> u.last + 1, conn |-> c,
   flight |-> u.flight \cup {Owned(u.last + 1, "tick")}]

LEMMA FreshForms ==
  ASSUME NEW u \in Shells, NEW kind \in Kinds
  PROVE  /\ \A c \in States : StartsOver([u EXCEPT !.conn = c], kind) = Fresh(u, <<>>, c, kind)
         /\ OpensChild(u, kind) =
              Fresh(u, IF u.task.kind = "transient" THEN u.stack
                       ELSE Append(u.stack, Entry(u.task)), u.conn, kind)
         /\ ActivateFresh(Push(u), kind) = Fresh(u, Append(u.stack, Entry(u.task)), u.conn, kind)
<1>1. ASSUME NEW v \in Shells
      PROVE  ActivateFresh(v, kind) = Fresh(v, v.stack, v.conn, kind)
  <2>1. Replayed(NewTask(v.last + 1, kind), v.conn)
          = [id |-> v.last + 1, kind |-> kind, conn |-> v.conn, retrying |-> FALSE]
    BY DEF Replayed, NewTask
  <2>2. PICK t : t = [id |-> v.last + 1, kind |-> kind, conn |-> v.conn, retrying |-> FALSE]
    OBVIOUS
  <2>3. Activate([v EXCEPT !.last = @ + 1], NewTask(v.last + 1, kind))
          = [v EXCEPT !.last = @ + 1, !.task = t]
    BY <2>1, <2>2 DEF Activate, Shells
  <2>4. PICK w : w = [v EXCEPT !.last = @ + 1, !.task = t] OBVIOUS
  <2>5. /\ w = [task |-> t, stack |-> v.stack, last |-> v.last + 1, conn |-> v.conn,
                flight |-> v.flight]
        /\ t.id = v.last + 1
    BY <2>2, <2>4 DEF Shells
  <2>6. ActivateFresh(v, kind) = Armed(w) BY <2>3, <2>4 DEF ActivateFresh
  <2>7. Armed(w) = [task |-> t, stack |-> v.stack, last |-> v.last + 1, conn |-> v.conn,
                    flight |-> v.flight \cup {Owned(v.last + 1, "tick")}]
    BY <2>5 DEF Armed
  <2> QED BY <2>2, <2>6, <2>7 DEF Fresh
<1>2. u.stack \in Seq(Parked) /\ Entry(u.task) \in Parked
  <2>1. <<>> \in Seq(Whats) OBVIOUS
  <2> QED BY <2>1 DEF Shells, Parked, Entry
<1>3. ASSUME NEW base \in Seq(Parked), NEW c \in States
      PROVE  [u EXCEPT !.stack = base, !.conn = c] \in Shells
  BY DEF Shells
<1>4. u.conn \in States BY DEF Shells
<1>5. ASSUME NEW base \in Seq(Parked), NEW c \in States
      PROVE  ActivateFresh([u EXCEPT !.stack = base, !.conn = c], kind) = Fresh(u, base, c, kind)
  <2>1. PICK v : v = [u EXCEPT !.stack = base, !.conn = c] OBVIOUS
  <2>2. v \in Shells BY <1>3, <2>1
  <2>3. v.stack = base /\ v.conn = c /\ v.last = u.last /\ v.flight = u.flight
    BY <2>1 DEF Shells
  <2> QED BY <1>1, <2>1, <2>2, <2>3 DEF Fresh
<1>6. ASSUME NEW c \in States PROVE StartsOver([u EXCEPT !.conn = c], kind) = Fresh(u, <<>>, c, kind)
  <2>1. [[u EXCEPT !.conn = c] EXCEPT !.stack = <<>>] = [u EXCEPT !.stack = <<>>, !.conn = c]
    BY DEF Shells
  <2>2. <<>> \in Seq(Parked) OBVIOUS
  <2> QED BY <1>5, <2>1, <2>2 DEF StartsOver
<1>7. Append(u.stack, Entry(u.task)) \in Seq(Parked) BY <1>2
<1>8. Push(u) = [u EXCEPT !.stack = Append(u.stack, Entry(u.task)), !.conn = u.conn]
  BY DEF Push, Shells
<1>9. u = [u EXCEPT !.stack = u.stack, !.conn = u.conn] BY DEF Shells
<1> QED BY <1>2, <1>4, <1>5, <1>6, <1>7, <1>8, <1>9 DEF OpensChild

LEMMA FreshWhole ==
  ASSUME NEW u, NEW id, NEW R, Whole(u, id, R), NEW kind \in Kinds, NEW c \in States, NEW base,
         \/ base = <<>> /\ kind # "transient"
         \/ base = u.stack /\ u.stack # <<>> /\ c = u.conn
         \/ base = Append(u.stack, Entry(u.task)) /\ (u.stack = <<>> => u.task.kind # "transient")
            /\ c = u.conn
  PROVE  Whole(Fresh(u, base, c, kind), id, R)
<1>1. u \in Shells /\ Numbered(u) /\ Told(u) /\ Grounded(u) /\ id \in 0..u.last /\ Linked(u, id, R)
  BY DEF Whole, Sane
<1>2. PICK n : n = u.last + 1 OBVIOUS
<1>3. u.last \in Nat /\ n \in Nat /\ n # id BY <1>1, <1>2 DEF Shells
<1>4. PICK v : v = Fresh(u, base, c, kind) OBVIOUS
<1>5. /\ v.task = [id |-> n, kind |-> kind, conn |-> c, retrying |-> FALSE]
      /\ v.stack = base /\ v.last = n /\ v.conn = c
      /\ v.flight = u.flight \cup {Owned(n, "tick")}
  BY <1>2, <1>4 DEF Fresh
<1>6. u.stack \in Seq(Parked) /\ Entry(u.task) \in Parked /\ <<>> \in Seq(Parked)
  <2>1. <<>> \in Seq(Whats) OBVIOUS
  <2> QED BY <1>1, <2>1 DEF Shells, Parked, Entry
<1>7. base \in Seq(Parked) /\ (base = <<>> => kind # "transient")
  <2>1. PICK e : e = Entry(u.task) OBVIOUS
  <2>2. Append(u.stack, e) \in Seq(Parked) /\ Append(u.stack, e) # <<>> BY <1>6, <2>1
  <2> QED BY <1>6, <2>1, <2>2
<1>8. v \in Shells
  <2>1. Owned(n, "tick") \in [owner : Nat, what : {"tick", "open"}] BY <1>3 DEF Owned
  <2>2. v.task \in Screens BY <1>3, <1>5 DEF Screens
  <2> QED BY <1>1, <1>2, <1>3, <1>4, <1>5, <1>7, <2>1, <2>2 DEF Fresh, Shells
<1>9. \/ base = <<>>
      \/ base = u.stack
      \/ /\ Len(base) = Len(u.stack) + 1 /\ base[Len(base)] = Entry(u.task)
         /\ \A k \in 1..Len(u.stack) : base[k] = u.stack[k]
  BY <1>6
<1>10. ASSUME NEW k \in 1..Len(base)
       PROVE  \/ k \in 1..Len(u.stack) /\ base[k] = u.stack[k]
              \/ k = Len(u.stack) + 1 /\ base[k] = Entry(u.task)
  BY <1>6, <1>9
<1>11. Entry(u.task).task = u.task /\ Entry(u.task).held = <<>> BY DEF Entry
<1>12. u.task.id \in Nat /\ \A k \in 1..Len(u.stack) : u.stack[k].task.id \in Nat
  BY <1>1, StackEntries
<1>13. Numbered(v)
  <2>1. ASSUME NEW k \in 1..Len(base)
        PROVE  base[k].task.id \in Nat /\ base[k].task.id <= u.last
    BY <1>1, <1>10, <1>11, <1>12 DEF Numbered
  <2>2. \A k \in 1..Len(base) : base[k].task.id <= n /\ base[k].task.id # n
    BY <1>2, <1>3, <2>1
  <2>3. ASSUME NEW j \in 1..Len(base), NEW k \in 1..Len(base), base[j].task.id = base[k].task.id
        PROVE  j = k
    BY <1>1, <1>10, <1>11, <2>3 DEF Numbered
  <2>4. \A om \in v.flight : om.owner <= n
    <3>1. ASSUME NEW om \in u.flight PROVE om.owner <= n
      <4>1. om.owner \in Nat /\ om.owner <= u.last BY <1>1 DEF Numbered, Shells
      <4> QED BY <1>2, <1>3, <4>1
    <3> QED BY <1>3, <1>5, <3>1 DEF Owned
  <2> QED BY <1>3, <1>5, <2>2, <2>3, <2>4 DEF Numbered
<1>14. Told(v)
  <2>1. ASSUME c = Unknown, NEW k \in 1..Len(base) PROVE base[k].task.conn = Unknown
    <3>1. base # <<>> /\ c = u.conn BY <2>1
    <3> QED BY <1>1, <1>10, <1>11, <2>1, <3>1 DEF Told
  <2> QED BY <1>5, <2>1 DEF Told
<1>15. Grounded(v)
  <2>1. CASE base = <<>> BY <1>5, <1>7, <2>1 DEF Grounded
  <2>2. CASE base = u.stack /\ u.stack # <<>> BY <1>1, <1>5, <2>2 DEF Grounded
  <2>3. CASE base = Append(u.stack, Entry(u.task))
    <3>1. base # <<>> /\ base[1] = IF u.stack = <<>> THEN Entry(u.task) ELSE u.stack[1]
      BY <1>6, <2>3
    <3>2. base[1].task.kind # "transient" BY <1>1, <1>11, <3>1 DEF Grounded
    <3> QED BY <1>5, <3>1, <3>2 DEF Grounded
  <2> QED BY <2>1, <2>2, <2>3
<1>16. Linked(v, id, R)
  <2>1. \A t : t # n => (Flies(v, t) <=> Flies(u, t)) BY <1>5 DEF Flies, Owned
  <2>2. OneLink(v, n, <<>>, {}) BY <1>5 DEF OneLink, Flies, HeldAt
  <2>3. Owed(n, id, R) = {} BY <1>3 DEF Owed
  <2>4. ASSUME NEW t, NEW q, NEW S, t # n, OneLink(u, t, q, S) PROVE OneLink(v, t, q, S)
    BY <2>1, <2>4 DEF OneLink
  <2>5. ASSUME NEW k \in 1..Len(base)
        PROVE  OneLink(v, base[k].task.id, base[k].held, Owed(base[k].task.id, id, R))
    <3>1. base[k].task.id # n
      <4>1. base[k].task.id \in Nat /\ base[k].task.id <= u.last
        BY <1>1, <1>10, <1>11, <1>12 DEF Numbered
      <4> QED BY <1>2, <1>3, <4>1
    <3>2. OneLink(u, base[k].task.id, base[k].held, Owed(base[k].task.id, id, R))
      BY <1>1, <1>10, <1>11 DEF Linked
    <3> QED BY <2>4, <3>1, <3>2
  <2>6. v.task.id = n BY <1>5
  <2> QED BY <1>5, <2>2, <2>3, <2>5, <2>6 DEF Linked
<1>17. id \in 0..v.last BY <1>1, <1>2, <1>3, <1>5
<1> QED BY <1>4, <1>8, <1>13, <1>14, <1>15, <1>16, <1>17 DEF Whole, Sane

(* The active screen changes its own fields, or hears a state.             *)
LEMMA TaskWhole ==
  ASSUME NEW u, NEW id, NEW R, Whole(u, id, R), NEW c \in States, NEW b \in BOOLEAN,
         c = u.conn \/ c # Unknown,
         NEW v, v = [u EXCEPT !.task = [@ EXCEPT !.conn = c, !.retrying = b], !.conn = c]
  PROVE  Whole(v, id, R)
<1>1. u \in Shells /\ Numbered(u) /\ Told(u) /\ Grounded(u) /\ id \in 0..u.last /\ Linked(u, id, R)
  BY DEF Whole, Sane
<1>2. PICK t : t = [u.task EXCEPT !.conn = c, !.retrying = b] OBVIOUS
<1>3. t \in Screens /\ t.id = u.task.id /\ t.kind = u.task.kind /\ t.conn = c
  BY <1>1, <1>2 DEF Shells, Screens
<1>4. v.task = t /\ v.stack = u.stack /\ v.last = u.last /\ v.conn = c /\ v.flight = u.flight
  BY <1>1, <1>2 DEF Shells
<1>5. v \in Shells BY <1>1, <1>2, <1>3 DEF Shells
<1>6. Numbered(v) /\ Grounded(v) BY <1>1, <1>3, <1>4 DEF Numbered, Grounded
<1>7. Told(v) BY <1>1, <1>3, <1>4 DEF Told
<1>8. Linked(v, id, R)
  <2>1. \A k : Flies(v, k) <=> Flies(u, k) BY <1>4 DEF Flies
  <2>2. \A k, q, S : OneLink(u, k, q, S) => OneLink(v, k, q, S) BY <2>1 DEF OneLink
  <2> QED BY <1>1, <1>3, <1>4, <2>2 DEF Linked
<1> QED BY <1>1, <1>4, <1>5, <1>6, <1>7, <1>8 DEF Whole, Sane

(* A change of what is in flight, and of the messages taken out, that      *)
(* leaves each screen its link.                                            *)
LEMMA FlightWhole ==
  ASSUME NEW u, NEW id, NEW R, Sane(u), id \in 0..u.last, NEW F, NEW S,
         F \in SUBSET [owner : Nat, what : {"tick", "open"}], \A om \in F : om.owner <= u.last,
         NEW v, v = [u EXCEPT !.flight = F],
         \A t, q : OneLink(u, t, q, Owed(t, id, R)) => OneLink(v, t, q, Owed(t, id, S)),
         Linked(u, id, R)
  PROVE  Whole(v, id, S)
<1>1. u \in Shells /\ Numbered(u) /\ Told(u) /\ Grounded(u) BY DEF Sane
<1>2. v.task = u.task /\ v.stack = u.stack /\ v.last = u.last /\ v.conn = u.conn /\ v.flight = F
  BY <1>1 DEF Shells
<1>3. v \in Shells BY <1>1 DEF Shells
<1>4. Numbered(v) /\ Grounded(v) /\ Told(v) BY <1>1, <1>2 DEF Numbered, Grounded, Told
<1>5. Linked(v, id, S) BY <1>2 DEF Linked
<1> QED BY <1>2, <1>3, <1>4, <1>5 DEF Whole, Sane

(* A link that was taken out is delivered to the active screen, which arms *)
(* the next one.                                                           *)
LEMMA ArmedWhole ==
  ASSUME NEW u, NEW id, NEW R, Whole(u, id, R), u.task.id = id, NEW r \in R
  PROVE  Whole(Armed(u), id, R \ {r})
<1>1. Sane(u) /\ u \in Shells /\ Numbered(u) /\ id \in 0..u.last /\ Linked(u, id, R)
  BY DEF Whole, Sane
<1>2. PICK F, v : F = u.flight \cup {Owned(id, "tick")} /\ v = [u EXCEPT !.flight = F] OBVIOUS
<1>3. Armed(u) = v BY <1>2 DEF Armed
<1>4. F \in SUBSET [owner : Nat, what : {"tick", "open"}] /\ \A om \in F : om.owner <= u.last
  BY <1>1, <1>2 DEF Shells, Numbered, Owned
<1>5. v.flight = F BY <1>1, <1>2 DEF Shells
<1>6. R \ {r} = {} /\ ~Flies(u, id) BY <1>1 DEF Linked, OneLink, Owed
<1>7. Flies(v, id) /\ \A t : t # id => (Flies(v, t) <=> Flies(u, t))
  BY <1>2, <1>5 DEF Flies, Owned
<1>8. ASSUME NEW t, NEW q, OneLink(u, t, q, Owed(t, id, R))
      PROVE  OneLink(v, t, q, Owed(t, id, R \ {r}))
  <2>1. CASE t = id BY <1>6, <1>7, <1>8, <2>1 DEF OneLink, Owed
  <2>2. CASE t # id BY <1>7, <1>8, <2>2 DEF OneLink, Owed
  <2> QED BY <2>1, <2>2
<1>9. \A t, q : OneLink(u, t, q, Owed(t, id, R)) => OneLink(v, t, q, Owed(t, id, R \ {r}))
  BY <1>8
<1>10. v = [u EXCEPT !.flight = F] BY <1>2
<1>11. Whole(v, id, R \ {r}) BY <1>1, <1>4, <1>9, <1>10, FlightWhole
<1> QED BY <1>3, <1>11

(* A message is held for a parked screen; the link it carries moves there. *)
LEMMA HoldWhole ==
  ASSUME NEW u, NEW id, NEW R, Whole(u, id, R), u.task.id # id, NEW what \in Whats, NEW r,
         NEW S, IF what = "tick" THEN r \in R /\ S = R \ {r} ELSE S = R
  PROVE  Whole(HoldFor(u, id, what), id, S) /\ Len(HoldFor(u, id, what).stack) = Len(u.stack)
<1>1. u \in Shells /\ Numbered(u) /\ Told(u) /\ Grounded(u) /\ id \in 0..u.last /\ Linked(u, id, R)
  BY DEF Whole, Sane
<1>2. PICK n \in Nat : /\ n = Len(u.stack) /\ DOMAIN u.stack = 1..n
                       /\ \A k \in 1..n : u.stack[k] \in Parked
  BY <1>1, StackEntries
<1>3. PICK base : base = [i \in 1..n |->
                            IF u.stack[i].task.id = id
                            THEN [u.stack[i] EXCEPT !.held = Append(@, what)] ELSE u.stack[i]]
  OBVIOUS
<1>4. ASSUME NEW k \in 1..n
      PROVE  /\ base[k] \in Parked /\ base[k].task = u.stack[k].task
             /\ base[k].held = IF u.stack[k].task.id = id THEN Append(u.stack[k].held, what)
                               ELSE u.stack[k].held
             /\ u.stack[k].held \in Seq(Whats)
  <2>1. u.stack[k] \in Parked /\ u.stack[k].held \in Seq(Whats) BY <1>2 DEF Parked
  <2>2. base[k] = IF u.stack[k].task.id = id THEN [u.stack[k] EXCEPT !.held = Append(@, what)]
                  ELSE u.stack[k]
    BY <1>3
  <2>3. Append(u.stack[k].held, what) \in Seq(Whats) BY <2>1
  <2> QED BY <2>1, <2>2, <2>3 DEF Parked
<1>5. base \in Seq(Parked) /\ Len(base) = n /\ DOMAIN base = 1..n
  <2>1. base \in [1..n -> Parked] BY <1>3, <1>4
  <2> QED BY <2>1
<1>6. PICK v : v = [u EXCEPT !.stack = base] OBVIOUS
<1>7. HoldFor(u, id, what) = v BY <1>2, <1>3, <1>6 DEF HoldFor
<1>8. v.task = u.task /\ v.stack = base /\ v.last = u.last /\ v.conn = u.conn
      /\ v.flight = u.flight
  BY <1>1, <1>6 DEF Shells
<1>9. v \in Shells BY <1>1, <1>5, <1>6 DEF Shells
<1>10. Numbered(v) BY <1>1, <1>2, <1>4, <1>5, <1>8 DEF Numbered
<1>11. Told(v) BY <1>1, <1>2, <1>4, <1>5, <1>8 DEF Told
<1>12. Grounded(v)
  <2>1. CASE n = 0
    <3>1. \A q \in Seq(Parked) : Len(q) = 0 => q = <<>> OBVIOUS
    <3>2. u.stack \in Seq(Parked) BY <1>1 DEF Shells
    <3>3. u.stack = <<>> /\ base = <<>> BY <1>2, <1>5, <2>1, <3>1, <3>2
    <3> QED BY <1>1, <1>8, <3>3 DEF Grounded
  <2>2. CASE n # 0
    <3>1. u.stack # <<>> /\ base # <<>> /\ 1 \in 1..n BY <1>2, <1>5, <2>2
    <3> QED BY <1>1, <1>4, <1>8, <3>1 DEF Grounded
  <2> QED BY <2>1, <2>2
<1>13. Linked(v, id, S)
  <2>1. \A t : Flies(v, t) <=> Flies(u, t) BY <1>8 DEF Flies
  <2>2. OneLink(v, v.task.id, <<>>, Owed(v.task.id, id, S))
    BY <1>1, <1>8, <2>1 DEF Linked, OneLink, Owed
  <2>3. ASSUME NEW k \in 1..n
        PROVE  OneLink(v, base[k].task.id, base[k].held, Owed(base[k].task.id, id, S))
    <3>1. OneLink(u, u.stack[k].task.id, u.stack[k].held, Owed(u.stack[k].task.id, id, R))
      BY <1>1, <1>2 DEF Linked
    <3>2. CASE u.stack[k].task.id # id BY <1>4, <2>1, <3>1, <3>2 DEF OneLink, Owed
    <3>3. CASE u.stack[k].task.id = id
      <4>1. PICK q, p : q = u.stack[k].held /\ p = Append(q, what) OBVIOUS
      <4>2. q \in Seq(Whats) /\ p = base[k].held /\ OneLink(u, id, q, R)
        BY <1>4, <3>1, <3>3, <4>1 DEF Owed
      <4>3. /\ Len(q) \in Nat /\ Len(p) = Len(q) + 1 /\ p[Len(q) + 1] = what
            /\ \A j \in 1..Len(q) : p[j] = q[j]
        <5>1. q \in Seq(Whats) /\ p = Append(q, what) BY <4>1, <4>2
        <5> QED BY <5>1
      <4>4. CASE what = "tick"
        <5>1. /\ ~Flies(v, id) /\ S = {}
              /\ \A j \in 1..Len(q) : q[j] # "tick"
          BY <2>1, <4>2, <4>4 DEF OneLink, HeldAt
        <5>2. \A j \in 1..Len(p) : HeldAt(p, j) <=> j = Len(q) + 1
          BY <4>3, <4>4, <5>1 DEF HeldAt
        <5>3. Len(q) + 1 \in 1..Len(p) BY <4>3
        <5> QED BY <1>4, <3>3, <4>2, <5>1, <5>2, <5>3 DEF OneLink, Owed
      <4>5. CASE what # "tick"
        <5>1. \A j \in 1..Len(p) : HeldAt(p, j) <=> j \in 1..Len(q) /\ HeldAt(q, j)
          BY <4>3, <4>5 DEF HeldAt
        <5>2. S = R BY <4>5
        <5>3. OneLink(v, id, p, R) BY <2>1, <4>2, <4>3, <5>1 DEF OneLink
        <5> QED BY <1>4, <3>3, <4>2, <5>2, <5>3 DEF Owed
      <4> QED BY <4>4, <4>5
    <3> QED BY <3>2, <3>3
  <2> QED BY <1>5, <1>8, <2>2, <2>3 DEF Linked
<1> QED BY <1>1, <1>2, <1>5, <1>7, <1>8, <1>9, <1>10, <1>11, <1>12, <1>13 DEF Whole, Sane

-----------------------------------------------------------------------------
(* A message delivered to the screen it is for.                            *)

(* A screen was put over the others if one was built since L.              *)
Covered(u, L) == u.last > L => u.stack # <<>>

LEMMA OpensWhole ==
  ASSUME NEW u, NEW id, NEW R, Whole(u, id, R), NEW kind \in Kinds
  PROVE  Whole(OpensChild(u, kind), id, R) /\ OpensChild(u, kind).stack # <<>>
<1>1. u \in Shells /\ Grounded(u) BY DEF Whole, Sane
<1>2. PICK e : e = Entry(u.task) OBVIOUS
<1>3. u.stack \in Seq(Parked) /\ e \in Parked
  <2>1. <<>> \in Seq(Whats) OBVIOUS
  <2> QED BY <1>1, <1>2, <2>1 DEF Shells, Parked, Entry
<1>4. PICK base : base = IF u.task.kind = "transient" THEN u.stack ELSE Append(u.stack, e) OBVIOUS
<1>5. base # <<>>
  <2>1. Append(u.stack, e) # <<>> BY <1>3
  <2> QED BY <1>1, <1>4, <2>1 DEF Grounded
<1>6. OpensChild(u, kind) = Fresh(u, base, u.conn, kind) BY <1>1, <1>2, <1>4, FreshForms
<1>7. u.conn \in States BY <1>1 DEF Shells
<1>8. \/ base = u.stack /\ u.stack # <<>>
      \/ base = Append(u.stack, e) /\ u.task.kind # "transient"
  BY <1>4, <1>5
<1>9. Whole(Fresh(u, base, u.conn, kind), id, R) BY <1>2, <1>7, <1>8, FreshWhole
<1> QED BY <1>5, <1>6, <1>9 DEF Fresh

LEMMA DeliveredWhole ==
  ASSUME NEW u, NEW id, NEW R, Whole(u, id, R), NEW what \in Whats, NEW r,
         NEW S, IF what = "tick" THEN r \in R /\ S = R \ {r} ELSE S = R
  PROVE  /\ Whole(Delivered(u, id, what), id, S)
         /\ \A L \in Nat : Covered(u, L) => Covered(Delivered(u, id, what), L)
<1>1. u \in Shells BY DEF Whole, Sane
<1>2. CASE u.task.id # id
  <2>1. PICK v : v = HoldFor(u, id, what) OBVIOUS
  <2>2. Whole(v, id, S) /\ Len(v.stack) = Len(u.stack) BY <1>2, <2>1, HoldWhole
  <2>3. v.last = u.last BY <1>1, <2>1 DEF HoldFor, Shells
  <2>4. \A q \in Seq(Parked) : q = <<>> <=> Len(q) = 0 OBVIOUS
  <2>5. u.stack \in Seq(Parked) /\ v.stack \in Seq(Parked) BY <1>1, <2>2 DEF Whole, Sane, Shells
  <2>6. u.stack = <<>> <=> v.stack = <<>> BY <2>2, <2>4, <2>5
  <2>7. \A L \in Nat : Covered(u, L) => Covered(v, L) BY <2>3, <2>6 DEF Covered
  <2> QED BY <1>2, <2>1, <2>2, <2>7 DEF Delivered
<1>3. CASE u.task.id = id /\ what = "tick"
  <2>1. PICK v : v = Armed(u) OBVIOUS
  <2>2. Delivered(u, id, what) = v BY <1>3, <2>1 DEF Delivered, Forward
  <2>3. v.last = u.last /\ v.stack = u.stack BY <1>1, <2>1 DEF Armed, Shells
  <2>4. Whole(v, id, S) BY <1>3, <2>1, ArmedWhole
  <2> QED BY <2>2, <2>3, <2>4 DEF Covered
<1>4. CASE u.task.id = id /\ what = "open"
  <2>1. PICK v : v = OpensChild(u, "detail") OBVIOUS
  <2>2. Delivered(u, id, what) = v BY <1>4, <2>1 DEF Delivered, Forward
  <2>3. Whole(v, id, R) /\ v.stack # <<>> BY <2>1, OpensWhole DEF Kinds
  <2> QED BY <1>4, <2>2, <2>3 DEF Covered
<1>5. CASE u.task.id = id /\ what = "failed"
  <2>1. PICK v : v = [u EXCEPT !.task = [@ EXCEPT !.conn = u.conn, !.retrying = FALSE],
                               !.conn = u.conn]
    OBVIOUS
  <2>2. u.conn \in States /\ u.task \in Screens /\ u.task.conn = u.conn
    BY <1>1 DEF Shells, Whole, Sane, Told
  <2>3. [u EXCEPT !.task.retrying = FALSE] = v BY <1>1, <2>1, <2>2 DEF Shells, Screens
  <2>4. Delivered(u, id, what) = v BY <1>5, <2>3 DEF Delivered, Forward
  <2>5. v.last = u.last /\ v.stack = u.stack BY <1>1, <2>1 DEF Shells
  <2>6. Whole(v, id, R) BY <2>1, <2>2, TaskWhole
  <2> QED BY <1>5, <2>4, <2>5, <2>6 DEF Covered
<1> QED BY <1>2, <1>3, <1>4, <1>5 DEF Whats

(* A routed message leaves the flight and reaches its screen, or nobody.   *)
LEMMA RouteWhole ==
  ASSUME NEW u, NEW id, Whole(u, id, {}), NEW om \in u.flight
  PROVE  /\ Whole(RouteOwned([u EXCEPT !.flight = @ \ {om}], om.owner, om.what), om.owner, {})
         /\ \A L \in Nat : Covered(u, L) =>
              Covered(RouteOwned([u EXCEPT !.flight = @ \ {om}], om.owner, om.what), L)
<1>1. u \in Shells /\ Numbered(u) /\ Sane(u) BY DEF Whole, Sane
<1>2. PICK t, what : t = om.owner /\ what = om.what OBVIOUS
<1>3. om = Owned(t, what) /\ t \in 0..u.last /\ what \in {"tick", "open"} /\ what \in Whats
  BY <1>1, <1>2 DEF Shells, Numbered, Owned, Whats
<1>4. Linked(u, t, {}) BY <1>3, WholeForAny DEF Whole
<1>5. PICK F, v : F = u.flight \ {om} /\ v = [u EXCEPT !.flight = F] OBVIOUS
<1>6. /\ F \in SUBSET [owner : Nat, what : {"tick", "open"}]
      /\ \A o \in F : o.owner <= u.last
  BY <1>1, <1>5 DEF Shells, Numbered
<1>7. v.flight = F /\ v.last = u.last /\ v.stack = u.stack BY <1>1, <1>5 DEF Shells
<1>8. PICK R : R = IF what = "tick" THEN {0} ELSE {} OBVIOUS
<1>9. ASSUME NEW k, NEW q, OneLink(u, k, q, Owed(k, t, {})) PROVE OneLink(v, k, q, Owed(k, t, R))
  <2>1. \A j : Owned(j, "tick") = om <=> what = "tick" /\ j = t
    <3>1. \A j : Owned(j, "tick").owner = j /\ Owned(j, "tick").what = "tick" BY DEF Owned
    <3> QED BY <1>2, <1>3, <3>1
  <2>2. \A j : Flies(v, j) <=> Flies(u, j) /\ ~(what = "tick" /\ j = t)
    BY <1>5, <1>7, <2>1 DEF Flies
  <2>3. CASE k = t /\ what = "tick"
    <3>1. Flies(u, k) BY <1>3, <2>3 DEF Flies
    <3> QED BY <1>8, <1>9, <2>2, <2>3, <3>1 DEF OneLink, Owed
  <2>4. CASE ~(k = t /\ what = "tick")
    <3>1. Flies(v, k) <=> Flies(u, k) BY <2>2, <2>4
    <3>2. Owed(k, t, R) = Owed(k, t, {}) BY <1>8, <2>4 DEF Owed
    <3> QED BY <1>9, <3>1, <3>2 DEF OneLink
  <2> QED BY <2>3, <2>4
<1>10. Whole(v, t, R)
  <2>1. \A k, q : OneLink(u, k, q, Owed(k, t, {})) => OneLink(v, k, q, Owed(k, t, R)) BY <1>9
  <2>2. v = [u EXCEPT !.flight = F] BY <1>5
  <2> QED BY <1>1, <1>3, <1>4, <1>6, <2>1, <2>2, FlightWhole
<1>11. RouteOwned([u EXCEPT !.flight = @ \ {om}], om.owner, om.what) = Delivered(v, t, what)
  BY <1>2, <1>5 DEF RouteOwned, Delivered
<1>12. IF what = "tick" THEN 0 \in R /\ {} = R \ {0} ELSE {} = R BY <1>8
<1>13. /\ Whole(Delivered(v, t, what), t, {})
       /\ \A L \in Nat : Covered(v, L) => Covered(Delivered(v, t, what), L)
  BY <1>3, <1>10, <1>12, DeliveredWhole
<1>14. \A L \in Nat : Covered(u, L) => Covered(v, L) BY <1>7 DEF Covered
<1> QED BY <1>2, <1>11, <1>13, <1>14

(* The end of a rebuild reaches the screen that asked for it, or nobody.   *)
LEMMA FailedWhole ==
  ASSUME NEW u, Whole(u, 0, {}), NEW owner, NEW v, v = RouteOwned(u, owner, "failed")
  PROVE  Whole(v, 0, {}) /\ Covered(v, u.last)
<1>1. u \in Shells /\ Numbered(u) BY DEF Whole, Sane
<1>2. u.last \in Nat /\ Covered(u, u.last) BY <1>1, StackEntries DEF Covered
<1>3. "failed" \in Whats /\ "failed" # "tick" BY DEF Whats
<1>4. v = Delivered(u, owner, "failed") BY DEF RouteOwned, Delivered
<1>5. CASE owner \in 0..u.last
  <2>1. PICK S : S = {} OBVIOUS
  <2>2. Whole(u, owner, {}) BY <1>5, WholeForAny
  <2>3. /\ Whole(Delivered(u, owner, "failed"), owner, S)
        /\ \A L \in Nat : Covered(u, L) => Covered(Delivered(u, owner, "failed"), L)
    BY <1>3, <2>1, <2>2, DeliveredWhole
  <2>4. Whole(v, owner, {}) /\ Covered(v, u.last) BY <1>2, <1>4, <2>1, <2>3
  <2>5. v \in Shells BY <2>4 DEF Whole, Sane
  <2>6. 0 \in 0..v.last
    <3>1. v.last \in Nat BY <2>5, StackEntries
    <3> QED BY <3>1
  <2> QED BY <2>4, <2>6, WholeForAny
<1>6. CASE owner \notin 0..u.last
  <2>1. PICK n \in Nat : n = Len(u.stack) /\ DOMAIN u.stack = 1..n BY <1>1, StackEntries
  <2>2. u.task.id \in 0..u.last /\ \A k \in 1..n : u.stack[k].task.id \in 0..u.last
    BY <1>1, <1>2, <2>1, StackEntries DEF Numbered
  <2>3. v = HoldFor(u, owner, "failed") BY <1>4, <1>6, <2>2 DEF Delivered
  <2>4. PICK base : base = [i \in 1..n |-> u.stack[i]] OBVIOUS
  <2>5. v = [u EXCEPT !.stack = base] BY <1>6, <2>1, <2>2, <2>3, <2>4 DEF HoldFor
  <2>6. base = u.stack
    <3>1. u.stack \in Seq(Parked) BY <1>1 DEF Shells
    <3> QED BY <2>1, <2>4, <3>1
  <2>7. v = u BY <1>1, <2>5, <2>6 DEF Shells
  <2> QED BY <1>2, <2>7
<1> QED BY <1>5, <1>6

-----------------------------------------------------------------------------
(* Going back: the parked screen becomes active, and the messages held for *)
(* it are taken out. Those at the positions Rest are still to come.        *)
Rest(held, i) == {j \in 1..Len(held) : j > i /\ held[j] = "tick"}

LEMMA UncoveredWhole ==
  ASSUME NEW u, NEW id, Whole(u, id, {}), u.stack # <<>>,
         NEW e, e = Last(u.stack),
         NEW v, v = Activate([u EXCEPT !.stack = Front(@)], e.task)
  PROVE  /\ Whole(v, e.task.id, Rest(e.held, 0)) /\ e.held \in Seq(Whats)
         /\ v.task.id = e.task.id /\ v.last = u.last
<1>1. u \in Shells /\ Numbered(u) /\ Told(u) /\ Grounded(u) /\ Linked(u, id, {})
  BY DEF Whole, Sane
<1>2. u.stack \in Seq(Parked) BY <1>1 DEF Shells
<1>3. PICK n \in Nat : n = Len(u.stack) BY <1>2
<1>4. /\ n # 0 /\ n \in 1..n /\ 1 \in 1..n /\ n - 1 \in Nat
      /\ \A k \in 1..n : u.stack[k] \in Parked
  <2>1. \A q \in Seq(Parked) : Len(q) = 0 => q = <<>> OBVIOUS
  <2>2. n # 0 BY <1>2, <1>3, <2>1
  <2> QED BY <1>2, <1>3, <2>2
<1>5. PICK base : base = Front(u.stack) OBVIOUS
<1>6. base \in Seq(Parked) /\ Len(base) = n - 1 /\ \A k \in 1..(n - 1) : base[k] = u.stack[k]
  <2>1. base = SubSeq(u.stack, 1, n - 1) BY <1>3, <1>5 DEF Front
  <2> QED BY <1>2, <1>3, <1>4, <2>1
<1>7. e = u.stack[n] /\ e \in Parked /\ e.task \in Screens /\ e.held \in Seq(Whats)
  BY <1>3, <1>4 DEF Last, Parked
<1>8. PICK t : t = Replayed(e.task, u.conn) OBVIOUS
<1>9. t \in Screens /\ t.id = e.task.id /\ t.kind = e.task.kind /\ t.conn = u.conn
  <2>1. u.conn \in States BY <1>1 DEF Shells
  <2>2. u.conn = Unknown => e.task.conn = Unknown BY <1>1, <1>3, <1>4, <1>7 DEF Told
  <2>3. CASE u.conn = Unknown BY <1>7, <1>8, <2>2, <2>3 DEF Replayed
  <2>4. CASE u.conn # Unknown BY <1>7, <1>8, <2>1, <2>4 DEF Replayed, Screens
  <2> QED BY <2>3, <2>4
<1>10. v = [u EXCEPT !.stack = base, !.task = t] BY <1>1, <1>5, <1>8 DEF Activate, Shells
<1>11. /\ v.task = t /\ v.stack = base /\ v.last = u.last /\ v.conn = u.conn
       /\ v.flight = u.flight
  BY <1>1, <1>10 DEF Shells
<1>12. v \in Shells BY <1>1, <1>6, <1>9, <1>10 DEF Shells
<1>13. \A k \in 1..(n - 1) : k \in 1..n /\ k # n BY <1>4
<1>14. Numbered(v)
  <2>1. t.id <= u.last BY <1>1, <1>3, <1>4, <1>7, <1>9 DEF Numbered
  <2>2. ASSUME NEW k \in 1..(n - 1)
        PROVE  base[k].task.id <= u.last /\ base[k].task.id # t.id
    BY <1>1, <1>3, <1>4, <1>6, <1>7, <1>9, <1>13 DEF Numbered
  <2>3. \A j, k \in 1..(n - 1) : base[j].task.id = base[k].task.id => j = k
    BY <1>1, <1>3, <1>6, <1>13 DEF Numbered
  <2>4. \A om \in u.flight : om.owner <= u.last BY <1>1 DEF Numbered
  <2> QED BY <1>6, <1>11, <2>1, <2>2, <2>3, <2>4 DEF Numbered
<1>15. Told(v)
  <2>1. ASSUME u.conn = Unknown, NEW k \in 1..(n - 1) PROVE base[k].task.conn = Unknown
    BY <1>1, <1>3, <1>6, <1>13, <2>1 DEF Told
  <2> QED BY <1>6, <1>9, <1>11, <2>1 DEF Told
<1>16. Grounded(v)
  <2>1. u.stack[1].task.kind # "transient" BY <1>1 DEF Grounded
  <2>2. CASE base = <<>>
    <3>1. n = 1 BY <1>4, <1>6, <2>2
    <3> QED BY <1>7, <1>9, <1>11, <2>1, <2>2, <3>1 DEF Grounded
  <2>3. CASE base # <<>>
    <3>1. \A q \in Seq(Parked) : Len(q) = 0 => q = <<>> OBVIOUS
    <3>2. 1 \in 1..(n - 1) BY <1>4, <1>6, <2>3, <3>1
    <3> QED BY <1>6, <1>11, <2>1, <2>3, <3>2 DEF Grounded
  <2> QED BY <2>2, <2>3
<1>17. Linked(v, e.task.id, Rest(e.held, 0))
  <2>1. \A k : Flies(v, k) <=> Flies(u, k) BY <1>11 DEF Flies
  <2>2. OneLink(v, t.id, <<>>, Rest(e.held, 0))
    <3>1. OneLink(u, e.task.id, e.held, {})
      BY <1>1, <1>3, <1>4, <1>7 DEF Linked, Owed
    <3>2. Len(e.held) \in Nat BY <1>7
    <3>3. \A j : j \in Rest(e.held, 0) <=> HeldAt(e.held, j)
      BY <3>2 DEF Rest, HeldAt
    <3>4. \A j : HeldAt(e.held, j) => j \in 1..Len(e.held) BY DEF HeldAt
    <3>5. Rest(e.held, 0) = {} <=> \A j \in 1..Len(e.held) : ~HeldAt(e.held, j) BY <3>3, <3>4
    <3>6. Flies(u, e.task.id) => Rest(e.held, 0) = {} BY <3>1, <3>5 DEF OneLink
    <3>7. Flies(u, e.task.id) \/ Rest(e.held, 0) # {} BY <3>1, <3>5 DEF OneLink
    <3>8. \A r1, r2 \in Rest(e.held, 0) : r1 = r2 BY <3>1, <3>3, <3>4 DEF OneLink
    <3> QED BY <1>9, <2>1, <3>6, <3>7, <3>8 DEF OneLink, HeldAt
  <2>3. Owed(t.id, e.task.id, Rest(e.held, 0)) = Rest(e.held, 0) BY <1>9 DEF Owed
  <2>4. ASSUME NEW k \in 1..(n - 1)
        PROVE  OneLink(v, base[k].task.id, base[k].held,
                       Owed(base[k].task.id, e.task.id, Rest(e.held, 0)))
    <3>1. OneLink(u, base[k].task.id, base[k].held, {})
      BY <1>1, <1>3, <1>6, <1>13 DEF Linked, Owed
    <3>2. base[k].task.id # e.task.id
      BY <1>1, <1>3, <1>4, <1>6, <1>7, <1>13 DEF Numbered
    <3> QED BY <2>1, <3>1, <3>2 DEF OneLink, Owed
  <2> QED BY <1>6, <1>11, <2>2, <2>3, <2>4 DEF Linked
<1>18. e.task.id \in 0..v.last
  <2>1. v.task.id <= v.last /\ v.task.id = e.task.id BY <1>9, <1>11, <1>14 DEF Numbered
  <2>2. e.task.id \in Nat BY <1>7 DEF Screens
  <2>3. v.last \in Nat BY <1>12, StackEntries
  <2> QED BY <2>1, <2>2, <2>3
<1> QED BY <1>7, <1>9, <1>11, <1>12, <1>14, <1>15, <1>16, <1>17, <1>18 DEF Whole, Sane

(* Leaving a screen: each held message is delivered to the one that comes  *)
(* back, or, when a delivery put another over it, held for it again.       *)
LEMMA PopWhole ==
  ASSUME NEW u, NEW id, Whole(u, id, {}), u.stack # <<>>
  PROVE  Whole(PopTask(u), 0, {}) /\ Covered(PopTask(u), u.last)
<1>0. u.last \in Nat
  <2>1. u \in Shells BY DEF Whole, Sane
  <2> QED BY <2>1, StackEntries
<1>1. PICK e : e = Last(u.stack) OBVIOUS
<1>2. PICK v : v = Activate([u EXCEPT !.stack = Front(@)], e.task) OBVIOUS
<1>3. /\ Whole(v, e.task.id, Rest(e.held, 0)) /\ e.held \in Seq(Whats)
      /\ v.task.id = e.task.id /\ v.last = u.last
  BY <1>1, <1>2, UncoveredWhole
<1>4. PICK m \in Nat : m = Len(e.held) BY <1>3
<1>5. PICK d : /\ d[0] = v /\ DeliverHeld(v, e) = d[m]
               /\ \A i \in 0..(m - 1) : d[i + 1] = Delivered(d[i], e.task.id, e.held[i + 1])
  BY <1>3, <1>4, DeliverSteps
<1>6. PopTask(u) = d[m] BY <1>1, <1>2, <1>5 DEF PopTask
<1> DEFINE T == {i \in Nat : i <= m => /\ Whole(d[i], e.task.id, Rest(e.held, i))
                                       /\ Covered(d[i], u.last)}
<1>7. 0 \in T
  <2>1. Covered(v, u.last)
    <3>1. v.last = u.last /\ u.last \in Nat BY <1>0, <1>3
    <3> QED BY <3>1 DEF Covered
  <2> QED BY <1>3, <1>5, <2>1
<1>8. ASSUME NEW i \in Nat, i \in T PROVE i + 1 \in T
  <2> SUFFICES ASSUME i + 1 <= m
               PROVE  Whole(d[i + 1], e.task.id, Rest(e.held, i + 1)) /\ Covered(d[i + 1], u.last)
    OBVIOUS
  <2>1. i <= m /\ i \in 0..(m - 1) /\ i + 1 \in 1..m OBVIOUS
  <2>2. PICK w, what, R, S : /\ w = d[i] /\ what = e.held[i + 1]
                             /\ R = Rest(e.held, i) /\ S = Rest(e.held, i + 1)
    OBVIOUS
  <2>3. what \in Whats BY <1>3, <1>4, <2>1, <2>2
  <2>4. Whole(w, e.task.id, R) /\ Covered(w, u.last) BY <1>8, <2>1, <2>2
  <2>5. IF what = "tick" THEN i + 1 \in R /\ S = R \ {i + 1} ELSE S = R
    <3>1. \A j \in 1..m : j > i <=> j > i + 1 \/ j = i + 1 OBVIOUS
    <3>2. R = {j \in 1..m : j > i /\ e.held[j] = "tick"}
          /\ S = {j \in 1..m : j > i + 1 /\ e.held[j] = "tick"}
      BY <1>4, <2>2 DEF Rest
    <3> QED BY <2>1, <2>2, <3>1, <3>2
  <2>6. /\ Whole(Delivered(w, e.task.id, what), e.task.id, S)
        /\ \A L \in Nat : Covered(w, L) => Covered(Delivered(w, e.task.id, what), L)
    BY <2>3, <2>4, <2>5, DeliveredWhole
  <2>7. d[i + 1] = Delivered(w, e.task.id, what) BY <1>5, <2>1, <2>2
  <2> QED BY <1>0, <2>2, <2>4, <2>6, <2>7
<1>9. m \in T
  <2> HIDE DEF T
  <2> QED BY <1>7, <1>8, InductOver
<1>10. Rest(e.held, m) = {} BY <1>4 DEF Rest
<1>11. Whole(d[m], e.task.id, {}) /\ Covered(d[m], u.last)
  <2>1. Whole(d[m], e.task.id, Rest(e.held, m)) /\ Covered(d[m], u.last) BY <1>9
  <2> HIDE DEF T
  <2> QED BY <1>10, <2>1
<1>12. PICK w : w = d[m] OBVIOUS
<1>13. w \in Shells /\ Whole(w, e.task.id, {}) BY <1>11, <1>12 DEF Whole, Sane
<1>14. 0 \in 0..w.last
  <2>1. w.last \in Nat BY <1>13, StackEntries
  <2> QED BY <2>1
<1>15. Whole(w, 0, {}) BY <1>13, <1>14, WholeForAny
<1> QED BY <1>6, <1>11, <1>12, <1>15

-----------------------------------------------------------------------------
(* A screen asks for something.                                            *)
LEMMA LoadsWhole ==
  ASSUME NEW u, NEW id, Whole(u, id, {})
  PROVE  /\ Whole([u EXCEPT !.flight = @ \cup {Owned(u.task.id, "open")}], id, {})
         /\ [u EXCEPT !.flight = @ \cup {Owned(u.task.id, "open")}].last = u.last
<1>1. u \in Shells /\ Numbered(u) /\ Sane(u) /\ Linked(u, id, {}) /\ id \in 0..u.last
  BY DEF Whole, Sane
<1>2. PICK F, v : /\ F = u.flight \cup {Owned(u.task.id, "open")}
                  /\ v = [u EXCEPT !.flight = F]
  OBVIOUS
<1>3. v.flight = F /\ v.last = u.last BY <1>1, <1>2 DEF Shells
<1>4. u.task.id \in Nat /\ u.task.id <= u.last BY <1>1, StackEntries DEF Numbered
<1>5. /\ F \in SUBSET [owner : Nat, what : {"tick", "open"}]
      /\ \A om \in F : om.owner <= u.last
  BY <1>1, <1>2, <1>4 DEF Shells, Numbered, Owned
<1>6. \A t : Flies(v, t) <=> Flies(u, t) BY <1>2, <1>3 DEF Flies, Owned
<1>7. \A t, q : OneLink(u, t, q, Owed(t, id, {})) => OneLink(v, t, q, Owed(t, id, {}))
  BY <1>6 DEF OneLink
<1>8. v = [u EXCEPT !.flight = F] BY <1>2
<1>9. Whole(v, id, {}) BY <1>1, <1>5, <1>7, <1>8, FlightWhole
<1> QED BY <1>2, <1>3, <1>9

LEMMA RootWhole ==
  ASSUME NEW kind \in Kinds \ {"transient"}
  PROVE  Whole(RootTask(kind), 0, {})
<1>1. PICK u : u = RootTask(kind) OBVIOUS
<1>2. PICK t : t = NewTask(0, kind) OBVIOUS
<1>3. t \in Screens /\ t.id = 0 /\ t.kind = kind /\ t.conn = Unknown
  BY <1>2 DEF NewTask, Screens, States
<1>4. /\ u.task = t /\ u.stack = <<>> /\ u.last = 0 /\ u.conn = Unknown
      /\ u.flight = {Owned(0, "tick")} /\ Len(u.stack) = 0
  BY <1>1, <1>2 DEF RootTask
<1>5. u \in Shells
  <2>1. Owned(0, "tick") \in [owner : Nat, what : {"tick", "open"}] BY DEF Owned
  <2>2. <<>> \in Seq(Parked) /\ Unknown \in States BY DEF States
  <2> QED BY <1>1, <1>2, <1>3, <2>1, <2>2 DEF RootTask, Shells
<1>6. Sane(u) BY <1>3, <1>4, <1>5 DEF Sane, Numbered, Told, Grounded, Owned
<1>7. Linked(u, 0, {}) BY <1>3, <1>4 DEF Linked, OneLink, Owed, Flies, HeldAt
<1> QED BY <1>1, <1>4, <1>6, <1>7 DEF Whole

-----------------------------------------------------------------------------
(* What the invariant says of the screens.                                 *)
LEMMA EntriesOf ==
  ASSUME NEW u \in Shells
  PROVE  /\ DOMAIN Entries(u) = 1..(Len(u.stack) + 1)
         /\ Entries(u)[Len(u.stack) + 1] = Entry(u.task)
         /\ \A k \in 1..Len(u.stack) : Entries(u)[k] = u.stack[k]
<1>1. PICK e : e = Entry(u.task) OBVIOUS
<1>2. u.stack \in Seq(Parked) /\ e \in Parked
  <2>1. <<>> \in Seq(Whats) OBVIOUS
  <2> QED BY <1>1, <2>1 DEF Shells, Parked, Entry
<1> QED BY <1>1, <1>2 DEF Entries

LEMMA OneLinkCounts ==
  ASSUME NEW u, NEW e, OneLink(u, e.task.id, e.held, {}), e.held \in Seq(Whats),
         u.flight \in SUBSET [owner : Nat, what : {"tick", "open"}]
  PROVE  TicksHeld(e) + TicksDue(u, e.task.id) = 1
<1>1. PICK t : t = e.task.id OBVIOUS
<1>2. PICK H, D : /\ H = {j \in DOMAIN e.held : e.held[j] = "tick"}
                  /\ D = {om \in u.flight : om.owner = t /\ om.what = "tick"}
  OBVIOUS
<1>3. D = IF Flies(u, t) THEN {Owned(t, "tick")} ELSE {}
  <2>1. \A om \in u.flight : om = [owner |-> om.owner, what |-> om.what] OBVIOUS
  <2> QED BY <1>2, <2>1 DEF Flies, Owned
<1>4. \A j : j \in H <=> HeldAt(e.held, j) BY <1>2 DEF HeldAt
<1>5. \A j : HeldAt(e.held, j) => j \in 1..Len(e.held) BY DEF HeldAt
<1>6. TicksHeld(e) = Cardinality(H) /\ TicksDue(u, t) = Cardinality(D)
  BY <1>2 DEF TicksHeld, TicksDue
<1>7. CASE Flies(u, t)
  <2>1. H = {} BY <1>1, <1>4, <1>5, <1>7 DEF OneLink
  <2>2. Cardinality(H) = 0 /\ Cardinality(D) = 1 BY <1>3, <1>7, <2>1, FS_EmptySet, FS_Singleton
  <2> QED BY <1>1, <1>6, <2>2
<1>8. CASE ~Flies(u, t)
  <2>1. PICK j \in 1..Len(e.held) : HeldAt(e.held, j) BY <1>1, <1>8 DEF OneLink
  <2>2. H = {j} BY <1>1, <1>4, <1>5, <2>1 DEF OneLink
  <2>3. Cardinality(H) = 1 /\ Cardinality(D) = 0 BY <1>3, <1>8, <2>2, FS_EmptySet, FS_Singleton
  <2> QED BY <1>1, <1>6, <2>3
<1> QED BY <1>7, <1>8

LEMMA WholeChains ==
  ASSUME NEW u, NEW id, Whole(u, id, {})
  PROVE  ChainsAlive(u)
<1>1. u \in Shells /\ Numbered(u) /\ Linked(u, id, {}) BY DEF Whole, Sane
<1>2. PICK n \in Nat : n = Len(u.stack) BY <1>1, StackEntries
<1>3. PICK q : q = Entries(u) OBVIOUS
<1>4. DOMAIN q = 1..(n + 1) /\ q[n + 1] = Entry(u.task) /\ \A k \in 1..n : q[k] = u.stack[k]
  BY <1>1, <1>2, <1>3, EntriesOf
<1>5. q[n + 1].task = u.task /\ q[n + 1].held = <<>> BY <1>4 DEF Entry
<1>6. \A k \in 1..(n + 1) : k = n + 1 \/ k \in 1..n OBVIOUS
<1>7. ASSUME NEW i \in 1..(n + 1), NEW j \in 1..(n + 1), q[j].task.id = q[i].task.id PROVE i = j
  BY <1>1, <1>2, <1>4, <1>5, <1>6, <1>7 DEF Numbered
<1>8. ASSUME NEW i \in 1..(n + 1)
      PROVE  TicksHeld(q[i]) + TicksDue(u, q[i].task.id) = 1
  <2>1. q[i].held \in Seq(Whats)
    <3>1. CASE i = n + 1
      <4>1. <<>> \in Seq(Whats) OBVIOUS
      <4> QED BY <1>5, <3>1, <4>1
    <3>2. CASE i \in 1..n BY <1>1, <1>2, <1>4, <3>2, StackEntries DEF Parked
    <3> QED BY <1>6, <3>1, <3>2
  <2>2. OneLink(u, q[i].task.id, q[i].held, {})
    BY <1>1, <1>2, <1>4, <1>5, <1>6 DEF Linked, Owed
  <2>3. u.flight \in SUBSET [owner : Nat, what : {"tick", "open"}] BY <1>1 DEF Shells
  <2> QED BY <2>1, <2>2, <2>3, OneLinkCounts
<1> QED BY <1>3, <1>4, <1>7, <1>8 DEF ChainsAlive

-----------------------------------------------------------------------------
(* A screen built over the active one; over nothing, at a state that was   *)
(* heard or wiped; a state that is heard; a setup screen that waits.       *)
LEMMA OverWhole ==
  ASSUME NEW u, NEW id, NEW R, Whole(u, id, R), NEW kind \in Kinds,
         NEW v, v = ActivateFresh(Push(u), kind)
  PROVE  Whole(v, id, R) /\ v.stack # <<>>
<1>1. u \in Shells /\ Grounded(u) BY DEF Whole, Sane
<1>2. PICK base : base = Append(u.stack, Entry(u.task)) OBVIOUS
<1>3. base # <<>>
  <2>1. PICK e : e = Entry(u.task) OBVIOUS
  <2>2. u.stack \in Seq(Parked) BY <1>1 DEF Shells
  <2>3. Append(u.stack, e) # <<>> BY <2>2
  <2> QED BY <1>2, <2>1, <2>3
<1>4. v = Fresh(u, base, u.conn, kind) BY <1>1, <1>2, FreshForms
<1>5. u.conn \in States BY <1>1 DEF Shells
<1>6. base = Append(u.stack, Entry(u.task)) /\ (u.stack = <<>> => u.task.kind # "transient")
  BY <1>1, <1>2 DEF Grounded
<1>7. Whole(Fresh(u, base, u.conn, kind), id, R) BY <1>5, <1>6, FreshWhole
<1> QED BY <1>3, <1>4, <1>7 DEF Fresh

LEMMA StartsOverWhole ==
  ASSUME NEW u, NEW id, NEW R, Whole(u, id, R), NEW kind \in Kinds \ {"transient"},
         NEW c \in States, NEW v, v = StartsOver([u EXCEPT !.conn = c], kind)
  PROVE  Whole(v, id, R)
<1>1. u \in Shells BY DEF Whole, Sane
<1>2. v = Fresh(u, <<>>, c, kind) BY <1>1, FreshForms
<1>3. PICK base : base = <<>> OBVIOUS
<1>4. Whole(Fresh(u, base, c, kind), id, R) BY <1>3, FreshWhole
<1> QED BY <1>2, <1>3, <1>4

LEMMA HeardWhole ==
  ASSUME NEW u, NEW id, NEW R, Whole(u, id, R), NEW p \in Phases,
         NEW v, v = ForwardConn([u EXCEPT !.conn = p], p)
  PROVE  Whole(v, id, R) /\ v.last = u.last
<1>1. u \in Shells /\ u.task \in Screens BY StackEntries DEF Whole, Sane
<1>2. PICK b \in BOOLEAN : b = u.task.retrying BY <1>1 DEF Screens
<1>3. PICK w : w = [u EXCEPT !.task = [@ EXCEPT !.conn = p, !.retrying = b], !.conn = p]
  OBVIOUS
<1>4. [u.task EXCEPT !.conn = p, !.retrying = b] = [u.task EXCEPT !.conn = p]
  BY <1>1, <1>2 DEF Screens
<1>5. v = w BY <1>1, <1>3, <1>4 DEF ForwardConn, Shells
<1>6. p \in States /\ p # Unknown
  BY DEF States, Phases, Unknown, Connected, Reconnecting, Unauthenticated
<1>7. Whole(w, id, R) BY <1>3, <1>6, TaskWhole
<1>8. w.last = u.last BY <1>1, <1>3 DEF Shells
<1> QED BY <1>5, <1>7, <1>8

LEMMA RetryWhole ==
  ASSUME NEW u, NEW id, NEW R, Whole(u, id, R),
         NEW v, v = [u EXCEPT !.task.retrying = TRUE]
  PROVE  Whole(v, id, R) /\ v.last = u.last
<1>1. u \in Shells /\ u.task \in Screens /\ u.task.conn = u.conn
  BY StackEntries DEF Whole, Sane, Told
<1>2. PICK w : w = [u EXCEPT !.task = [@ EXCEPT !.conn = u.conn, !.retrying = TRUE],
                             !.conn = u.conn]
  OBVIOUS
<1>3. [u.task EXCEPT !.conn = u.conn, !.retrying = TRUE] = [u.task EXCEPT !.retrying = TRUE]
  BY <1>1 DEF Screens
<1>4. v = w BY <1>1, <1>2, <1>3 DEF Shells
<1>5. u.conn \in States BY <1>1 DEF Shells
<1>6. Whole(w, id, R) BY <1>2, <1>5, TaskWhole
<1>7. w.last = u.last BY <1>1, <1>2 DEF Shells
<1> QED BY <1>4, <1>6, <1>7
=============================================================================
