---------------------------- MODULE DecodeLoopProofs ----------------------------
(***************************************************************************)
(* Proofs about decode, for any message types and any well-formed wire.    *)
(* Next to the frames of the calls runs a stack of readings, one for each  *)
(* frame, and the set of all readings there were.  That set follows from   *)
(* the first reading by the rules of WireFormat, and but for the readings  *)
(* on the stack it is closed under them: when decode returns it is the     *)
(* least closed set, which is what the wire means.                         *)
(***************************************************************************)
EXTENDS DecodeLoop, SequenceTheorems, TLAPS

\* A reading at a position the reader, now at p, has reached.
IsReadingUpTo(p, r) ==
  /\ r = [type |-> r.type, start |-> r.start, at |-> r.at, end |-> r.end, message |-> r.message]
  /\ r.type \in DOMAIN Types /\ DOMAIN r.message = FieldNames(r.type)
  /\ r.start \in Nat \ {0} /\ r.at \in Nat /\ r.end \in Nat
  /\ r.start <= r.at /\ r.at <= p

PlaceOf(r, outer) == [type |-> r.type, at |-> r.at, end |-> r.end, outer |-> outer]

\* The calls under way: each ends in its caller, and the innermost one is at p.
StackOK(p, places, seen, stack) ==
  /\ stack \in Seq(seen) /\ stack # << >>
  /\ stack[1].start = 1
  /\ stack[Len(stack)].at = p
  /\ \A i \in 1 .. Len(stack) :
       /\ p <= stack[i].end
       /\ IsComplete(stack[i]) \/ PlaceOf(stack[i], i = 1) \in places
  /\ \A i, j \in 1 .. Len(stack) : i < j =>
       stack[i].start < stack[j].start /\ stack[j].end <= stack[i].end

\* The caller r waits for the call that is at q.
Waits(w, seen, r, q) ==
  /\ ~IsComplete(r) /\ ~EndsGroup(w, r.at)
  /\ q.start = r.at + 2 /\ q.end = FieldEnd(w, r.at)
  /\ \E f \in FieldsAt(w, r.at, r.type) :
       f.kind = q.type /\ IsMessage(f.kind) /\ Nested(w, r, f.kind) \in seen

\* Each reading follows from the first, and unless a call is at it what follows from
\* it is there too.
FollowsOK(w, seen, stack) ==
  LET first == First(w, stack[1].type)
  IN  /\ first \in seen
      /\ \A readings : Closed(w, readings) /\ first \in readings => seen \subseteq readings
      /\ \A r \in seen :
           \/ IsComplete(r)
           \/ \E i \in 1 .. Len(stack) : r = stack[i]
           \/ Rule(w, seen, r) /\ ~IsUnsafe(w, r)

\* No position is visited twice, and of the readings from one beginning only the
\* last one is complete.
OnceOK(p, seen, stack) ==
  /\ \A r, q \in seen : ~IsComplete(r) /\ ~IsComplete(q) /\ r.at = q.at => r = q
  /\ \A r \in seen : ~IsComplete(r) /\ r.at = p => r = stack[Len(stack)]
  /\ \A i \in 1 .. Len(stack) : \A r \in seen :
       r.start = stack[i].start /\ r # stack[i] => ~IsComplete(r)

Tracks(w, p, places, seen, stack) ==
  /\ p \in Nat \ {0}
  /\ AreWellFormed(w, places)
  /\ \A r \in seen : IsReadingUpTo(p, r)
  /\ StackOK(p, places, seen, stack)
  /\ \A i \in 1 .. Len(stack) - 1 : Waits(w, seen, stack[i], stack[i + 1])
  /\ FollowsOK(w, seen, stack)
  /\ OnceOK(p, seen, stack)

\* The calls are those of the stack.
Mirrors(w, calls, stack) ==
  /\ \E any : calls \in Seq(any)
  /\ Len(calls) = Len(stack)
  /\ \A i \in 1 .. Len(stack) :
       calls[i] = [type |-> stack[i].type, message |-> stack[i].message, end |-> stack[i].end,
                   field |-> calls[i].field]
  /\ \A i \in 1 .. Len(stack) - 1 :
       \A f \in FieldsAt(w, stack[i].at, stack[i].type) : calls[i + 1].field = f.name

\* A call that returned is complete, and one that threw is at an
\* integer that no JavaScript number holds.
EndsOK(w, st, stack) ==
  /\ st \in {"reading", "returned", "threw"}
  /\ st = "returned" => Len(stack) = 1 /\ IsComplete(stack[1])
  /\ st = "threw" => IsUnsafe(w, stack[Len(stack)])

Inv ==
  \E places, seen, stack :
    /\ Tracks(wire, pos, places, seen, stack)
    /\ Mirrors(wire, frames, stack)
    /\ EndsOK(wire, status, stack)

-----------------------------------------------------------------------------
(* The fields at a tag.                                                    *)

(* A field the tag may begin is one of its type, known by its name.        *)
LEMMA FieldFacts ==
  ASSUME NEW w, NEW p, NEW type \in DOMAIN Types, NEW f \in FieldsAt(w, p, type)
  PROVE  /\ f.name \in FieldNames(type) /\ FieldOf(type, f.name) = f
         /\ f.no \in Nat \ {0}
         /\ IsMessage(f.kind) => w[p] % 8 = 2 /\ ~IsBlock(f, w, p)
         /\ IsBlock(f, w, p) => w[p] % 8 # WireType(f.kind) /\ f.kind \notin Long
<1>1. PICK i \in DOMAIN Types[type] : f = Types[type][i]
  BY DEF FieldsAt
<1>2. \A j \in DOMAIN Types[type] : Types[type][j].name = f.name => j = i
  BY <1>1, TypesAssumption
<1>3. f.name \in FieldNames(type) /\ FieldOf(type, f.name) = f
  BY <1>1, <1>2 DEF FieldNames, FieldOf
<1>4. /\ f.no \in Nat \ {0}
      /\ IsMessage(f.kind) => f.label \in {"message", "repeated"}
      /\ f.label \in {"numbers", "packed"} => WireType(f.kind) # 2 /\ f.kind \notin Long
  BY <1>1, TypesAssumption
<1>5. IsMessage(f.kind) => WireType(f.kind) = 2
  BY TypesAssumption DEF IsMessage, WireType
<1>6. w[p] % 8 = WireType(f.kind) \/ IsBlock(f, w, p)
  BY DEF FieldsAt
<1> QED
  BY <1>3, <1>4, <1>5, <1>6 DEF IsBlock

(* The numbers of the fields differ, so there is at most one.              *)
LEMMA OneField ==
  ASSUME NEW w, NEW p, NEW type \in DOMAIN Types,
         NEW f \in FieldsAt(w, p, type), NEW g \in FieldsAt(w, p, type)
  PROVE  f = g
<1>1. PICK i \in DOMAIN Types[type] : f = Types[type][i]
  BY DEF FieldsAt
<1>2. PICK j \in DOMAIN Types[type] : g = Types[type][j]
  BY DEF FieldsAt
<1>3. f.no = g.no
  BY DEF FieldsAt
<1> QED
  BY <1>1, <1>2, <1>3, TypesAssumption

(* The tag of a field ends no group.                                       *)
LEMMA NoFieldEndsGroup ==
  ASSUME NEW w, NEW p, NEW type \in DOMAIN Types, EndsGroup(w, p)
  PROVE  FieldsAt(w, p, type) = {}
<1> SUFFICES ASSUME NEW f \in FieldsAt(w, p, type)
             PROVE  FALSE
  OBVIOUS
<1>1. f.no = w[p] \div 8 /\ (w[p] % 8 = WireType(f.kind) \/ w[p] % 8 = 2)
  BY DEF FieldsAt, IsBlock
<1>2. WireType(f.kind) \in {0, 1, 2}
  BY DEF WireType
<1>3. w[p] = 0
  BY <1>1, <1>2 DEF EndsGroup
<1> QED
  BY <1>1, <1>3, FieldFacts

-----------------------------------------------------------------------------
(* Stacks.                                                                 *)

LEMMA Appended ==
  ASSUME NEW A, NEW s \in Seq(A), NEW x
  PROVE  /\ Append(s, x) \in Seq(A \cup {x}) /\ Len(Append(s, x)) = Len(s) + 1
         /\ Append(s, x)[Len(s) + 1] = x
         /\ \A i \in 1 .. Len(s) : Append(s, x)[i] = s[i]
<1>1. s \in Seq(A \cup {x})
  BY SeqMonotonic
<1> QED
  BY <1>1

LEMMA Replaced ==
  ASSUME NEW A, NEW s \in Seq(A), NEW i \in 1 .. Len(s), NEW x
  PROVE  /\ [s EXCEPT ![i] = x] \in Seq(A \cup {x}) /\ Len([s EXCEPT ![i] = x]) = Len(s)
         /\ [s EXCEPT ![i] = x][i] = x
         /\ \A j \in 1 .. Len(s) : j # i => [s EXCEPT ![i] = x][j] = s[j]
<1>1. s \in Seq(A \cup {x})
  BY SeqMonotonic
<1> QED
  BY <1>1

LEMMA Popped ==
  ASSUME NEW A, NEW s \in Seq(A), NEW n, n = Len(s), n > 1, NEW x
  PROVE  LET t == [SubSeq(s, 1, n - 1) EXCEPT ![n - 1] = x]
         IN  /\ t \in Seq(A \cup {x}) /\ Len(t) = n - 1 /\ t[n - 1] = x
             /\ \A i \in 1 .. n - 1 : i # n - 1 => t[i] = s[i]
<1> DEFINE u == SubSeq(s, 1, n - 1)
<1>1. /\ u \in Seq(A) /\ Len(u) = n - 1 /\ n - 1 \in 1 .. Len(u)
      /\ \A i \in 1 .. n - 1 : u[i] = s[i]
  OBVIOUS
<1> HIDE DEF u
<1>2. LET t == [u EXCEPT ![n - 1] = x]
      IN  /\ t \in Seq(A \cup {x}) /\ Len(t) = n - 1 /\ t[n - 1] = x
          /\ \A i \in 1 .. n - 1 : i # n - 1 => t[i] = s[i]
  BY <1>1, Replaced
<1> QED
  BY <1>2 DEF u

-----------------------------------------------------------------------------
(* The rules, when a reading is added.                                     *)

(* What follows from a reading is there still, unless the new one          *)
(* completes a message it waits for.                                       *)
LEMMA RuleKept ==
  ASSUME NEW w, NEW V, NEW r, NEW x, Rule(w, V, r), \A kind : ~Completes(x, w, r, kind)
  PROVE  Rule(w, V \cup {x}, r)
<1>1. ASSUME NEW f, FieldRule(w, V, r, f)
      PROVE  FieldRule(w, V \cup {x}, r, f)
  BY <1>1 DEF FieldRule
<1> QED
  BY <1>1 DEF Rule

(* Only the caller waits for the call that is on the stack.                *)
LEMMA OnlyTheCallerWaits ==
  ASSUME NEW w, NEW p, NEW places, NEW V, NEW S, Tracks(w, p, places, V, S),
         NEW i \in 1 .. Len(S), NEW r \in V, ~IsComplete(r), r.at + 2 = S[i].start
  PROVE  i > 1 /\ r = S[i - 1]
<1>1. /\ S \in Seq(V) /\ S[1].start = 1
      /\ \A j \in 1 .. Len(S) - 1 : Waits(w, V, S[j], S[j + 1])
      /\ \A q, s \in V : ~IsComplete(q) /\ ~IsComplete(s) /\ q.at = s.at => q = s
      /\ \A q \in V : q.start \in Nat \ {0} /\ q.at \in Nat /\ q.start <= q.at
  BY DEF Tracks, StackOK, OnceOK, IsReadingUpTo
<1>2. i # 1
  BY <1>1
<1>3. i - 1 \in 1 .. Len(S) - 1 /\ S[i - 1] \in V
  BY <1>1, <1>2
<1>4. ~IsComplete(S[i - 1]) /\ S[i].start = S[i - 1].at + 2
  <2>1. Waits(w, V, S[i - 1], S[(i - 1) + 1]) /\ (i - 1) + 1 = i
    BY <1>1, <1>3
  <2> QED
    BY <2>1 DEF Waits
<1> QED
  BY <1>1, <1>2, <1>3, <1>4

(* A step of the stack: from its place m on it is replaced by the reading  *)
(* x, with the reader at q.  All steps of decode but a throw are of this   *)
(* form: m is the top, the place above it or the place below it.           *)
LEMMA StackStep ==
  ASSUME NEW w, NEW p, NEW places, NEW V, NEW S, Tracks(w, p, places, V, S),
         NEW q \in Nat, p <= q, NEW x, IsReadingUpTo(q, x), x.at = q, q <= x.end,
         NEW m \in 1 .. Len(S) + 1, IsComplete(x) \/ PlaceOf(x, m = 1) \in places,
         NEW T \in Seq(V \cup {x}), Len(T) = m, T[m] = x, \A i \in 1 .. m - 1 : T[i] = S[i],
         \/ m <= Len(S) /\ x.start = S[m].start /\ ~IsComplete(S[m])
         \/ m = Len(S) + 1 /\ x.start = p + 2,
         m = 1 => x.type = S[1].type,
         m > 1 => Waits(w, V \cup {x}, S[m - 1], x) /\ x.end <= S[m - 1].end,
         \A r \in V : IsComplete(r) \/ r.at # q,
         \A readings : Closed(w, readings) /\ V \subseteq readings => x \in readings,
         \A i \in m .. Len(S) :
           IsComplete(S[i]) \/ (Rule(w, V \cup {x}, S[i]) /\ ~IsUnsafe(w, S[i]))
  PROVE  Tracks(w, q, places, V \cup {x}, T)
<1> DEFINE W == V \cup {x}
<1>1. /\ p \in Nat \ {0} /\ S \in Seq(V) /\ Len(S) \in Nat \ {0} /\ m \in Nat \ {0}
      /\ \A r \in V : IsReadingUpTo(p, r)
      /\ \A i \in 1 .. Len(S) : S[i] \in V
  BY DEF Tracks, StackOK
<1>2. q \in Nat \ {0} /\ AreWellFormed(w, places) /\ \A r \in W : IsReadingUpTo(q, r)
  <2>1. ASSUME NEW r \in V
        PROVE  IsReadingUpTo(q, r)
    BY <1>1 DEF IsReadingUpTo
  <2> QED
    BY <1>1, <2>1 DEF Tracks
<1>3. \A i \in 1 .. Len(S) : \A j \in 1 .. Len(S) : i < j =>
        S[i].start < S[j].start /\ S[j].end <= S[i].end
  BY DEF Tracks, StackOK
<1>4. \A r \in V : r.start \in Nat /\ r.at \in Nat /\ r.end \in Nat /\ r.start <= r.at /\ r.at <= p
  BY <1>1 DEF IsReadingUpTo
<1>5. x.start \in Nat /\ x.end \in Nat
  BY DEF IsReadingUpTo
<1>6. ASSUME NEW i \in 1 .. m - 1
      PROVE  i \in 1 .. Len(S) /\ T[i] = S[i] /\ S[i].start < x.start /\ x.end <= S[i].end
  <2>1. i \in 1 .. Len(S) /\ S[i] \in V /\ m - 1 \in 1 .. Len(S) /\ S[m - 1] \in V
    BY <1>1
  <2>2. S[i].start < x.start
    <3>1. CASE m <= Len(S) /\ x.start = S[m].start
      BY <1>1, <1>3, <2>1, <3>1
    <3>2. CASE m = Len(S) + 1 /\ x.start = p + 2
      BY <1>1, <1>4, <2>1, <3>2
    <3> QED
      BY <3>1, <3>2
  <2>3. x.end <= S[m - 1].end /\ (i = m - 1 \/ i < m - 1)
    BY <1>1
  <2>4. i < m - 1 => S[m - 1].end <= S[i].end
    BY <1>3, <2>1
  <2> QED
    BY <1>4, <1>5, <2>1, <2>2, <2>3, <2>4
<1>7. StackOK(q, places, W, T)
  <2>1. T # << >> /\ T[1].start = 1
    <3>1. S[1].start = 1
      BY DEF Tracks, StackOK
    <3>2. m = 1 => x.start = 1
      BY <1>1, <3>1
    <3> QED
      BY <1>1, <3>1, <3>2
  <2>2. ASSUME NEW i \in 1 .. m
        PROVE  q <= T[i].end /\ (IsComplete(T[i]) \/ PlaceOf(T[i], i = 1) \in places)
    <3>1. CASE i = m
      BY <3>1
    <3>2. CASE i # m
      <4>1. i \in 1 .. m - 1
        BY <3>2
      <4>2. IsComplete(S[i]) \/ PlaceOf(S[i], i = 1) \in places
        BY <1>6, <4>1 DEF Tracks, StackOK
      <4>3. S[i].end \in Nat /\ q <= S[i].end
        <5>1. S[i] \in V /\ x.end <= S[i].end
          BY <1>1, <1>6, <4>1
        <5> QED
          BY <1>4, <1>5, <5>1
      <4> QED
        BY <1>6, <4>1, <4>2, <4>3
    <3> QED
      BY <3>1, <3>2
  <2>3. ASSUME NEW i \in 1 .. m, NEW j \in 1 .. m, i < j
        PROVE  T[i].start < T[j].start /\ T[j].end <= T[i].end
    <3>1. i \in 1 .. m - 1
      BY <2>3
    <3>2. CASE j = m
      BY <1>6, <3>1, <3>2
    <3>3. CASE j # m
      BY <1>3, <1>6, <2>3, <3>1, <3>3
    <3> QED
      BY <3>2, <3>3
  <2> QED
    BY <2>1, <2>2, <2>3 DEF StackOK
<1>8. ASSUME NEW i \in 1 .. Len(T) - 1
      PROVE  Waits(w, W, T[i], T[i + 1])
  <2>1. i \in 1 .. m - 1 /\ T[i] = S[i]
    BY <1>6
  <2>2. CASE i = m - 1
    BY <1>1, <2>1, <2>2
  <2>3. CASE i # m - 1
    <3>1. i + 1 \in 1 .. m - 1 /\ i \in 1 .. Len(S) - 1
      BY <1>1, <2>1, <2>3
    <3>2. Waits(w, V, S[i], S[i + 1])
      BY <3>1 DEF Tracks
    <3>3. Waits(w, W, S[i], S[i + 1])
      BY <3>2 DEF Waits
    <3> QED
      BY <2>1, <3>1, <3>3
  <2> QED
    BY <2>2, <2>3
<1>9. FollowsOK(w, W, T)
  <2>1. T[1].type = S[1].type
    BY <1>1, <1>6
  <2> DEFINE first == First(w, S[1].type)
  <2>2. /\ first \in V
        /\ \A readings : Closed(w, readings) /\ first \in readings => V \subseteq readings
        /\ \A r \in V : \/ IsComplete(r)
                        \/ \E i \in 1 .. Len(S) : r = S[i]
                        \/ Rule(w, V, r) /\ ~IsUnsafe(w, r)
    BY DEF Tracks, FollowsOK
  <2>3. ASSUME NEW readings, Closed(w, readings), first \in readings
        PROVE  W \subseteq readings
    BY <2>2, <2>3
  <2>4. ASSUME NEW r \in V, ~IsComplete(r), ~\E i \in 1 .. m : r = T[i]
        PROVE  Rule(w, W, r) /\ ~IsUnsafe(w, r)
    <3>1. CASE \E i \in 1 .. Len(S) : r = S[i]
      <4>1. PICK i \in 1 .. Len(S) : r = S[i]
        BY <3>1
      <4>2. i \in m .. Len(S)
        <5>1. i \notin 1 .. m - 1
          BY <1>6, <2>4, <4>1
        <5> QED
          BY <1>1, <5>1
      <4> QED
        BY <2>4, <4>1, <4>2
    <3>2. CASE ~\E i \in 1 .. Len(S) : r = S[i]
      <4>1. Rule(w, V, r) /\ ~IsUnsafe(w, r)
        BY <2>2, <2>4, <3>2
      <4>2. r.at + 2 # x.start
        <5>1. CASE m <= Len(S) /\ x.start = S[m].start
          <6> SUFFICES ASSUME r.at + 2 = S[m].start
                       PROVE  FALSE
            BY <5>1
          <6>1. m \in 1 .. Len(S)
            BY <5>1, <1>1
          <6>2. m > 1 /\ r = S[m - 1]
            BY <2>4, <6>1, OnlyTheCallerWaits
          <6> QED
            BY <1>1, <3>2, <6>1, <6>2
        <5>2. CASE m = Len(S) + 1 /\ x.start = p + 2
          <6>1. r.at = p => r = S[Len(S)]
            BY <2>4 DEF Tracks, OnceOK
          <6> QED
            BY <1>1, <1>4, <3>2, <5>2, <6>1
        <5> QED
          BY <5>1, <5>2
      <4>3. \A kind : ~Completes(x, w, r, kind)
        BY <4>2 DEF Completes
      <4> QED
        BY <4>1, <4>3, RuleKept
    <3> QED
      BY <3>1, <3>2
  <2>5. ASSUME NEW r \in W
        PROVE  \/ IsComplete(r)
               \/ \E i \in 1 .. m : r = T[i]
               \/ Rule(w, W, r) /\ ~IsUnsafe(w, r)
    <3>1. r = x => r = T[m] /\ m \in 1 .. m
      BY <1>1
    <3> QED
      BY <2>4, <3>1
  <2> QED
    BY <2>1, <2>2, <2>3, <2>5 DEF FollowsOK
<1>10. OnceOK(q, W, T)
  <2>1. \A r \in V, s \in V : ~IsComplete(r) /\ ~IsComplete(s) /\ r.at = s.at => r = s
    BY DEF Tracks, OnceOK
  <2>2. ASSUME NEW i \in 1 .. m, NEW r \in W, r.start = T[i].start, r # T[i]
        PROVE  ~IsComplete(r)
    <3>1. \A j \in 1 .. Len(S) : \A s \in V : s.start = S[j].start /\ s # S[j] => ~IsComplete(s)
      BY DEF Tracks, OnceOK
    <3>2. CASE i # m
      <4>1. i \in 1 .. m - 1
        BY <3>2
      <4>2. T[i] = S[i] /\ i \in 1 .. Len(S) /\ S[i].start < x.start
        BY <1>6, <4>1
      <4>3. r \in V
        BY <1>1, <1>4, <1>5, <2>2, <4>2
      <4> QED
        BY <2>2, <3>1, <4>2, <4>3
    <3>3. CASE i = m /\ m <= Len(S) /\ x.start = S[m].start /\ ~IsComplete(S[m])
      <4>1. m \in 1 .. Len(S) /\ r \in V
        BY <1>1, <2>2, <3>3
      <4> QED
        BY <2>2, <3>1, <3>3, <4>1
    <3>4. CASE i = m /\ m = Len(S) + 1 /\ x.start = p + 2
      BY <1>1, <1>4, <2>2, <3>4
    <3> QED
      BY <3>2, <3>3, <3>4
  <2> QED
    BY <1>1, <2>1, <2>2 DEF OnceOK
<1> HIDE DEF W
<1>11. Tracks(w, q, places, W, T)
  BY <1>2, <1>7, <1>8, <1>9, <1>10 DEF Tracks
<1> QED
  BY <1>11 DEF W

-----------------------------------------------------------------------------
(* The steps of decode, seen from the readings.                            *)

(* An end-group tag is met in the outermost message only.                  *)
LEMMA OnlyTheOutermostIsAGroup ==
  ASSUME NEW w, NEW p, NEW places, NEW V, NEW S, Tracks(w, p, places, V, S),
         NEW i \in 1 .. Len(S), ~IsComplete(S[i]), EndsGroup(w, S[i].at)
  PROVE  i = 1
<1> DEFINE s == PlaceOf(S[i], i = 1)
<1>1. IsReadingUpTo(p, S[i]) /\ s \in places /\ AreWellFormed(w, places)
  BY DEF Tracks, StackOK
<1>2. s.at = S[i].at /\ s.end = S[i].end /\ s.outer = (i = 1)
  BY DEF PlaceOf
<1>3. s.at < s.end
  BY <1>1, <1>2 DEF IsReadingUpTo, IsComplete
<1>4. s.outer
  <2> HIDE DEF s
  <2> QED
    BY <1>1, <1>2, <1>3 DEF AreWellFormed
<1> QED
  BY <1>2, <1>4

(* Where a reading of the stack that is not complete is, the wire is       *)
(* well-formed.                                                            *)
LEMMA AtAReading ==
  ASSUME NEW w, NEW p, NEW places, NEW V, NEW S, Tracks(w, p, places, V, S),
         NEW i \in 1 .. Len(S), ~IsComplete(S[i])
  PROVE  /\ S[i] \in V /\ IsReadingUpTo(p, S[i]) /\ w[S[i].at] \in Nat
         /\ ~EndsGroup(w, S[i].at) =>
              /\ FieldEnd(w, S[i].at) \in S[i].at + 2 .. S[i].end
              /\ \A message : PlaceOf(Past(w, S[i], message), i = 1) \in places
              /\ \A f \in FieldsAt(w, S[i].at, S[i].type) :
                   /\ f.kind \in Long => w[S[i].at + 1] \in Int
                   /\ IsMessage(f.kind) => PlaceOf(Nested(w, S[i], f.kind), FALSE) \in places
<1> DEFINE r == S[i]
           s == PlaceOf(r, i = 1)
<1>1. r \in V /\ IsReadingUpTo(p, r)
  BY DEF Tracks, StackOK
<1>2. s \in places /\ AreWellFormed(w, places)
  BY DEF Tracks, StackOK
<1>3. s.type = r.type /\ s.at = r.at /\ s.end = r.end /\ s.outer = (i = 1)
  BY DEF PlaceOf
<1>4. r.at \in Nat /\ r.end \in Nat /\ r.at < r.end
  BY <1>1 DEF IsReadingUpTo, IsComplete
<1>5. /\ w[r.at] \in Nat
      /\ IF EndsGroup(w, r.at) THEN s.outer
         ELSE /\ FieldEnd(w, r.at) \in r.at + 2 .. r.end
              /\ [s EXCEPT !.at = FieldEnd(w, r.at)] \in places
              /\ \A f \in FieldsAt(w, r.at, r.type) :
                   /\ f.kind \in Long => w[r.at + 1] \in Int
                   /\ IsMessage(f.kind) => Inside(s, f.kind, FieldEnd(w, r.at)) \in places
  <2> HIDE DEF s, r
  <2> QED
    BY <1>2, <1>3, <1>4 DEF AreWellFormed
<1>6. ASSUME NEW message
      PROVE  PlaceOf(Past(w, r, message), i = 1) = [s EXCEPT !.at = FieldEnd(w, r.at)]
  <2>1. r = [type |-> r.type, start |-> r.start, at |-> r.at, end |-> r.end, message |-> r.message]
    BY <1>1 DEF IsReadingUpTo
  <2>2. /\ Past(w, r, message).type = r.type
        /\ Past(w, r, message).at = FieldEnd(w, r.at)
        /\ Past(w, r, message).end = r.end
    BY <2>1 DEF Past
  <2> QED
    BY <2>2 DEF PlaceOf
<1>7. ASSUME NEW kind
      PROVE  PlaceOf(Nested(w, r, kind), FALSE) = Inside(s, kind, FieldEnd(w, r.at))
  BY <1>3 DEF PlaceOf, Nested, Inside
<1> QED
  BY <1>1, <1>3, <1>5, <1>6, <1>7

(* A reading of the stack is at or before the reader, and what is          *)
(* incomplete there is the innermost one.                                  *)
LEMMA TopOfTheStack ==
  ASSUME NEW w, NEW p, NEW places, NEW V, NEW S, Tracks(w, p, places, V, S)
  PROVE  /\ p \in Nat \ {0} /\ S \in Seq(V) /\ Len(S) \in Nat \ {0}
         /\ S[Len(S)] \in V /\ S[Len(S)].at = p /\ p <= S[Len(S)].end
         /\ \A r \in V : IsReadingUpTo(p, r)
  BY DEF Tracks, StackOK

(* The innermost reading goes on behind the field it is at.                *)
LEMMA Advanced ==
  ASSUME NEW w, NEW p, NEW places, NEW V, NEW S, Tracks(w, p, places, V, S),
         NEW r, r = S[Len(S)], ~IsComplete(r), ~EndsGroup(w, p),
         NEW message, DOMAIN message = FieldNames(r.type),
         NEW x, x = Past(w, r, message),
         Rule(w, V \cup {x}, r), ~IsUnsafe(w, r),
         \A readings : Rule(w, readings, r) => x \in readings
  PROVE  Tracks(w, FieldEnd(w, p), places, V \cup {x}, [S EXCEPT ![Len(S)] = x])
<1> DEFINE n == Len(S)
           q == FieldEnd(w, p)
           T == [S EXCEPT ![n] = x]
<1>1. /\ p \in Nat \ {0} /\ S \in Seq(V) /\ n \in Nat \ {0} /\ n \in 1 .. n
      /\ r \in V /\ r.at = p /\ \A s \in V : IsReadingUpTo(p, s)
  BY TopOfTheStack
<1>2. q \in p + 2 .. r.end /\ PlaceOf(x, n = 1) \in places
  BY <1>1, AtAReading
<1>3. /\ r = [type |-> r.type, start |-> r.start, at |-> r.at, end |-> r.end, message |-> r.message]
      /\ r.type \in DOMAIN Types /\ r.start \in Nat \ {0} /\ r.end \in Nat
      /\ r.start <= p
  BY <1>1 DEF IsReadingUpTo
<1>4. x = [type |-> r.type, start |-> r.start, at |-> q, end |-> r.end, message |-> message]
  BY <1>1, <1>3 DEF Past
<1>5. q \in Nat /\ p <= q /\ p # q /\ p < q
  BY <1>1, <1>2
<1>6. IsReadingUpTo(q, x)
  BY <1>1, <1>3, <1>4, <1>5 DEF IsReadingUpTo
<1>7. /\ T \in Seq(V \cup {x}) /\ Len(T) = n /\ T[n] = x
      /\ \A i \in 1 .. n - 1 : T[i] = S[i]
  BY <1>1, Replaced
<1>8. n > 1 => Waits(w, V \cup {x}, S[n - 1], x) /\ x.end <= S[n - 1].end
  <2> SUFFICES ASSUME n > 1
               PROVE  Waits(w, V \cup {x}, S[n - 1], x) /\ x.end <= S[n - 1].end
    OBVIOUS
  <2>1. n - 1 \in 1 .. n - 1 /\ (n - 1) + 1 = n
    BY <1>1
  <2>2. Waits(w, V, S[n - 1], r)
    BY <2>1 DEF Tracks
  <2>3. r.end <= S[n - 1].end
    BY <1>1, <2>1 DEF Tracks, StackOK
  <2> QED
    BY <1>4, <2>2, <2>3 DEF Waits
<1>9. \A s \in V : IsComplete(s) \/ s.at # q
  BY <1>1, <1>5 DEF IsReadingUpTo
<1>10. \A readings : Closed(w, readings) /\ V \subseteq readings => x \in readings
  BY <1>1 DEF Closed
<1> HIDE DEF n, q, T
<1>11. Tracks(w, q, places, V \cup {x}, T)
  <2>1. n \in 1 .. Len(S) + 1 /\ n <= Len(S)
    BY <1>1 DEF n
  <2>2. x.start = S[n].start /\ ~IsComplete(S[n]) /\ (n = 1 => x.type = S[1].type)
    BY <1>4 DEF n
  <2>3. \A i \in n .. Len(S) : Rule(w, V \cup {x}, S[i]) /\ ~IsUnsafe(w, S[i])
    BY <1>1 DEF n
  <2>4. x.at = q /\ q <= x.end
    BY <1>2, <1>4
  <2> QED
    BY <1>2, <1>5, <1>6, <1>7, <1>8, <1>9, <1>10, <2>1, <2>2, <2>3, <2>4, StackStep
<1> QED
  BY <1>11 DEF n, q, T

Ended(r) == [r EXCEPT !.at = r.at + 1, !.end = r.at + 1]

(* The end of a group, which only the outermost message is, ends it.       *)
LEMMA Stopped ==
  ASSUME NEW w, NEW p, NEW places, NEW V, NEW S, Tracks(w, p, places, V, S),
         NEW r, r = S[Len(S)], ~IsComplete(r), EndsGroup(w, p),
         NEW x, x = Ended(r)
  PROVE  Tracks(w, p + 1, places, V \cup {x}, [S EXCEPT ![Len(S)] = x])
<1> DEFINE n == Len(S)
           T == [S EXCEPT ![n] = x]
<1>1. /\ p \in Nat \ {0} /\ S \in Seq(V) /\ n \in Nat \ {0} /\ n \in 1 .. n
      /\ r \in V /\ r.at = p /\ \A s \in V : IsReadingUpTo(p, s)
  BY TopOfTheStack
<1>2. Len(S) = 1
  <2>1. ~IsComplete(S[Len(S)]) /\ EndsGroup(w, S[Len(S)].at) /\ Len(S) \in 1 .. Len(S)
    BY <1>1
  <2>2. \A i \in 1 .. Len(S) : ~IsComplete(S[i]) /\ EndsGroup(w, S[i].at) => i = 1
    BY OnlyTheOutermostIsAGroup
  <2> QED
    BY <2>1, <2>2
<1>3. /\ r = [type |-> r.type, start |-> r.start, at |-> r.at, end |-> r.end, message |-> r.message]
      /\ r.type \in DOMAIN Types /\ DOMAIN r.message = FieldNames(r.type)
      /\ r.start \in Nat \ {0} /\ r.start <= p
  BY <1>1 DEF IsReadingUpTo
<1>4. x = [type |-> r.type, start |-> r.start, at |-> p + 1, end |-> p + 1, message |-> r.message]
  BY <1>1, <1>3 DEF Ended
<1>5. IsReadingUpTo(p + 1, x) /\ IsComplete(x)
  <2>1. p + 1 \in Nat /\ r.start <= p + 1 /\ p + 1 <= p + 1
    BY <1>1, <1>3
  <2> QED
    BY <1>3, <1>4, <2>1 DEF IsReadingUpTo, IsComplete
<1>6. T \in Seq(V \cup {x}) /\ Len(T) = n /\ T[n] = x
  BY <1>1, Replaced
<1>7. \A readings : Rule(w, readings, r) <=> x \in readings
  BY <1>1 DEF Rule, Ended
<1>8. Rule(w, V \cup {x}, r) /\ ~IsUnsafe(w, r)
  BY <1>1, <1>7 DEF IsUnsafe
<1>9. \A readings : Closed(w, readings) /\ V \subseteq readings => x \in readings
  BY <1>1, <1>7 DEF Closed
<1>10. \A s \in V : IsComplete(s) \/ s.at # p + 1
  BY <1>1 DEF IsReadingUpTo
<1> HIDE DEF n, T
<1>11. Tracks(w, p + 1, places, V \cup {x}, T)
  <2>1. 1 \in 1 .. Len(S) + 1 /\ 1 <= Len(S) /\ r = S[1] /\ n = 1
    BY <1>2 DEF n
  <2>2. x.start = S[1].start /\ ~IsComplete(S[1]) /\ x.type = S[1].type
    BY <1>4, <2>1
  <2>3. \A i \in 1 .. Len(S) : Rule(w, V \cup {x}, S[i]) /\ ~IsUnsafe(w, S[i])
    <3>1. \A i \in 1 .. Len(S) : i = 1
      BY <1>2
    <3> QED
      BY <1>8, <2>1, <3>1
  <2>4. p + 1 \in Nat /\ p <= p + 1 /\ x.at = p + 1 /\ p + 1 <= x.end
    BY <1>1, <1>4
  <2>5. Len(T) = 1 /\ T[1] = x /\ (\A i \in 1 .. 1 - 1 : T[i] = S[i]) /\ ~(1 > 1)
    BY <1>6, <2>1
  <2> QED
    BY <1>5, <1>6, <1>9, <1>10, <2>1, <2>2, <2>3, <2>4, <2>5, StackStep
<1> QED
  BY <1>11 DEF n, T

(* The reading of a nested message begins behind its length.               *)
LEMMA Entered ==
  ASSUME NEW w, NEW p, NEW places, NEW V, NEW S, Tracks(w, p, places, V, S),
         NEW r, r = S[Len(S)], ~IsComplete(r), ~EndsGroup(w, p),
         NEW f \in FieldsAt(w, p, r.type), IsMessage(f.kind),
         NEW x, x = Nested(w, r, f.kind)
  PROVE  Tracks(w, p + 2, places, V \cup {x}, Append(S, x))
<1> DEFINE n == Len(S)
           T == Append(S, x)
<1>1. /\ p \in Nat \ {0} /\ S \in Seq(V) /\ n \in Nat \ {0} /\ n \in 1 .. n
      /\ r \in V /\ r.at = p /\ r.type \in DOMAIN Types /\ r.end \in Nat
      /\ \A s \in V : IsReadingUpTo(p, s)
  BY TopOfTheStack DEF IsReadingUpTo
<1>2. FieldEnd(w, p) \in p + 2 .. r.end /\ PlaceOf(x, FALSE) \in places
  BY <1>1, AtAReading
<1>3. x = [type |-> f.kind, start |-> p + 2, at |-> p + 2, end |-> FieldEnd(w, p),
           message |-> createBase(f.kind)]
  BY <1>1 DEF Nested
<1>4. DOMAIN createBase(f.kind) = FieldNames(f.kind)
  BY DEF createBase
<1>5. p + 2 \in Nat /\ p <= p + 2 /\ x.at = p + 2 /\ x.start = p + 2 /\ p + 2 <= x.end
  BY <1>1, <1>2, <1>3
<1>6. IsReadingUpTo(p + 2, x)
  <2>1. f.kind \in DOMAIN Types
    BY DEF IsMessage
  <2>2. FieldEnd(w, p) \in Nat
    BY <1>1, <1>2
  <2> QED
    BY <1>1, <1>3, <1>4, <2>1, <2>2 DEF IsReadingUpTo
<1>7. /\ T \in Seq(V \cup {x}) /\ Len(T) = n + 1 /\ T[n + 1] = x
      /\ \A i \in 1 .. (n + 1) - 1 : T[i] = S[i]
  BY <1>1, Appended
<1>8. Waits(w, V \cup {x}, r, x) /\ x.end <= r.end
  <2>1. x.start = r.at + 2 /\ x.end = FieldEnd(w, r.at) /\ x.type = f.kind
    BY <1>1, <1>3
  <2>2. x.end <= r.end
    BY <1>1, <1>2, <2>1
  <2> QED
    BY <1>1, <2>1, <2>2 DEF Waits
<1>9. \A readings : Closed(w, readings) /\ V \subseteq readings => x \in readings
  <2> SUFFICES ASSUME NEW readings, Closed(w, readings), r \in readings
               PROVE  x \in readings
    BY <1>1
  <2>1. Rule(w, readings, r)
    BY DEF Closed
  <2>2. FieldRule(w, readings, r, f)
    BY <1>1, <2>1 DEF Rule
  <2> QED
    BY <2>2 DEF FieldRule
<1>10. \A s \in V : IsComplete(s) \/ s.at # p + 2
  BY <1>1 DEF IsReadingUpTo
<1> HIDE DEF n, T
<1>11. Tracks(w, p + 2, places, V \cup {x}, T)
  <2>1. n + 1 \in 1 .. Len(S) + 1 /\ n + 1 = Len(S) + 1 /\ n + 1 > 1 /\ n + 1 # 1
    BY <1>1 DEF n
  <2>2. S[(n + 1) - 1] = r
    BY <1>1 DEF n
  <2>3. PlaceOf(x, n + 1 = 1) \in places
    <3>1. (n + 1 = 1) = FALSE
      BY <1>1
    <3> QED
      BY <1>2, <3>1
  <2>4. \A i \in n + 1 .. Len(S) : FALSE
    BY <1>1 DEF n
  <2> QED
    <3> DEFINE m == n + 1
    <3>1. m \in 1 .. Len(S) + 1 /\ m = Len(S) + 1 /\ m > 1 /\ m # 1
      BY <2>1
    <3>2. /\ Len(T) = m /\ T[m] = x /\ \A i \in 1 .. m - 1 : T[i] = S[i]
          /\ Waits(w, V \cup {x}, S[m - 1], x) /\ x.end <= S[m - 1].end
          /\ PlaceOf(x, m = 1) \in places
          /\ \A i \in m .. Len(S) : FALSE
      BY <1>7, <1>8, <2>2, <2>3, <2>4
    <3> HIDE DEF m
    <3> QED
      BY <1>5, <1>6, <1>7, <1>9, <1>10, <3>1, <3>2, StackStep
<1> QED
  BY <1>11 DEF n, T

(* The reading of the caller goes on with the message that was nested in   *)
(* it, the only complete reading of it there is.                           *)
LEMMA Returned ==
  ASSUME NEW w, NEW p, NEW places, NEW V, NEW S, Tracks(w, p, places, V, S),
         NEW n, n = Len(S), n > 1, IsComplete(S[n]),
         NEW r, r = S[n - 1], NEW f \in FieldsAt(w, r.at, r.type),
         NEW x, x = Past(w, r, Store(r.message, f, S[n].message))
  PROVE  Tracks(w, p, places, V \cup {x}, [SubSeq(S, 1, n - 1) EXCEPT ![n - 1] = x])
<1> DEFINE T == [SubSeq(S, 1, n - 1) EXCEPT ![n - 1] = x]
<1>1. /\ p \in Nat \ {0} /\ S \in Seq(V) /\ n \in Nat \ {0} /\ n \in 1 .. n /\ n - 1 \in 1 .. n
      /\ n - 1 \in 1 .. n - 1 /\ (n - 1) + 1 = n
      /\ S[n] \in V /\ S[n].at = p /\ p <= S[n].end /\ r \in V
      /\ \A s \in V : IsReadingUpTo(p, s)
  BY TopOfTheStack
<1>2. Waits(w, V, r, S[n])
  BY <1>1 DEF Tracks
<1>3. /\ ~IsComplete(r) /\ ~EndsGroup(w, r.at)
      /\ S[n].start = r.at + 2 /\ S[n].end = FieldEnd(w, r.at)
  BY <1>2 DEF Waits
<1>4. /\ r = [type |-> r.type, start |-> r.start, at |-> r.at, end |-> r.end, message |-> r.message]
      /\ r.type \in DOMAIN Types /\ DOMAIN r.message = FieldNames(r.type)
      /\ r.start \in Nat \ {0} /\ r.at \in Nat /\ r.end \in Nat /\ r.start <= r.at /\ r.at <= p
      /\ S[n].end \in Nat
  BY <1>1 DEF IsReadingUpTo
<1>5. f.kind = S[n].type /\ IsMessage(f.kind) /\ Nested(w, r, f.kind) \in V
  BY <1>2, <1>4, OneField DEF Waits
<1>6. S[n].end = p /\ FieldEnd(w, r.at) = p
  BY <1>1, <1>3, <1>4 DEF IsComplete
<1>7. p <= r.end /\ PlaceOf(x, n - 1 = 1) \in places
  <2>1. /\ FieldEnd(w, r.at) \in r.at + 2 .. r.end
        /\ \A message : PlaceOf(Past(w, r, message), n - 1 = 1) \in places
    BY <1>1, <1>3, AtAReading
  <2> QED
    BY <1>4, <1>6, <2>1
<1>8. x = [type |-> r.type, start |-> r.start, at |-> p, end |-> r.end,
           message |-> Store(r.message, f, S[n].message)]
  BY <1>4, <1>6 DEF Past
<1>9. IsReadingUpTo(p, x)
  <2>1. DOMAIN Store(r.message, f, S[n].message) = FieldNames(r.type)
    BY <1>4 DEF Store
  <2> QED
    BY <1>1, <1>4, <1>8, <2>1 DEF IsReadingUpTo
<1>10. /\ T \in Seq(V \cup {x}) /\ Len(T) = n - 1 /\ T[n - 1] = x
       /\ \A i \in 1 .. (n - 1) - 1 : T[i] = S[i]
  BY <1>1, Popped
<1>11. ASSUME n - 1 > 1
       PROVE  Waits(w, V \cup {x}, S[(n - 1) - 1], x) /\ x.end <= S[(n - 1) - 1].end
  <2>1. (n - 1) - 1 \in 1 .. n - 1 /\ ((n - 1) - 1) + 1 = n - 1 /\ (n - 1) - 1 < n - 1
    BY <1>1, <1>11
  <2>2. Waits(w, V, S[(n - 1) - 1], r)
    BY <2>1 DEF Tracks
  <2>3. r.end <= S[(n - 1) - 1].end
    BY <1>1, <2>1 DEF Tracks, StackOK
  <2> QED
    BY <1>8, <2>2, <2>3 DEF Waits
<1>12. \A s \in V : IsComplete(s) \/ s.at # p
  BY DEF Tracks, OnceOK
<1>13. Completes(S[n], w, r, f.kind)
  BY <1>1, <1>3, <1>5, <1>6 DEF Completes
<1>14. \A readings : Closed(w, readings) /\ V \subseteq readings => x \in readings
  <2> SUFFICES ASSUME NEW readings, Closed(w, readings), V \subseteq readings
               PROVE  x \in readings
    OBVIOUS
  <2>1. Rule(w, readings, r)
    BY <1>1, <1>3 DEF Closed
  <2>2. FieldRule(w, readings, r, f)
    BY <1>3, <2>1 DEF Rule
  <2> QED
    BY <1>1, <1>5, <1>13, <2>2 DEF FieldRule
<1>15. Rule(w, V \cup {x}, r) /\ ~IsUnsafe(w, r)
  <2>1. \A g \in FieldsAt(w, r.at, r.type) : g = f
    BY <1>4, OneField
  <2>2. f.kind \notin Long
    BY <1>5, TypesAssumption DEF IsMessage
  <2>3. ~IsUnsafe(w, r)
    BY <2>1, <2>2 DEF IsUnsafe, IsSafe
  <2>4. ASSUME NEW s \in V \cup {x}, Completes(s, w, r, f.kind)
        PROVE  Past(w, r, Store(r.message, f, s.message)) = x
    <3>1. s.start = S[n].start /\ s.at = s.end
      BY <1>3, <2>4 DEF Completes
    <3>2. s # x
      BY <1>3, <1>4, <1>8, <3>1
    <3>3. IsComplete(s)
      BY <1>1, <2>4, <3>1, <3>2 DEF IsComplete, IsReadingUpTo
    <3>4. s = S[n]
      BY <1>1, <3>1, <3>2, <3>3 DEF Tracks, OnceOK
    <3> QED
      BY <3>4
  <2>5. FieldRule(w, V \cup {x}, r, f)
    BY <1>5, <2>4 DEF FieldRule
  <2> QED
    BY <1>3, <2>1, <2>3, <2>5 DEF Rule
<1> HIDE DEF T
<1>16. Tracks(w, p, places, V \cup {x}, T)
  <2>1. n - 1 \in 1 .. Len(S) + 1 /\ n - 1 <= Len(S)
    BY <1>1
  <2>2. x.start = S[n - 1].start /\ (n - 1 = 1 => x.type = S[1].type)
    BY <1>8
  <2>3. \A i \in n - 1 .. Len(S) :
          IsComplete(S[i]) \/ (Rule(w, V \cup {x}, S[i]) /\ ~IsUnsafe(w, S[i]))
    <3>1. \A i \in n - 1 .. n : i = n - 1 \/ i = n
      BY <1>1
    <3> QED
      BY <1>15, <3>1
  <2>4. p \in Nat /\ p <= p /\ x.at = p /\ p <= x.end
    BY <1>1, <1>7, <1>8
  <2> QED
    BY <1>3, <1>7, <1>9, <1>10, <1>11, <1>12, <1>14, <2>1, <2>2, <2>3, <2>4, StackStep
<1> QED
  BY <1>16 DEF T

-----------------------------------------------------------------------------
(* The same steps, seen from the frames.                                   *)

CallOf(r, field) == [type |-> r.type, message |-> r.message, end |-> r.end, field |-> field]

LEMMA CallFacts ==
  ASSUME NEW w, NEW F, NEW S, Mirrors(w, F, S), NEW i \in 1 .. Len(S)
  PROVE  F[i].type = S[i].type /\ F[i].message = S[i].message /\ F[i].end = S[i].end
<1>1. F[i] = CallOf(S[i], F[i].field)
  BY DEF Mirrors, CallOf
<1> QED
  BY <1>1 DEF CallOf

LEMMA MirrorsTop ==
  ASSUME NEW w, NEW V, NEW S \in Seq(V), NEW F, Mirrors(w, F, S), Len(S) \in Nat \ {0},
         NEW x, NEW call, call = CallOf(x, F[Len(S)].field)
  PROVE  Mirrors(w, [F EXCEPT ![Len(S)] = call], [S EXCEPT ![Len(S)] = x])
<1> DEFINE n == Len(S)
           G == [F EXCEPT ![n] = call]
           T == [S EXCEPT ![n] = x]
<1>1. PICK any : F \in Seq(any)
  BY DEF Mirrors
<1>2. n \in Nat \ {0} /\ Len(F) = n /\ n \in 1 .. n
  BY DEF Mirrors
<1>3. /\ \A i \in 1 .. n : F[i] = CallOf(S[i], F[i].field)
      /\ \A i \in 1 .. n - 1 : \A f \in FieldsAt(w, S[i].at, S[i].type) : F[i + 1].field = f.name
  BY DEF Mirrors, CallOf
<1>4. /\ Len(T) = n /\ T[n] = x
      /\ \A i \in 1 .. n : i # n => T[i] = S[i]
  BY <1>2, Replaced
<1>5. /\ G \in Seq(any \cup {call}) /\ Len(G) = n /\ G[n] = call
      /\ \A i \in 1 .. n : i # n => G[i] = F[i]
  BY <1>1, <1>2, Replaced
<1>6. call.field = F[n].field
  BY DEF CallOf
<1> HIDE DEF n, G, T
<1>7. ASSUME NEW i \in 1 .. n
      PROVE  G[i].field = F[i].field /\ G[i] = CallOf(T[i], G[i].field)
  <2>1. CASE i = n
    BY <1>4, <1>5, <1>6, <2>1 DEF n
  <2>2. CASE i # n
    BY <1>3, <1>4, <1>5, <2>2
  <2> QED
    BY <2>1, <2>2
<1>8. ASSUME NEW i \in 1 .. n - 1, NEW f \in FieldsAt(w, T[i].at, T[i].type)
      PROVE  G[i + 1].field = f.name
  <2>1. i \in 1 .. n /\ i # n /\ i + 1 \in 1 .. n
    BY <1>2
  <2> QED
    BY <1>3, <1>4, <1>7, <2>1
<1>9. Mirrors(w, G, T)
  BY <1>4, <1>5, <1>7, <1>8 DEF Mirrors, CallOf
<1> QED
  BY <1>9 DEF n, G, T

LEMMA MirrorsPush ==
  ASSUME NEW w, NEW V, NEW S \in Seq(V), NEW F, Mirrors(w, F, S), Len(S) \in Nat \ {0},
         NEW x, NEW field,
         \A f \in FieldsAt(w, S[Len(S)].at, S[Len(S)].type) : field = f.name
  PROVE  Mirrors(w, Append(F, CallOf(x, field)), Append(S, x))
<1> DEFINE n == Len(S)
           G == Append(F, CallOf(x, field))
           T == Append(S, x)
<1>1. PICK any : F \in Seq(any)
  BY DEF Mirrors
<1>2. n \in Nat \ {0} /\ Len(F) = n
  BY DEF Mirrors
<1>3. /\ \A i \in 1 .. n : F[i] = CallOf(S[i], F[i].field)
      /\ \A i \in 1 .. n - 1 : \A f \in FieldsAt(w, S[i].at, S[i].type) : F[i + 1].field = f.name
  BY DEF Mirrors, CallOf
<1>4. /\ Len(T) = n + 1 /\ T[n + 1] = x
      /\ \A i \in 1 .. n : T[i] = S[i]
  BY <1>2, Appended
<1>5. /\ G \in Seq(any \cup {CallOf(x, field)}) /\ Len(G) = n + 1 /\ G[n + 1] = CallOf(x, field)
      /\ \A i \in 1 .. n : G[i] = F[i]
  BY <1>1, <1>2, Appended
<1>6. CallOf(x, field).field = field
  BY DEF CallOf
<1>7. \A f \in FieldsAt(w, S[n].at, S[n].type) : field = f.name
  OBVIOUS
<1> HIDE DEF n, G, T
<1>8. ASSUME NEW i \in 1 .. n + 1
      PROVE  G[i] = CallOf(T[i], G[i].field)
  <2>1. CASE i = n + 1
    BY <1>4, <1>5, <1>6, <2>1
  <2>2. CASE i # n + 1
    <3>1. i \in 1 .. n
      BY <1>2, <2>2
    <3> QED
      BY <1>3, <1>4, <1>5, <3>1
  <2> QED
    BY <2>1, <2>2
<1>9. ASSUME NEW i \in 1 .. (n + 1) - 1, NEW f \in FieldsAt(w, T[i].at, T[i].type)
      PROVE  G[i + 1].field = f.name
  <2>1. i \in 1 .. n
    BY <1>2
  <2>2. CASE i = n
    BY <1>4, <1>5, <1>6, <1>7, <2>1, <2>2
  <2>3. CASE i # n
    <3>1. i \in 1 .. n - 1 /\ i + 1 \in 1 .. n
      BY <1>2, <2>1, <2>3
    <3> QED
      BY <1>3, <1>4, <1>5, <2>1, <3>1
  <2> QED
    BY <2>2, <2>3
<1>10. Mirrors(w, G, T)
  BY <1>4, <1>5, <1>8, <1>9 DEF Mirrors, CallOf
<1> QED
  BY <1>10 DEF G, T

LEMMA MirrorsPop ==
  ASSUME NEW w, NEW V, NEW S \in Seq(V), NEW F, Mirrors(w, F, S), NEW n, n = Len(S), n > 1,
         NEW x, NEW call, call = CallOf(x, F[n - 1].field)
  PROVE  Mirrors(w, [SubSeq(F, 1, n - 1) EXCEPT ![n - 1] = call],
                    [SubSeq(S, 1, n - 1) EXCEPT ![n - 1] = x])
<1> DEFINE G == SubSeq(F, 1, n - 1)
           T == SubSeq(S, 1, n - 1)
<1>1. PICK any : F \in Seq(any)
  BY DEF Mirrors
<1>2. Len(F) = n /\ n \in Nat /\ n - 1 \in 1 .. n - 1
  BY DEF Mirrors
<1>3. T \in Seq(V) /\ Len(T) = n - 1 /\ \A i \in 1 .. n - 1 : T[i] = S[i]
  BY <1>2
<1>4. G \in Seq(any) /\ Len(G) = n - 1 /\ \A i \in 1 .. n - 1 : G[i] = F[i]
  BY <1>1, <1>2
<1> HIDE DEF G, T
<1>5. Mirrors(w, G, T)
  <2>1. ASSUME NEW i \in 1 .. n - 1
        PROVE  G[i] = CallOf(T[i], G[i].field)
    BY <1>2, <1>3, <1>4 DEF Mirrors, CallOf
  <2>2. ASSUME NEW i \in 1 .. (n - 1) - 1, NEW f \in FieldsAt(w, T[i].at, T[i].type)
        PROVE  G[i + 1].field = f.name
    <3>1. i \in 1 .. n - 1 /\ i + 1 \in 1 .. n - 1
      BY <1>2
    <3>2. f \in FieldsAt(w, S[i].at, S[i].type)
      BY <1>3, <3>1
    <3>3. F[i + 1].field = f.name
      BY <3>1, <3>2 DEF Mirrors
    <3> QED
      BY <1>4, <3>1, <3>3
  <2> QED
    BY <1>3, <1>4, <2>1, <2>2 DEF Mirrors, CallOf
<1>6. Len(T) \in Nat \ {0} /\ call = CallOf(x, G[Len(T)].field)
  BY <1>2, <1>3, <1>4
<1>7. Mirrors(w, [G EXCEPT ![Len(T)] = call], [T EXCEPT ![Len(T)] = x])
  BY <1>3, <1>5, <1>6, MirrorsTop
<1> QED
  BY <1>3, <1>7 DEF G, T

-----------------------------------------------------------------------------
(* The turns of the loop.                                                  *)

(* A 64-bit integer becomes the number it is, or longToNumber throws: the  *)
(* rounding of Number() never gets past its two bounds.                    *)
THEOREM LongToNumberIsExact ==
  ASSUME NEW n \in Int
  PROVE  longToNumber(n) = IF n \in -MaxSafe .. MaxSafe THEN n ELSE Throw
BY TypesAssumption DEF longToNumber, Number64

(* The field at the tag decides what follows.                              *)
LEMMA FieldDecides ==
  ASSUME NEW w, NEW r, r.type \in DOMAIN Types, ~EndsGroup(w, r.at),
         NEW f \in FieldsAt(w, r.at, r.type)
  PROVE  /\ \A readings : Rule(w, readings, r) <=> FieldRule(w, readings, r, f)
         /\ ~IsSafe(f.kind, ValueAt(w, r.at, f.kind)) /\ ~IsComplete(r) <=> IsUnsafe(w, r)
<1>1. \A g \in FieldsAt(w, r.at, r.type) : g = f
  BY OneField
<1> QED
  BY <1>1 DEF Rule, IsUnsafe

(* The innermost call, its reading, and the cases of the switch.           *)
LEMMA InnermostCall ==
  ASSUME NEW places, NEW V, NEW S,
         Tracks(wire, pos, places, V, S), Mirrors(wire, frames, S),
         NEW r, r = S[Len(S)]
  PROVE  /\ Len(frames) = Len(S) /\ Len(S) \in Nat \ {0} /\ Len(S) \in 1 .. Len(S)
         /\ S \in Seq(V) /\ r \in V /\ r.at = pos /\ IsReadingUpTo(pos, r)
         /\ r.type \in DOMAIN Types /\ DOMAIN r.message = FieldNames(r.type)
         /\ pos \in Nat \ {0} /\ pos <= r.end
         /\ Top = CallOf(r, Top.field)
         /\ Top.type = r.type /\ Top.message = r.message /\ Top.end = r.end
         /\ InLoop <=> status = "reading" /\ ~IsComplete(r)
         /\ LoopOver <=> IsComplete(r)
         /\ \A i \in Cases : Types[Top.type][i] \in FieldsAt(wire, pos, r.type)
         /\ Cases = {} => FieldsAt(wire, pos, r.type) = {}
         /\ ~IsComplete(r) => wire[pos] \in Nat
<1>1. /\ pos \in Nat \ {0} /\ S \in Seq(V) /\ Len(S) \in Nat \ {0} /\ Len(S) \in 1 .. Len(S)
      /\ r \in V /\ r.at = pos /\ pos <= r.end /\ IsReadingUpTo(pos, r)
  BY TopOfTheStack
<1>2. Len(frames) = Len(S) /\ Top = CallOf(r, Top.field)
  BY <1>1 DEF Mirrors, Top, CallOf
<1>3. Top.type = r.type /\ Top.message = r.message /\ Top.end = r.end
  BY <1>2 DEF CallOf
<1>4. InLoop <=> status = "reading" /\ ~IsComplete(r)
  BY <1>1, <1>3 DEF InLoop, IsComplete, IsReadingUpTo
<1>5. LoopOver <=> IsComplete(r)
  BY <1>1, <1>3 DEF LoopOver, IsComplete
<1>6. /\ \A i \in Cases : Types[Top.type][i] \in FieldsAt(wire, pos, r.type)
      /\ Cases = {} => FieldsAt(wire, pos, r.type) = {}
  BY <1>3 DEF Cases, Accepts, FieldNo, WireTypeRead, FieldsAt, IsBlock
<1>7. ~IsComplete(r) => wire[pos] \in Nat
  BY <1>1, AtAReading
<1>8. r.type \in DOMAIN Types /\ DOMAIN r.message = FieldNames(r.type)
  BY <1>1 DEF IsReadingUpTo
<1> QED
  BY <1>1, <1>2, <1>3, <1>4, <1>5, <1>6, <1>7, <1>8

(* What reading on in the innermost call comes to: its frame has the       *)
(* message of the next reading, and the reader is behind the field.        *)
LEMMA ReadOn ==
  ASSUME NEW places, NEW V, NEW S,
         Tracks(wire, pos, places, V, S), Mirrors(wire, frames, S),
         NEW r, r = S[Len(S)], InLoop, ~EndsGroup(wire, pos),
         NEW message, DOMAIN message = FieldNames(r.type),
         Rule(wire, V \cup {Past(wire, r, message)}, r), ~IsUnsafe(wire, r),
         \A readings : Rule(wire, readings, r) => Past(wire, r, message) \in readings,
         frames' = [frames EXCEPT ![Len(frames)] = [@ EXCEPT !.message = message]],
         pos' = FieldEnd(wire, pos), UNCHANGED <<wire, status>>
  PROVE  Inv'
<1> DEFINE n == Len(S)
           x == Past(wire, r, message)
           T == [S EXCEPT ![n] = x]
           W == V \cup {x}
<1>1. /\ Len(frames) = n /\ n \in Nat \ {0} /\ n \in 1 .. n /\ S \in Seq(V)
      /\ ~IsComplete(r) /\ status = "reading" /\ IsReadingUpTo(pos, r)
      /\ frames[n] = CallOf(r, frames[n].field)
  BY InnermostCall DEF Top
<1>2. Tracks(wire', pos', places, W, T)
  BY <1>1, Advanced
<1>3. r = [type |-> r.type, start |-> r.start, at |-> r.at, end |-> r.end, message |-> r.message]
  BY <1>1 DEF IsReadingUpTo
<1>4. x.type = r.type /\ x.message = message /\ x.end = r.end
  BY <1>3 DEF Past
<1>5. [frames[n] EXCEPT !.message = message] = CallOf(x, frames[n].field)
  BY <1>1, <1>4 DEF CallOf
<1>6. frames' = [frames EXCEPT ![n] = CallOf(x, frames[n].field)]
  BY <1>1, <1>5
<1>7. Mirrors(wire', frames', T)
  <2> DEFINE call == CallOf(x, frames[n].field)
  <2>1. call = CallOf(x, frames[Len(S)].field) /\ S \in Seq(V) /\ Len(S) \in Nat \ {0}
    BY <1>1
  <2> HIDE DEF call
  <2>2. Mirrors(wire, [frames EXCEPT ![Len(S)] = call], [S EXCEPT ![Len(S)] = x])
    BY <2>1, MirrorsTop
  <2> QED
    BY <1>6, <2>2 DEF call
<1>8. EndsOK(wire', status', T)
  BY <1>1 DEF EndsOK
<1> HIDE DEF T, W
<1> QED
  BY <1>2, <1>7, <1>8 DEF Inv

(* The values and the positions of the reader are those of the format.     *)
LEMMA ScalarFacts ==
  ASSUME NEW f, ~IsMessage(f.kind), WireTypeRead = WireType(f.kind)
  PROVE  /\ ScalarAt(f.kind).value = ValueAt(wire, pos, f.kind)
         /\ ScalarAt(f.kind).next = FieldEnd(wire, pos)
<1>1. CASE f.kind \in {"string", "bytes"}
  <2>1. WireType(f.kind) = 2
    BY <1>1 DEF WireType
  <2> QED
    BY <1>1, <2>1 DEF ScalarAt, ValueAt, FieldEnd, WireTypeRead
<1>2. CASE f.kind \notin {"string", "bytes"}
  <2>1. WireType(f.kind) \in {0, 1}
    BY <1>2 DEF WireType
  <2> QED
    BY <1>2, <2>1 DEF ScalarAt, ValueAt, FieldEnd, WireTypeRead
<1> QED
  BY <1>1, <1>2

LEMMA ReadsScalar ==
  ASSUME Inv, ReadScalar
  PROVE  Inv'
<1>1. PICK places, V, S : /\ Tracks(wire, pos, places, V, S) /\ Mirrors(wire, frames, S)
                          /\ EndsOK(wire, status, S)
  BY DEF Inv
<1> DEFINE r == S[Len(S)]
<1>2. /\ Top.type = r.type /\ Top.message = r.message /\ r.at = pos /\ r.type \in DOMAIN Types
      /\ DOMAIN r.message = FieldNames(r.type) /\ ~IsComplete(r) /\ InLoop
      /\ \A i \in Cases : Types[Top.type][i] \in FieldsAt(wire, pos, r.type)
      /\ Len(S) \in 1 .. Len(S)
  <2>1. InLoop
    BY DEF ReadScalar
  <2> HIDE DEF r
  <2>2. r = S[Len(S)]
    BY DEF r
  <2> QED
    BY <1>1, <2>1, <2>2, InnermostCall
<1> HIDE DEF r
<1>3. PICK i \in Cases :
        LET f == Types[Top.type][i]
            v == Converted(f.kind, ScalarAt(f.kind).value)
        IN  /\ ~IsMessage(f.kind)
            /\ WireTypeRead = WireType(f.kind)
            /\ v # Throw
            /\ SetTop(Store(Top.message, f, v))
            /\ pos' = ScalarAt(f.kind).next
  BY DEF ReadScalar
<1> DEFINE f == Types[Top.type][i]
           v == ValueAt(wire, pos, f.kind)
           message == Store(r.message, f, v)
<1>4. f \in FieldsAt(wire, r.at, r.type)
  BY <1>2
<1>5. ScalarAt(f.kind).value = v /\ pos' = FieldEnd(wire, pos)
  BY <1>3, ScalarFacts
<1>6. ~EndsGroup(wire, pos)
  BY <1>2, <1>4, NoFieldEndsGroup
<1>7. ~IsBlock(f, wire, pos)
  BY <1>2, <1>3, <1>4, FieldFacts DEF WireTypeRead
<1>8. Converted(f.kind, v) = v /\ IsSafe(f.kind, v)
  <2>1. CASE f.kind \notin Long
    BY <2>1 DEF Converted, IsSafe
  <2>2. CASE f.kind \in Long
    <3>1. v = wire[pos + 1]
      BY <2>2 DEF ValueAt, Long
    <3>2. wire[pos + 1] \in Int
      <4>1. ~IsComplete(S[Len(S)]) /\ ~EndsGroup(wire, S[Len(S)].at)
        BY <1>2, <1>6 DEF r
      <4>2. \A g \in FieldsAt(wire, S[Len(S)].at, S[Len(S)].type) :
              g.kind \in Long => wire[S[Len(S)].at + 1] \in Int
        BY <1>1, <1>2, <4>1, AtAReading
      <4> QED
        BY <1>2, <1>4, <2>2, <4>2 DEF r
    <3>3. Converted(f.kind, v) = longToNumber(v) /\ longToNumber(v) # Throw
      BY <1>3, <1>5, <2>2 DEF Converted
    <3> QED
      BY <3>1, <3>2, <3>3, LongToNumberIsExact DEF IsSafe
  <2> QED
    BY <2>1, <2>2
<1> HIDE DEF f, v
<1>9. \A readings : Rule(wire, readings, r) <=> Past(wire, r, message) \in readings
  <2>1. \A readings : FieldRule(wire, readings, r, f) <=> Past(wire, r, message) \in readings
    BY <1>2, <1>3, <1>7, <1>8 DEF FieldRule, f, v
  <2> QED
    BY <1>2, <1>4, <1>6, <2>1, FieldDecides
<1>10. ~IsUnsafe(wire, r)
  BY <1>2, <1>4, <1>6, <1>8, FieldDecides DEF v
<1>11. DOMAIN message = FieldNames(r.type)
  BY <1>2 DEF Store
<1>12. frames' = [frames EXCEPT ![Len(frames)] = [@ EXCEPT !.message = message]]
  BY <1>2, <1>3, <1>5, <1>8 DEF SetTop, f
<1>13. UNCHANGED <<wire, status>>
  BY DEF ReadScalar
<1> HIDE DEF message
<1> QED
  BY <1>1, <1>2, <1>5, <1>6, <1>9, <1>10, <1>11, <1>12, <1>13, ReadOn DEF r

LEMMA ReadsBlock ==
  ASSUME Inv, ReadBlock
  PROVE  Inv'
<1>1. PICK places, V, S : /\ Tracks(wire, pos, places, V, S) /\ Mirrors(wire, frames, S)
                          /\ EndsOK(wire, status, S)
  BY DEF Inv
<1> DEFINE r == S[Len(S)]
<1>2. /\ Top.type = r.type /\ Top.message = r.message /\ r.at = pos /\ r.type \in DOMAIN Types
      /\ DOMAIN r.message = FieldNames(r.type) /\ ~IsComplete(r) /\ InLoop
      /\ \A i \in Cases : Types[Top.type][i] \in FieldsAt(wire, pos, r.type)
  <2>1. InLoop
    BY DEF ReadBlock
  <2> HIDE DEF r
  <2>2. r = S[Len(S)]
    BY DEF r
  <2> QED
    BY <1>1, <2>1, <2>2, InnermostCall
<1> HIDE DEF r
<1>3. PICK i \in Cases :
        LET f == Types[Top.type][i]
            end2 == pos + 2 + wire[pos + 1]
        IN  /\ ~IsMessage(f.kind)
            /\ WireTypeRead # WireType(f.kind)
            /\ SetTop([Top.message EXCEPT ![f.name] = @ \o SubSeq(wire, pos + 2, end2 - 1)])
            /\ pos' = end2
  BY DEF ReadBlock
<1> DEFINE f == Types[Top.type][i]
           end2 == FieldEnd(wire, pos)
           message == [r.message EXCEPT ![f.name] = @ \o SubSeq(wire, pos + 2, end2 - 1)]
<1>4. f \in FieldsAt(wire, r.at, r.type)
  BY <1>2
<1>5. IsBlock(f, wire, pos) /\ f.kind \notin Long
  BY <1>2, <1>3, <1>4, FieldFacts DEF FieldsAt, WireTypeRead
<1>6. end2 = pos + 2 + wire[pos + 1]
  BY <1>5 DEF IsBlock, FieldEnd
<1>7. ~EndsGroup(wire, pos)
  BY <1>2, <1>4, NoFieldEndsGroup
<1> HIDE DEF f
<1>8. \A readings : Rule(wire, readings, r) <=> Past(wire, r, message) \in readings
  <2>1. \A readings : FieldRule(wire, readings, r, f) <=> Past(wire, r, message) \in readings
    BY <1>2, <1>3, <1>5 DEF FieldRule, f
  <2> QED
    BY <1>2, <1>4, <1>7, <2>1, FieldDecides
<1>9. ~IsUnsafe(wire, r)
  BY <1>2, <1>4, <1>5, <1>7, FieldDecides DEF IsSafe
<1>10. DOMAIN message = FieldNames(r.type)
  BY <1>2
<1>11. frames' = [frames EXCEPT ![Len(frames)] = [@ EXCEPT !.message = message]]
  BY <1>2, <1>3, <1>6 DEF SetTop, f
<1>12. pos' = FieldEnd(wire, pos) /\ UNCHANGED <<wire, status>>
  BY <1>3, <1>6 DEF ReadBlock
<1> HIDE DEF message
<1> QED
  BY <1>1, <1>2, <1>7, <1>8, <1>9, <1>10, <1>11, <1>12, ReadOn DEF r

LEMMA SkipsField ==
  ASSUME Inv, SkipField
  PROVE  Inv'
<1>1. PICK places, V, S : /\ Tracks(wire, pos, places, V, S) /\ Mirrors(wire, frames, S)
                          /\ EndsOK(wire, status, S)
  BY DEF Inv
<1>2. PICK r : r = S[Len(S)]
  OBVIOUS
<1>3. InLoop /\ ~EndsGroup(wire, pos)
  BY DEF SkipField, EndsGroup, WireTypeRead
<1>4. /\ r.at = pos /\ r.type \in DOMAIN Types /\ DOMAIN r.message = FieldNames(r.type)
      /\ Len(frames) = Len(S) /\ Len(S) \in 1 .. Len(S)
      /\ Top = CallOf(r, Top.field) /\ pos \in Nat
  BY <1>1, <1>2, InnermostCall
<1>5. FieldsAt(wire, pos, r.type) = {}
  BY <1>1, <1>2, InnermostCall DEF SkipField
<1>6. \A readings : Rule(wire, readings, r) <=> Past(wire, r, r.message) \in readings
  BY <1>3, <1>4, <1>5 DEF Rule
<1>7. ~IsUnsafe(wire, r)
  BY <1>4, <1>5 DEF IsUnsafe
<1>8. pos' = FieldEnd(wire, pos)
  BY <1>3, <1>4 DEF SkipField, SkipFrom, FieldEnd, WireTypeRead, EndsGroup
<1>9. frames' = [frames EXCEPT ![Len(frames)] = [@ EXCEPT !.message = r.message]]
  <2>1. PICK any : frames \in Seq(any)
    BY <1>1 DEF Mirrors
  <2>2. [frames[Len(frames)] EXCEPT !.message = r.message] = frames[Len(frames)]
    BY <1>4 DEF Top, CallOf
  <2>3. frames' = frames
    BY DEF SkipField
  <2> QED
    BY <2>1, <2>2, <2>3
<1>10. UNCHANGED <<wire, status>>
  BY DEF SkipField
<1> QED
  BY <1>1, <1>2, <1>3, <1>4, <1>6, <1>7, <1>8, <1>9, <1>10, ReadOn

LEMMA StopsAtEndGroup ==
  ASSUME Inv, StopAtEndGroup
  PROVE  Inv'
<1>1. PICK places, V, S : /\ Tracks(wire, pos, places, V, S) /\ Mirrors(wire, frames, S)
                          /\ EndsOK(wire, status, S)
  BY DEF Inv
<1>2. PICK r : r = S[Len(S)]
  OBVIOUS
<1>3. PICK x : x = Ended(r)
  OBVIOUS
<1>4. InLoop /\ EndsGroup(wire, pos)
  BY DEF StopAtEndGroup, EndsGroup, WireTypeRead
<1>5. /\ r.at = pos /\ IsReadingUpTo(pos, r) /\ S \in Seq(V)
      /\ Len(frames) = Len(S) /\ Len(S) \in Nat \ {0}
      /\ Top = CallOf(r, Top.field) /\ ~IsComplete(r) /\ status = "reading"
  BY <1>1, <1>2, <1>4, InnermostCall
<1>6. pos' = pos + 1 /\ wire' = wire /\ status' = "reading"
  BY <1>5 DEF StopAtEndGroup
<1>7. Tracks(wire', pos', places, V \cup {x}, [S EXCEPT ![Len(S)] = x])
  BY <1>1, <1>2, <1>3, <1>4, <1>5, <1>6, Stopped
<1>8. x.type = r.type /\ x.message = r.message /\ x.end = pos + 1
  BY <1>3, <1>5 DEF Ended, IsReadingUpTo
<1>9. [Top EXCEPT !.end = pos + 1] = CallOf(x, Top.field)
  BY <1>5, <1>8 DEF CallOf
<1>10. frames' = [frames EXCEPT ![Len(S)] = CallOf(x, frames[Len(S)].field)]
  BY <1>5, <1>6, <1>9 DEF StopAtEndGroup, Top
<1>11. Mirrors(wire', frames', [S EXCEPT ![Len(S)] = x])
  <2>1. PICK call : call = CallOf(x, frames[Len(S)].field)
    OBVIOUS
  <2>2. Mirrors(wire, [frames EXCEPT ![Len(S)] = call], [S EXCEPT ![Len(S)] = x])
    BY <1>1, <1>5, <2>1, MirrorsTop
  <2> QED
    BY <1>6, <1>10, <2>1, <2>2
<1>12. EndsOK(wire', status', [S EXCEPT ![Len(S)] = x])
  BY <1>6 DEF EndsOK
<1> QED
  BY <1>7, <1>11, <1>12 DEF Inv

LEMMA EntersMessage ==
  ASSUME Inv, EnterMessage
  PROVE  Inv'
<1>1. PICK places, V, S : /\ Tracks(wire, pos, places, V, S) /\ Mirrors(wire, frames, S)
                          /\ EndsOK(wire, status, S)
  BY DEF Inv
<1>2. PICK r : r = S[Len(S)]
  OBVIOUS
<1>3. InLoop
  BY DEF EnterMessage
<1>4. /\ r.at = pos /\ r.type \in DOMAIN Types /\ Top.type = r.type /\ S \in Seq(V)
      /\ Len(S) \in Nat \ {0} /\ ~IsComplete(r) /\ status = "reading"
      /\ \A i \in Cases : Types[Top.type][i] \in FieldsAt(wire, pos, r.type)
  BY <1>1, <1>2, <1>3, InnermostCall
<1>5. PICK i \in Cases :
        LET f == Types[Top.type][i]
        IN  /\ IsMessage(f.kind)
            /\ frames' = Append(frames, [type |-> f.kind, message |-> BaseOf(f),
                                         end |-> EndOfMessage, field |-> f.name])
            /\ pos' = pos + 2
  BY DEF EnterMessage
<1>6. PICK f : f = Types[Top.type][i]
  OBVIOUS
<1>7. f \in FieldsAt(wire, pos, r.type) /\ IsMessage(f.kind)
  BY <1>4, <1>5, <1>6
<1>8. ~EndsGroup(wire, pos)
  BY <1>4, <1>7, NoFieldEndsGroup
<1>9. PICK x : x = Nested(wire, r, f.kind)
  OBVIOUS
<1>10. pos' = pos + 2 /\ wire' = wire /\ status' = "reading"
  BY <1>4, <1>5 DEF EnterMessage
<1>11. Tracks(wire', pos', places, V \cup {x}, Append(S, x))
  BY <1>1, <1>2, <1>4, <1>7, <1>8, <1>9, <1>10, Entered
<1>12. EndOfMessage = FieldEnd(wire, pos)
  BY <1>4, <1>7, FieldFacts DEF EndOfMessage, FieldEnd
<1>13. frames' = Append(frames, CallOf(x, f.name))
  BY <1>4, <1>5, <1>6, <1>9, <1>12 DEF CallOf, Nested, BaseOf
<1>14. \A g \in FieldsAt(wire, S[Len(S)].at, S[Len(S)].type) : f.name = g.name
  BY <1>2, <1>4, <1>7, OneField
<1>15. Mirrors(wire', frames', Append(S, x))
  BY <1>1, <1>4, <1>10, <1>13, <1>14, MirrorsPush
<1>16. EndsOK(wire', status', Append(S, x))
  BY <1>10 DEF EndsOK
<1> QED
  BY <1>11, <1>15, <1>16 DEF Inv

LEMMA Throws ==
  ASSUME Inv, ThrowOutOfRange
  PROVE  Inv'
<1>1. PICK places, V, S : /\ Tracks(wire, pos, places, V, S) /\ Mirrors(wire, frames, S)
                          /\ EndsOK(wire, status, S)
  BY DEF Inv
<1>2. PICK r : r = S[Len(S)]
  OBVIOUS
<1>3. InLoop
  BY DEF ThrowOutOfRange
<1>4. /\ r.at = pos /\ r.type \in DOMAIN Types /\ Top.type = r.type /\ ~IsComplete(r)
      /\ Len(S) \in 1 .. Len(S)
      /\ \A i \in Cases : Types[Top.type][i] \in FieldsAt(wire, pos, r.type)
  BY <1>1, <1>2, <1>3, InnermostCall
<1>5. PICK i \in Cases :
        LET f == Types[Top.type][i]
        IN  f.kind \in Long /\ Converted(f.kind, ScalarAt(f.kind).value) = Throw
  BY DEF ThrowOutOfRange
<1>6. PICK f : f = Types[Top.type][i]
  OBVIOUS
<1>7. f \in FieldsAt(wire, pos, r.type) /\ f.kind \in Long /\ f.kind \notin {"string", "bytes"}
  BY <1>4, <1>5, <1>6 DEF Long
<1>8. ~EndsGroup(wire, pos)
  BY <1>4, <1>7, NoFieldEndsGroup
<1>9. wire[pos + 1] \in Int
  <2>1. \A g \in FieldsAt(wire, S[Len(S)].at, S[Len(S)].type) :
          g.kind \in Long => wire[S[Len(S)].at + 1] \in Int
    BY <1>1, <1>2, <1>4, <1>8, AtAReading
  <2> QED
    BY <1>2, <1>4, <1>7, <2>1
<1>10. longToNumber(wire[pos + 1]) = Throw
  BY <1>5, <1>6, <1>7 DEF Converted, ScalarAt
<1>11. wire[pos + 1] \notin -MaxSafe .. MaxSafe
  BY <1>9, <1>10, LongToNumberIsExact, TypesAssumption
<1>12. ~IsSafe(f.kind, ValueAt(wire, pos, f.kind))
  BY <1>7, <1>11 DEF IsSafe, ValueAt
<1>13. IsUnsafe(wire, r)
  BY <1>4, <1>7, <1>8, <1>12, FieldDecides
<1>14. UNCHANGED <<wire, pos, frames>> /\ status' = "threw"
  BY DEF ThrowOutOfRange
<1>15. EndsOK(wire', status', S)
  BY <1>2, <1>13, <1>14 DEF EndsOK
<1> QED
  BY <1>1, <1>14, <1>15 DEF Inv

LEMMA Returns ==
  ASSUME Inv, Return
  PROVE  Inv'
<1>1. PICK places, V, S : /\ Tracks(wire, pos, places, V, S) /\ Mirrors(wire, frames, S)
                          /\ EndsOK(wire, status, S)
  BY DEF Inv
<1>2. PICK n : n = Len(S)
  OBVIOUS
<1>3. /\ Len(frames) = n /\ n \in Nat \ {0} /\ S \in Seq(V) /\ IsComplete(S[n])
      /\ Top.message = S[n].message /\ status = "reading"
  BY <1>1, <1>2, InnermostCall DEF Return
<1>4. CASE n = 1
  <2>1. UNCHANGED <<wire, pos, frames>> /\ status' = "returned"
    BY <1>3, <1>4 DEF Return
  <2>2. EndsOK(wire', status', S)
    BY <1>2, <1>3, <1>4, <2>1 DEF EndsOK
  <2> QED
    BY <1>1, <2>1, <2>2 DEF Inv
<1>5. CASE n # 1
  <2>1. n > 1 /\ n - 1 \in 1 .. n - 1 /\ n - 1 \in 1 .. n /\ (n - 1) + 1 = n
    BY <1>3, <1>5
  <2>2. PICK r : r = S[n - 1]
    OBVIOUS
  <2>3. PICK f \in FieldsAt(wire, r.at, r.type) : f.kind = S[n].type /\ IsMessage(f.kind)
    <3>1. Waits(wire, V, r, S[n])
      BY <1>1, <1>2, <2>1, <2>2 DEF Tracks
    <3> QED
      BY <3>1 DEF Waits
  <2>4. IsReadingUpTo(pos, r)
    BY <1>1, <1>2, <1>3, <2>1, <2>2, TopOfTheStack
  <2>5. frames[n - 1] = CallOf(r, frames[n - 1].field) /\ Top.field = f.name
    BY <1>1, <1>2, <1>3, <2>1, <2>2, <2>3 DEF Mirrors, CallOf, Top
  <2>6. FieldOf(frames[n - 1].type, Top.field) = f
    BY <2>3, <2>4, <2>5, FieldFacts DEF CallOf, IsReadingUpTo
  <2>7. PICK message : message = Store(r.message, f, S[n].message)
    OBVIOUS
  <2>8. PICK x : x = Past(wire, r, message)
    OBVIOUS
  <2>9. UNCHANGED <<wire, pos, status>>
    BY <1>3, <1>5 DEF Return
  <2>10. Tracks(wire', pos', places, V \cup {x}, [SubSeq(S, 1, n - 1) EXCEPT ![n - 1] = x])
    BY <1>1, <1>2, <1>3, <2>1, <2>2, <2>3, <2>7, <2>8, <2>9, Returned
  <2>11. x.type = r.type /\ x.message = message /\ x.end = r.end
    BY <2>4, <2>8 DEF Past, IsReadingUpTo
  <2>12. PICK call : call = CallOf(x, frames[n - 1].field)
    OBVIOUS
  <2>13. frames[n - 1].message = r.message
    BY <2>5 DEF CallOf
  <2>14. [frames[n - 1] EXCEPT !.message = message] = call
    BY <2>5, <2>11, <2>12 DEF CallOf
  <2>15. frames' = [SubSeq(frames, 1, n - 1) EXCEPT ![n - 1] = call]
    <3>1. PICK any : frames \in Seq(any)
      BY <1>1 DEF Mirrors
    <3>2. SubSeq(frames, 1, n - 1)[n - 1] = frames[n - 1]
      BY <1>3, <2>1, <3>1
    <3>3. frames' = [SubSeq(frames, 1, n - 1) EXCEPT ![n - 1].message = message]
      BY <1>3, <1>5, <2>6, <2>7, <2>13 DEF Return
    <3> QED
      BY <2>14, <3>2, <3>3
  <2>16. Mirrors(wire', frames', [SubSeq(S, 1, n - 1) EXCEPT ![n - 1] = x])
    BY <1>1, <1>2, <1>3, <2>1, <2>9, <2>12, <2>15, MirrorsPop
  <2>17. EndsOK(wire', status', [SubSeq(S, 1, n - 1) EXCEPT ![n - 1] = x])
    BY <1>3, <2>9 DEF EndsOK
  <2> QED
    BY <2>10, <2>16, <2>17 DEF Inv
<1> QED
  BY <1>4, <1>5

-----------------------------------------------------------------------------
(* The invariant.                                                          *)

LEMMA Begins ==
  ASSUME DecodeInit
  PROVE  Inv
<1>1. PICK type \in DOMAIN Types : IsWire(wire, type) /\ Start(type)
  BY DEF DecodeInit
<1>2. PICK places : AreWellFormed(wire, places) /\ Outermost(wire, type) \in places
  BY <1>1 DEF IsWire
<1>3. Len(wire) \in Nat /\ pos = 1 /\ status = "reading"
  BY <1>1 DEF IsWire, Start
<1>4. PICK r : r = First(wire, type)
  OBVIOUS
<1>5. r = [type |-> type, start |-> 1, at |-> 1, end |-> Len(wire) + 1, message |-> createBase(type)]
  BY <1>4 DEF First
<1>6. IsReadingUpTo(1, r)
  BY <1>3, <1>5 DEF IsReadingUpTo, createBase
<1>7. PlaceOf(r, TRUE) = Outermost(wire, type)
  BY <1>5 DEF PlaceOf, Outermost
<1>8. PICK S : S = <<r>>
  OBVIOUS
<1>9. S \in Seq({r}) /\ Len(S) = 1 /\ S[1] = r
  BY <1>8
<1>10. StackOK(1, places, {r}, S)
  <2>1. PlaceOf(r, 1 = 1) \in places
    BY <1>2, <1>7
  <2>2. r.start = 1 /\ r.at = 1 /\ 1 <= r.end
    BY <1>3, <1>5
  <2>3. S # << >>
    BY <1>9
  <2> QED
    BY <1>9, <2>1, <2>2, <2>3 DEF StackOK
<1>11. FollowsOK(wire, {r}, S) /\ OnceOK(1, {r}, S)
  <2>1. S[1].type = type /\ \A i \in 1 .. Len(S) : i = 1
    BY <1>5, <1>9
  <2>2. FollowsOK(wire, {r}, S)
    BY <1>4, <1>9, <2>1 DEF FollowsOK
  <2>3. OnceOK(1, {r}, S)
    BY <1>9, <2>1 DEF OnceOK
  <2> QED
    BY <2>2, <2>3
<1>12. Tracks(wire, pos, places, {r}, S)
  BY <1>2, <1>3, <1>6, <1>9, <1>10, <1>11 DEF Tracks
<1>13. Mirrors(wire, frames, S)
  <2>1. PICK call : call = CallOf(r, "")
    OBVIOUS
  <2>2. frames = <<call>>
    BY <1>1, <1>5, <2>1 DEF Start, CallOf
  <2>3. frames \in Seq({call}) /\ Len(frames) = 1 /\ frames[1] = call
    BY <2>2
  <2>4. call = CallOf(r, call.field)
    BY <2>1 DEF CallOf
  <2> QED
    BY <1>9, <2>3, <2>4 DEF Mirrors, CallOf
<1>14. EndsOK(wire, status, S)
  BY <1>3 DEF EndsOK
<1> QED
  BY <1>12, <1>13, <1>14 DEF Inv

LEMMA Stutters ==
  ASSUME Inv, UNCHANGED readerVars
  PROVE  Inv'
<1>1. wire' = wire /\ pos' = pos /\ frames' = frames /\ status' = status
  BY DEF readerVars
<1> QED
  BY <1>1 DEF Inv

(* Beside the calls of decode runs the stack of readings, whatever message *)
(* it is and whoever wrote it.                                             *)
THEOREM Invariance == DecodeSpec => []Inv
<1>1. Inv /\ [Decode]_readerVars => Inv'
  BY ReadsScalar, ReadsBlock, SkipsField, StopsAtEndGroup, EntersMessage, Throws, Returns, Stutters
     DEF Decode
<1> QED
  BY <1>1, Begins, PTL DEF DecodeSpec

(* The frames are those of calls of decode: each has a message with the    *)
(* fields of its type, for a field of its caller that is of this type.     *)
THEOREM TypeCorrect == DecodeSpec => []TypeOK
<1>1. ASSUME Inv
      PROVE  TypeOK
  <2>1. PICK places, V, S : /\ Tracks(wire, pos, places, V, S) /\ Mirrors(wire, frames, S)
                            /\ EndsOK(wire, status, S)
    BY <1>1 DEF Inv
  <2>2. /\ Len(S) \in Nat \ {0} /\ S \in Seq(V) /\ \A r \in V : IsReadingUpTo(pos, r)
    BY <2>1, TopOfTheStack
  <2>3. PICK any : frames \in Seq(any)
    BY <2>1 DEF Mirrors
  <2>4. frames # << >> /\ DOMAIN frames = 1 .. Len(S)
    BY <2>1, <2>2, <2>3 DEF Mirrors
  <2>5. ASSUME NEW i \in 1 .. Len(S)
        PROVE  /\ frames[i].type = S[i].type /\ frames[i].message = S[i].message
               /\ S[i].type \in DOMAIN Types /\ DOMAIN S[i].message = FieldNames(S[i].type)
    <3>1. S[i] \in V
      BY <2>2
    <3> QED
      BY <2>1, <2>2, <3>1, CallFacts DEF IsReadingUpTo
  <2>6. ASSUME NEW i \in 1 .. Len(S), i > 1
        PROVE  FieldOf(frames[i - 1].type, frames[i].field).kind = frames[i].type
    <3>1. i - 1 \in 1 .. Len(S) - 1 /\ (i - 1) + 1 = i /\ i - 1 \in 1 .. Len(S)
      BY <2>2, <2>6
    <3>2. Waits(wire, V, S[i - 1], S[i])
      BY <2>1, <3>1 DEF Tracks
    <3>3. PICK f \in FieldsAt(wire, S[i - 1].at, S[i - 1].type) : f.kind = S[i].type
      BY <3>2 DEF Waits
    <3>4. frames[i].field = f.name
      BY <2>1, <3>1, <3>3 DEF Mirrors
    <3>5. FieldOf(S[i - 1].type, f.name) = f
      BY <2>5, <3>1, <3>3, FieldFacts
    <3> QED
      BY <2>5, <3>1, <3>3, <3>4, <3>5
  <2> QED
    BY <2>1, <2>4, <2>5, <2>6 DEF TypeOK, EndsOK, IsMessage
<1> QED
  BY <1>1, Invariance, PTL

(* A nested decode stays within the length its caller read, and gives the  *)
(* reader back exactly at its end.                                         *)
THEOREM ReadsStayInside == DecodeSpec => []NestedReadsStayInside
<1>1. ASSUME Inv
      PROVE  NestedReadsStayInside
  <2>1. PICK places, V, S : /\ Tracks(wire, pos, places, V, S) /\ Mirrors(wire, frames, S)
                            /\ EndsOK(wire, status, S)
    BY <1>1 DEF Inv
  <2>2. /\ Len(S) \in Nat \ {0} /\ S \in Seq(V) /\ \A r \in V : IsReadingUpTo(pos, r)
        /\ pos \in Nat /\ S[Len(S)].at = pos
    BY <2>1, TopOfTheStack
  <2>3. PICK any : frames \in Seq(any)
    BY <2>1 DEF Mirrors
  <2>4. Len(frames) = Len(S) /\ DOMAIN frames = 1 .. Len(S)
    BY <2>1, <2>2, <2>3 DEF Mirrors
  <2>5. ASSUME NEW i \in 1 .. Len(S)
        PROVE  frames[i].end = S[i].end /\ pos <= S[i].end /\ S[i].end \in Nat
    <3>1. frames[i].end = S[i].end /\ pos <= S[i].end
      BY <2>1, CallFacts DEF Tracks, StackOK
    <3>2. S[i] \in V
      BY <2>2
    <3> QED
      BY <2>2, <3>1, <3>2 DEF IsReadingUpTo
  <2>6. ASSUME NEW i \in 2 .. Len(S)
        PROVE  frames[i].end <= frames[i - 1].end
    <3>1. i \in 1 .. Len(S) /\ i - 1 \in 1 .. Len(S) /\ i - 1 < i
      BY <2>2
    <3>2. S[i].end <= S[i - 1].end
      BY <2>1, <3>1 DEF Tracks, StackOK
    <3> QED
      BY <2>5, <3>1, <3>2
  <2>7. ASSUME status = "returned"
        PROVE  pos = frames[1].end
    <3>1. Len(S) = 1 /\ IsComplete(S[1])
      BY <2>1, <2>7 DEF EndsOK
    <3>2. S[1].at = pos /\ 1 \in 1 .. Len(S)
      BY <2>2, <3>1
    <3> QED
      BY <2>2, <2>5, <3>1, <3>2 DEF IsComplete
  <2> QED
    BY <2>4, <2>5, <2>6, <2>7 DEF NestedReadsStayInside
<1> QED
  BY <1>1, Invariance, PTL

(* What decode returns is what the wire means, which is one message and no *)
(* other, and it throws only where a 64-bit integer is beyond what a       *)
(* JavaScript number holds; a message with such an integer anywhere in it  *)
(* is never returned.                                                      *)
THEOREM DecodeIsTheMeaning == DecodeSpec => []DecodesTheMeaning
<1>1. ASSUME Inv
      PROVE  DecodesTheMeaning
  <2>1. PICK places, V, S : /\ Tracks(wire, pos, places, V, S) /\ Mirrors(wire, frames, S)
                            /\ EndsOK(wire, status, S)
    BY <1>1 DEF Inv
  <2>2. /\ Len(S) \in Nat \ {0} /\ S \in Seq(V) /\ \A r \in V : IsReadingUpTo(pos, r)
        /\ pos \in Nat /\ S[Len(S)].at = pos /\ S[Len(S)] \in V /\ pos <= S[Len(S)].end
    BY <2>1, TopOfTheStack
  <2>3. 1 \in 1 .. Len(S) /\ S[1] \in V
    BY <2>2
  <2>4. frames[1].type = S[1].type /\ Decoded = S[1].message
    BY <2>1, <2>3, CallFacts DEF Decoded
  <2> DEFINE type == S[1].type
             first == First(wire, type)
  <2>5. /\ first \in V
        /\ \A readings : Closed(wire, readings) /\ first \in readings => V \subseteq readings
        /\ \A r \in V : \/ IsComplete(r)
                        \/ \E i \in 1 .. Len(S) : r = S[i]
                        \/ Rule(wire, V, r) /\ ~IsUnsafe(wire, r)
    BY <2>1 DEF Tracks, FollowsOK
  <2>6. \A r \in V : IsReading(wire, type, r)
    BY <2>5 DEF IsReading
  <2>7. ASSUME status = "threw"
        PROVE  HasUnsafe(wire, type)
    BY <2>1, <2>2, <2>6, <2>7 DEF EndsOK, HasUnsafe
  <2>8. ASSUME status = "returned"
        PROVE  ~HasUnsafe(wire, type) /\ \A message : Means(wire, type, message) <=> message = Decoded
    <3>1. Len(S) = 1 /\ IsComplete(S[1])
      BY <2>1, <2>8 DEF EndsOK
    <3>2. \A r \in V : IsComplete(r) \/ (Rule(wire, V, r) /\ ~IsUnsafe(wire, r))
      <4>1. \A i \in 1 .. Len(S) : i = 1
        BY <3>1
      <4> QED
        BY <2>5, <3>1, <4>1
    <3>3. Closed(wire, V)
      BY <3>2 DEF Closed
    <3>4. \A r : IsReading(wire, type, r) <=> r \in V
      BY <2>5, <2>6, <3>3 DEF IsReading
    <3>5. ~HasUnsafe(wire, type)
      BY <3>2, <3>4 DEF HasUnsafe, IsUnsafe
    <3>6. S[1].start = 1 /\ S[1].at = pos /\ S[1].end = pos
      BY <2>1, <2>2, <2>3, <3>1 DEF Tracks, StackOK, IsComplete, IsReadingUpTo
    <3> DEFINE whole(end, message) ==
          [type |-> type, start |-> 1, at |-> end, end |-> end, message |-> message]
    <3>7. Means(wire, type, Decoded)
      <4>1. S[1] = whole(pos, Decoded)
        BY <2>2, <2>3, <2>4, <3>6 DEF IsReadingUpTo
      <4> QED
        BY <2>2, <2>3, <3>4, <4>1 DEF Means
    <3>8. ASSUME NEW message, Means(wire, type, message)
          PROVE  message = Decoded
      <4>1. PICK end \in Nat : whole(end, message) \in V
        BY <3>4, <3>8 DEF Means
      <4>2. PICK r \in V : r = whole(end, message)
        BY <4>1
      <4>3. r.start = S[1].start /\ IsComplete(r) /\ r.message = message
        BY <3>6, <4>2 DEF IsComplete
      <4>4. r = S[1]
        BY <2>1, <2>3, <4>3 DEF Tracks, OnceOK
      <4> QED
        BY <2>4, <4>3, <4>4
    <3> QED
      BY <3>5, <3>7, <3>8
  <2> QED
    BY <2>4, <2>7, <2>8 DEF DecodesTheMeaning
<1> QED
  BY <1>1, Invariance, PTL
===============================================================================
