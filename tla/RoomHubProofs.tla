--------------------------- MODULE RoomHubProofs ----------------------------
(***************************************************************************)
(* Proofs about RoomHub, for every number of users, rooms, addresses,      *)
(* sessions and participants, and of operations that overlap.              *)
(***************************************************************************)
EXTENDS RoomHub, TLAPS

-----------------------------------------------------------------------------
(* Operations under way *)

Entry == [op: Accesses, part: Parts, pc: PcTypes \cup {None}, addr: Addrs \cup {None}]

\* What is left of a join, a removal and a latch.
JoinRest(p) ==
  {JoinAccesses(p), <<Access("participant", p), Access("hub_ufrags", p)>>,
   <<Access("hub_ufrags", p)>>}

RemoveRest(p) ==
  {<<Access("rm_ufrags", p), Access("rm_addrs", p), Access("rm_hub_ufrags", p),
     Access("rm_hub_addrs", p)>>,
   <<Access("rm_addrs", p), Access("rm_hub_ufrags", p), Access("rm_hub_addrs", p)>>,
   <<Access("rm_hub_ufrags", p), Access("rm_hub_addrs", p)>>,
   <<Access("rm_hub_addrs", p)>>}

LatchRest(s, a) ==
  {<<LatchAccess("rebind", s, a), LatchAccess("address", s, a),
     LatchAccess("addr", s, a), LatchAccess("hub_addr", s, a)>>,
   <<LatchAccess("address", s, a), LatchAccess("addr", s, a), LatchAccess("hub_addr", s, a)>>,
   <<LatchAccess("addr", s, a), LatchAccess("hub_addr", s, a)>>,
   <<LatchAccess("hub_addr", s, a)>>}

IsRest(q) ==
  \/ q = <<>>
  \/ \E p \in Parts : q \in JoinRest(p) \cup RemoveRest(p)
  \/ \E s \in Sessions, a \in Addrs : q \in LatchRest(s, a)

\* The access that comes next says how far an operation is.
OpOf(q) == IF q = <<>> THEN "none" ELSE q[1].op

Op(t)   == OpOf(todo[t])
Part(t) == todo[t][1].part
Sess(t) == <<todo[t][1].part, todo[t][1].pc>>
Adr(t)  == todo[t][1].addr

Registering == {"ufrags", "participant"}
Removing    == {"rm_ufrags", "rm_addrs", "rm_hub_ufrags", "rm_hub_addrs"}
Latching    == {"rebind", "address", "addr", "hub_addr"}

After(op) ==
  CASE op = "ufrags"        -> "participant"
    [] op = "participant"   -> "hub_ufrags"
    [] op = "rm_ufrags"     -> "rm_addrs"
    [] op = "rm_addrs"      -> "rm_hub_ufrags"
    [] op = "rm_hub_ufrags" -> "rm_hub_addrs"
    [] op = "rebind"        -> "address"
    [] op = "address"       -> "addr"
    [] op = "addr"          -> "hub_addr"
    [] OTHER                -> "none"

\* The first access of a rest is well formed and what follows is the rest after
\* it, of the same participant, session and address.
RestFacts(q) ==
  /\ q \in Seq(Entry) /\ q # <<>> /\ Head(q) = q[1]
  /\ q[1].op \in Accesses /\ q[1].part \in Parts
  /\ q[1].op \in Latching => q[1].pc \in PcTypes /\ q[1].addr \in Addrs
  /\ IsRest(Tail(q)) /\ OpOf(Tail(q)) = After(q[1].op)
  /\ Tail(q) # <<>> => /\ Tail(q)[1].part = q[1].part
                       /\ Tail(q)[1].pc = q[1].pc /\ Tail(q)[1].addr = q[1].addr
  /\ Tail(q) \in Seq(Entry)

\* The accesses of joins and removals.
LEMMA AccessFields ==
  ASSUME NEW op \in Accesses, NEW p \in Parts
  PROVE  /\ Access(op, p) \in Entry
         /\ Access(op, p).op = op /\ Access(op, p).part = p
         /\ Access(op, p).pc = None /\ Access(op, p).addr = None
BY DEF Access, Entry

\* The accesses of latches.
LEMMA LatchFields ==
  ASSUME NEW op \in Accesses, NEW s \in Sessions, NEW a \in Addrs
  PROVE  /\ LatchAccess(op, s, a) \in Entry
         /\ LatchAccess(op, s, a).op = op /\ LatchAccess(op, s, a).part = s[1]
         /\ LatchAccess(op, s, a).pc = s[2] /\ LatchAccess(op, s, a).addr = a
         /\ s[1] \in Parts /\ s[2] \in PcTypes /\ s = <<s[1], s[2]>>
BY DEF LatchAccess, Entry, Sessions

\* Sequences of one to four accesses.
LEMMA TailOf ==
  ASSUME NEW a \in Entry, NEW b \in Entry, NEW c \in Entry, NEW d \in Entry
  PROVE  /\ <<a>> \in Seq(Entry) /\ <<a>> # <<>> /\ <<a>>[1] = a
         /\ Head(<<a>>) = a /\ Tail(<<a>>) = <<>>
         /\ <<a, b>> \in Seq(Entry) /\ <<a, b>> # <<>> /\ <<a, b>>[1] = a
         /\ Head(<<a, b>>) = a /\ Tail(<<a, b>>) = <<b>>
         /\ <<a, b, c>> \in Seq(Entry) /\ <<a, b, c>> # <<>> /\ <<a, b, c>>[1] = a
         /\ Head(<<a, b, c>>) = a /\ Tail(<<a, b, c>>) = <<b, c>>
         /\ <<a, b, c, d>> \in Seq(Entry) /\ <<a, b, c, d>> # <<>> /\ <<a, b, c, d>>[1] = a
         /\ Head(<<a, b, c, d>>) = a /\ Tail(<<a, b, c, d>>) = <<b, c, d>>
OBVIOUS

\* What is left of an operation is well formed, and one access takes it to what
\* is left after it.
LEMMA RestHas ==
  ASSUME NEW q, IsRest(q), q # <<>>
  PROVE  RestFacts(q)
<1>1. ASSUME NEW p \in Parts, q \in JoinRest(p)
      PROVE  RestFacts(q)
  <2> DEFINE w == Access("ufrags", p)
  <2> DEFINE x == Access("participant", p)
  <2> DEFINE y == Access("hub_ufrags", p)
  <2>1. /\ w \in Entry /\ w.op = "ufrags" /\ w.part = p /\ w.pc = None /\ w.addr = None
        /\ x \in Entry /\ x.op = "participant" /\ x.part = p /\ x.pc = None /\ x.addr = None
        /\ y \in Entry /\ y.op = "hub_ufrags" /\ y.part = p /\ y.pc = None /\ y.addr = None
    BY AccessFields DEF Accesses
  <2>2. /\ IsRest(<<w, x, y>>)
        /\ IsRest(<<x, y>>)
        /\ IsRest(<<y>>)
        /\ IsRest(<<>>)
    BY DEF IsRest, JoinRest, JoinAccesses
  <2>3. q = <<w, x, y>> \/ q = <<x, y>> \/ q = <<y>>
    BY <1>1 DEF JoinRest, JoinAccesses
  <2> HIDE DEF w, x, y
  <2>4. CASE q = <<w, x, y>>
    <3>1. /\ q \in Seq(Entry) /\ q[1] = w /\ Head(q) = w /\ Tail(q) = <<x, y>>
          /\ Tail(q) \in Seq(Entry)
      BY <2>1, <2>4, TailOf
    <3>0. <<x, y>> # <<>> /\ <<x, y>>[1] = x
      BY <2>1, TailOf
    <3>2. Tail(q) # <<>> /\ Tail(q)[1] = x
      BY <3>0, <3>1
    <3>3. OpOf(Tail(q)) = "participant"
      BY <3>2, <2>1 DEF OpOf
    <3>4. After("ufrags") = "participant"
      BY DEF After
    <3>5. IsRest(Tail(q))
      BY <2>2, <3>1
    <3>6. q[1].op = "ufrags" /\ q[1].op \in Accesses /\ q[1].part \in Parts
      BY <2>1, <3>1 DEF Accesses
    <3>7. q[1].op \in Latching => q[1].pc \in PcTypes /\ q[1].addr \in Addrs
      BY <2>1, <3>1, <3>6 DEF Latching
    <3>8. Tail(q) # <<>> => /\ Tail(q)[1].part = q[1].part
                            /\ Tail(q)[1].pc = q[1].pc /\ Tail(q)[1].addr = q[1].addr
      BY <2>1, <3>1, <3>2
    <3> QED
      BY <3>1, <3>3, <3>4, <3>5, <3>6, <3>7, <3>8 DEF RestFacts
  <2>5. CASE q = <<x, y>>
    <3>1. /\ q \in Seq(Entry) /\ q[1] = x /\ Head(q) = x /\ Tail(q) = <<y>>
          /\ Tail(q) \in Seq(Entry)
      BY <2>1, <2>5, TailOf
    <3>0. <<y>> # <<>> /\ <<y>>[1] = y
      BY <2>1, TailOf
    <3>2. Tail(q) # <<>> /\ Tail(q)[1] = y
      BY <3>0, <3>1
    <3>3. OpOf(Tail(q)) = "hub_ufrags"
      BY <3>2, <2>1 DEF OpOf
    <3>4. After("participant") = "hub_ufrags"
      BY DEF After
    <3>5. IsRest(Tail(q))
      BY <2>2, <3>1
    <3>6. q[1].op = "participant" /\ q[1].op \in Accesses /\ q[1].part \in Parts
      BY <2>1, <3>1 DEF Accesses
    <3>7. q[1].op \in Latching => q[1].pc \in PcTypes /\ q[1].addr \in Addrs
      BY <2>1, <3>1, <3>6 DEF Latching
    <3>8. Tail(q) # <<>> => /\ Tail(q)[1].part = q[1].part
                            /\ Tail(q)[1].pc = q[1].pc /\ Tail(q)[1].addr = q[1].addr
      BY <2>1, <3>1, <3>2
    <3> QED
      BY <3>1, <3>3, <3>4, <3>5, <3>6, <3>7, <3>8 DEF RestFacts
  <2>6. CASE q = <<y>>
    <3>1. /\ q \in Seq(Entry) /\ q[1] = y /\ Head(q) = y /\ Tail(q) = <<>>
          /\ Tail(q) \in Seq(Entry)
      BY <2>1, <2>6, TailOf
    <3>2. Tail(q) = <<>>
      BY <3>1
    <3>3. OpOf(Tail(q)) = "none"
      BY <3>2 DEF OpOf
    <3>4. After("hub_ufrags") = "none"
      BY DEF After
    <3>5. IsRest(Tail(q))
      BY <2>2, <3>1
    <3>6. q[1].op = "hub_ufrags" /\ q[1].op \in Accesses /\ q[1].part \in Parts
      BY <2>1, <3>1 DEF Accesses
    <3>7. q[1].op \in Latching => q[1].pc \in PcTypes /\ q[1].addr \in Addrs
      BY <2>1, <3>1, <3>6 DEF Latching
    <3>8. Tail(q) # <<>> => /\ Tail(q)[1].part = q[1].part
                            /\ Tail(q)[1].pc = q[1].pc /\ Tail(q)[1].addr = q[1].addr
      BY <2>1, <3>1, <3>2
    <3> QED
      BY <3>1, <3>3, <3>4, <3>5, <3>6, <3>7, <3>8 DEF RestFacts
  <2> QED
    BY <2>3, <2>4, <2>5, <2>6
<1>2. ASSUME NEW p \in Parts, q \in RemoveRest(p)
      PROVE  RestFacts(q)
  <2> DEFINE w == Access("rm_ufrags", p)
  <2> DEFINE x == Access("rm_addrs", p)
  <2> DEFINE y == Access("rm_hub_ufrags", p)
  <2> DEFINE z == Access("rm_hub_addrs", p)
  <2>1. /\ w \in Entry /\ w.op = "rm_ufrags" /\ w.part = p /\ w.pc = None /\ w.addr = None
        /\ x \in Entry /\ x.op = "rm_addrs" /\ x.part = p /\ x.pc = None /\ x.addr = None
        /\ y \in Entry /\ y.op = "rm_hub_ufrags" /\ y.part = p /\ y.pc = None /\ y.addr = None
        /\ z \in Entry /\ z.op = "rm_hub_addrs" /\ z.part = p /\ z.pc = None /\ z.addr = None
    BY AccessFields DEF Accesses
  <2>2. /\ IsRest(<<w, x, y, z>>)
        /\ IsRest(<<x, y, z>>)
        /\ IsRest(<<y, z>>)
        /\ IsRest(<<z>>)
        /\ IsRest(<<>>)
    BY DEF IsRest, RemoveRest
  <2>3. q = <<w, x, y, z>> \/ q = <<x, y, z>> \/ q = <<y, z>> \/ q = <<z>>
    BY <1>2 DEF RemoveRest
  <2> HIDE DEF w, x, y, z
  <2>4. CASE q = <<w, x, y, z>>
    <3>1. /\ q \in Seq(Entry) /\ q[1] = w /\ Head(q) = w /\ Tail(q) = <<x, y, z>>
          /\ Tail(q) \in Seq(Entry)
      BY <2>1, <2>4, TailOf
    <3>0. <<x, y, z>> # <<>> /\ <<x, y, z>>[1] = x
      BY <2>1, TailOf
    <3>2. Tail(q) # <<>> /\ Tail(q)[1] = x
      BY <3>0, <3>1
    <3>3. OpOf(Tail(q)) = "rm_addrs"
      BY <3>2, <2>1 DEF OpOf
    <3>4. After("rm_ufrags") = "rm_addrs"
      BY DEF After
    <3>5. IsRest(Tail(q))
      BY <2>2, <3>1
    <3>6. q[1].op = "rm_ufrags" /\ q[1].op \in Accesses /\ q[1].part \in Parts
      BY <2>1, <3>1 DEF Accesses
    <3>7. q[1].op \in Latching => q[1].pc \in PcTypes /\ q[1].addr \in Addrs
      BY <2>1, <3>1, <3>6 DEF Latching
    <3>8. Tail(q) # <<>> => /\ Tail(q)[1].part = q[1].part
                            /\ Tail(q)[1].pc = q[1].pc /\ Tail(q)[1].addr = q[1].addr
      BY <2>1, <3>1, <3>2
    <3> QED
      BY <3>1, <3>3, <3>4, <3>5, <3>6, <3>7, <3>8 DEF RestFacts
  <2>5. CASE q = <<x, y, z>>
    <3>1. /\ q \in Seq(Entry) /\ q[1] = x /\ Head(q) = x /\ Tail(q) = <<y, z>>
          /\ Tail(q) \in Seq(Entry)
      BY <2>1, <2>5, TailOf
    <3>0. <<y, z>> # <<>> /\ <<y, z>>[1] = y
      BY <2>1, TailOf
    <3>2. Tail(q) # <<>> /\ Tail(q)[1] = y
      BY <3>0, <3>1
    <3>3. OpOf(Tail(q)) = "rm_hub_ufrags"
      BY <3>2, <2>1 DEF OpOf
    <3>4. After("rm_addrs") = "rm_hub_ufrags"
      BY DEF After
    <3>5. IsRest(Tail(q))
      BY <2>2, <3>1
    <3>6. q[1].op = "rm_addrs" /\ q[1].op \in Accesses /\ q[1].part \in Parts
      BY <2>1, <3>1 DEF Accesses
    <3>7. q[1].op \in Latching => q[1].pc \in PcTypes /\ q[1].addr \in Addrs
      BY <2>1, <3>1, <3>6 DEF Latching
    <3>8. Tail(q) # <<>> => /\ Tail(q)[1].part = q[1].part
                            /\ Tail(q)[1].pc = q[1].pc /\ Tail(q)[1].addr = q[1].addr
      BY <2>1, <3>1, <3>2
    <3> QED
      BY <3>1, <3>3, <3>4, <3>5, <3>6, <3>7, <3>8 DEF RestFacts
  <2>6. CASE q = <<y, z>>
    <3>1. /\ q \in Seq(Entry) /\ q[1] = y /\ Head(q) = y /\ Tail(q) = <<z>>
          /\ Tail(q) \in Seq(Entry)
      BY <2>1, <2>6, TailOf
    <3>0. <<z>> # <<>> /\ <<z>>[1] = z
      BY <2>1, TailOf
    <3>2. Tail(q) # <<>> /\ Tail(q)[1] = z
      BY <3>0, <3>1
    <3>3. OpOf(Tail(q)) = "rm_hub_addrs"
      BY <3>2, <2>1 DEF OpOf
    <3>4. After("rm_hub_ufrags") = "rm_hub_addrs"
      BY DEF After
    <3>5. IsRest(Tail(q))
      BY <2>2, <3>1
    <3>6. q[1].op = "rm_hub_ufrags" /\ q[1].op \in Accesses /\ q[1].part \in Parts
      BY <2>1, <3>1 DEF Accesses
    <3>7. q[1].op \in Latching => q[1].pc \in PcTypes /\ q[1].addr \in Addrs
      BY <2>1, <3>1, <3>6 DEF Latching
    <3>8. Tail(q) # <<>> => /\ Tail(q)[1].part = q[1].part
                            /\ Tail(q)[1].pc = q[1].pc /\ Tail(q)[1].addr = q[1].addr
      BY <2>1, <3>1, <3>2
    <3> QED
      BY <3>1, <3>3, <3>4, <3>5, <3>6, <3>7, <3>8 DEF RestFacts
  <2>7. CASE q = <<z>>
    <3>1. /\ q \in Seq(Entry) /\ q[1] = z /\ Head(q) = z /\ Tail(q) = <<>>
          /\ Tail(q) \in Seq(Entry)
      BY <2>1, <2>7, TailOf
    <3>2. Tail(q) = <<>>
      BY <3>1
    <3>3. OpOf(Tail(q)) = "none"
      BY <3>2 DEF OpOf
    <3>4. After("rm_hub_addrs") = "none"
      BY DEF After
    <3>5. IsRest(Tail(q))
      BY <2>2, <3>1
    <3>6. q[1].op = "rm_hub_addrs" /\ q[1].op \in Accesses /\ q[1].part \in Parts
      BY <2>1, <3>1 DEF Accesses
    <3>7. q[1].op \in Latching => q[1].pc \in PcTypes /\ q[1].addr \in Addrs
      BY <2>1, <3>1, <3>6 DEF Latching
    <3>8. Tail(q) # <<>> => /\ Tail(q)[1].part = q[1].part
                            /\ Tail(q)[1].pc = q[1].pc /\ Tail(q)[1].addr = q[1].addr
      BY <2>1, <3>1, <3>2
    <3> QED
      BY <3>1, <3>3, <3>4, <3>5, <3>6, <3>7, <3>8 DEF RestFacts
  <2> QED
    BY <2>3, <2>4, <2>5, <2>6, <2>7
<1>3. ASSUME NEW s \in Sessions, NEW a \in Addrs, q \in LatchRest(s, a)
      PROVE  RestFacts(q)
  <2> DEFINE w == LatchAccess("rebind", s, a)
  <2> DEFINE x == LatchAccess("address", s, a)
  <2> DEFINE y == LatchAccess("addr", s, a)
  <2> DEFINE z == LatchAccess("hub_addr", s, a)
  <2>1. /\ w \in Entry /\ w.op = "rebind" /\ w.part = s[1] /\ w.pc = s[2] /\ w.addr = a
        /\ x \in Entry /\ x.op = "address" /\ x.part = s[1] /\ x.pc = s[2] /\ x.addr = a
        /\ y \in Entry /\ y.op = "addr" /\ y.part = s[1] /\ y.pc = s[2] /\ y.addr = a
        /\ z \in Entry /\ z.op = "hub_addr" /\ z.part = s[1] /\ z.pc = s[2] /\ z.addr = a
        /\ s[1] \in Parts /\ s[2] \in PcTypes
    BY LatchFields DEF Accesses
  <2>2. /\ IsRest(<<w, x, y, z>>)
        /\ IsRest(<<x, y, z>>)
        /\ IsRest(<<y, z>>)
        /\ IsRest(<<z>>)
        /\ IsRest(<<>>)
    BY DEF IsRest, LatchRest
  <2>3. q = <<w, x, y, z>> \/ q = <<x, y, z>> \/ q = <<y, z>> \/ q = <<z>>
    BY <1>3 DEF LatchRest
  <2> HIDE DEF w, x, y, z
  <2>4. CASE q = <<w, x, y, z>>
    <3>1. /\ q \in Seq(Entry) /\ q[1] = w /\ Head(q) = w /\ Tail(q) = <<x, y, z>>
          /\ Tail(q) \in Seq(Entry)
      BY <2>1, <2>4, TailOf
    <3>0. <<x, y, z>> # <<>> /\ <<x, y, z>>[1] = x
      BY <2>1, TailOf
    <3>2. Tail(q) # <<>> /\ Tail(q)[1] = x
      BY <3>0, <3>1
    <3>3. OpOf(Tail(q)) = "address"
      BY <3>2, <2>1 DEF OpOf
    <3>4. After("rebind") = "address"
      BY DEF After
    <3>5. IsRest(Tail(q))
      BY <2>2, <3>1
    <3>6. q[1].op = "rebind" /\ q[1].op \in Accesses /\ q[1].part \in Parts
      BY <2>1, <3>1 DEF Accesses
    <3>7. q[1].op \in Latching => q[1].pc \in PcTypes /\ q[1].addr \in Addrs
      BY <2>1, <3>1, <3>6 DEF Latching
    <3>8. Tail(q) # <<>> => /\ Tail(q)[1].part = q[1].part
                            /\ Tail(q)[1].pc = q[1].pc /\ Tail(q)[1].addr = q[1].addr
      BY <2>1, <3>1, <3>2
    <3> QED
      BY <3>1, <3>3, <3>4, <3>5, <3>6, <3>7, <3>8 DEF RestFacts
  <2>5. CASE q = <<x, y, z>>
    <3>1. /\ q \in Seq(Entry) /\ q[1] = x /\ Head(q) = x /\ Tail(q) = <<y, z>>
          /\ Tail(q) \in Seq(Entry)
      BY <2>1, <2>5, TailOf
    <3>0. <<y, z>> # <<>> /\ <<y, z>>[1] = y
      BY <2>1, TailOf
    <3>2. Tail(q) # <<>> /\ Tail(q)[1] = y
      BY <3>0, <3>1
    <3>3. OpOf(Tail(q)) = "addr"
      BY <3>2, <2>1 DEF OpOf
    <3>4. After("address") = "addr"
      BY DEF After
    <3>5. IsRest(Tail(q))
      BY <2>2, <3>1
    <3>6. q[1].op = "address" /\ q[1].op \in Accesses /\ q[1].part \in Parts
      BY <2>1, <3>1 DEF Accesses
    <3>7. q[1].op \in Latching => q[1].pc \in PcTypes /\ q[1].addr \in Addrs
      BY <2>1, <3>1, <3>6 DEF Latching
    <3>8. Tail(q) # <<>> => /\ Tail(q)[1].part = q[1].part
                            /\ Tail(q)[1].pc = q[1].pc /\ Tail(q)[1].addr = q[1].addr
      BY <2>1, <3>1, <3>2
    <3> QED
      BY <3>1, <3>3, <3>4, <3>5, <3>6, <3>7, <3>8 DEF RestFacts
  <2>6. CASE q = <<y, z>>
    <3>1. /\ q \in Seq(Entry) /\ q[1] = y /\ Head(q) = y /\ Tail(q) = <<z>>
          /\ Tail(q) \in Seq(Entry)
      BY <2>1, <2>6, TailOf
    <3>0. <<z>> # <<>> /\ <<z>>[1] = z
      BY <2>1, TailOf
    <3>2. Tail(q) # <<>> /\ Tail(q)[1] = z
      BY <3>0, <3>1
    <3>3. OpOf(Tail(q)) = "hub_addr"
      BY <3>2, <2>1 DEF OpOf
    <3>4. After("addr") = "hub_addr"
      BY DEF After
    <3>5. IsRest(Tail(q))
      BY <2>2, <3>1
    <3>6. q[1].op = "addr" /\ q[1].op \in Accesses /\ q[1].part \in Parts
      BY <2>1, <3>1 DEF Accesses
    <3>7. q[1].op \in Latching => q[1].pc \in PcTypes /\ q[1].addr \in Addrs
      BY <2>1, <3>1, <3>6 DEF Latching
    <3>8. Tail(q) # <<>> => /\ Tail(q)[1].part = q[1].part
                            /\ Tail(q)[1].pc = q[1].pc /\ Tail(q)[1].addr = q[1].addr
      BY <2>1, <3>1, <3>2
    <3> QED
      BY <3>1, <3>3, <3>4, <3>5, <3>6, <3>7, <3>8 DEF RestFacts
  <2>7. CASE q = <<z>>
    <3>1. /\ q \in Seq(Entry) /\ q[1] = z /\ Head(q) = z /\ Tail(q) = <<>>
          /\ Tail(q) \in Seq(Entry)
      BY <2>1, <2>7, TailOf
    <3>2. Tail(q) = <<>>
      BY <3>1
    <3>3. OpOf(Tail(q)) = "none"
      BY <3>2 DEF OpOf
    <3>4. After("hub_addr") = "none"
      BY DEF After
    <3>5. IsRest(Tail(q))
      BY <2>2, <3>1
    <3>6. q[1].op = "hub_addr" /\ q[1].op \in Accesses /\ q[1].part \in Parts
      BY <2>1, <3>1 DEF Accesses
    <3>7. q[1].op \in Latching => q[1].pc \in PcTypes /\ q[1].addr \in Addrs
      BY <2>1, <3>1, <3>6 DEF Latching
    <3>8. Tail(q) # <<>> => /\ Tail(q)[1].part = q[1].part
                            /\ Tail(q)[1].pc = q[1].pc /\ Tail(q)[1].addr = q[1].addr
      BY <2>1, <3>1, <3>2
    <3> QED
      BY <3>1, <3>3, <3>4, <3>5, <3>6, <3>7, <3>8 DEF RestFacts
  <2> QED
    BY <2>3, <2>4, <2>5, <2>6, <2>7
<1> QED
  BY <1>1, <1>2, <1>3 DEF IsRest

-----------------------------------------------------------------------------
(* The invariant, as far as it holds however operations overlap *)

Rests == \A t \in Tasks : IsRest(todo[t])

\* An object that anything refers to has been made for a user and a room.
Owned ==
  /\ \A p \in Parts : owner[p] = None <=> home[p] = None
  /\ \A t \in Tasks : Op(t) # "none" => owner[Part(t)] # None
  /\ \A p \in by_ufrag \cup removed : owner[p] # None

\* Whoever is in a room is there under its own name and registered with the
\* room, is not being joined or removed, and the hub knows it or is about to.
Members ==
  \A r \in Rooms, u \in Users : participants[r][u] # None =>
    /\ home[participants[r][u]] = r /\ owner[participants[r][u]] = u
    /\ participants[r][u] \in by_ufrag /\ participants[r][u] \notin removed
    /\ \A t \in Tasks : Op(t) \in Registering \cup Removing => Part(t) # participants[r][u]
    /\ \/ participants[r][u] \in ufrag_index
       \/ \E t \in Tasks : Op(t) = "hub_ufrags" /\ Part(t) = participants[r][u]

\* An object is joined by one task, which registers it first.
JoinsOnce ==
  \A t \in Tasks : Op(t) \in Registering =>
    /\ Part(t) \notin removed
    /\ Op(t) = "participant" => Part(t) \in by_ufrag
    /\ \A t2 \in Tasks : Op(t2) \in Registering \cup Removing /\ Part(t2) = Part(t) => t2 = t

\* Once a removal has taken the ufrags out, they stay out.
Gone ==
  /\ \A p \in removed : p \notin by_ufrag
  /\ \A t \in Tasks : Op(t) \in Removing \ {"rm_ufrags"} => Part(t) \notin by_ufrag

HubInv == TypeOK /\ Rests /\ Owned /\ Members /\ JoinsOnce /\ Gone

-----------------------------------------------------------------------------
(* What the actions do to the operations under way *)

\* A task that another one does not disturb.
Others(t) ==
  \A t2 \in Tasks \ {t} :
    todo'[t2] = todo[t2] /\ Op(t2)' = Op(t2) /\ Part(t2)' = Part(t2)
      /\ Sess(t2)' = Sess(t2) /\ Adr(t2)' = Adr(t2)

\* The first access of a busy task.
LEMMA FirstAccess ==
  ASSUME Rests, NEW t \in Tasks
  PROVE  /\ Busy(t) <=> Op(t) # "none"
         /\ Busy(t) => /\ RestFacts(todo[t]) /\ Op(t) = todo[t][1].op
                       /\ Op(t) \in Accesses /\ Part(t) \in Parts
                       /\ Op(t) \in Latching => Sess(t) \in Sessions /\ Adr(t) \in Addrs
<1>1. CASE ~Busy(t)
  BY <1>1 DEF Busy, Op, OpOf
<1>2. CASE Busy(t)
  <2>1. RestFacts(todo[t])
    BY <1>2, RestHas DEF Rests, Busy
  <2>2. Op(t) = todo[t][1].op
    BY <1>2 DEF Op, OpOf, Busy
  <2>3. Op(t) \in Accesses /\ Part(t) \in Parts
    BY <2>1, <2>2 DEF RestFacts, Part
  <2>4. Op(t) # "none"
    BY <2>3 DEF Accesses
  <2>5. Op(t) \in Latching => Sess(t) \in Sessions /\ Adr(t) \in Addrs
    BY <2>1, <2>2 DEF RestFacts, Sess, Adr, Sessions
  <2> QED
    BY <1>2, <2>1, <2>2, <2>3, <2>4, <2>5
<1> QED
  BY <1>1, <1>2

\* An operation that begins with the accesses q.
LEMMA Starting ==
  ASSUME TypeOK, Rests, NEW t \in Tasks, NEW q, IsRest(q), q # <<>>, Start(t, q)
  PROVE  /\ todo' \in [Tasks -> Seq(Entry)] /\ Rests' /\ Others(t)
         /\ Op(t) = "none" /\ Op(t)' = q[1].op /\ Part(t)' = q[1].part
         /\ Sess(t)' = <<q[1].part, q[1].pc>> /\ Adr(t)' = q[1].addr
<1>1. q \in Seq(Entry)
  BY RestHas DEF RestFacts
<1>2. todo \in [Tasks -> Seq(Entry)]
  BY DEF TypeOK, Entry
<1>3. todo' = [todo EXCEPT ![t] = q]
  BY DEF Start
<1>4. todo' \in [Tasks -> Seq(Entry)]
  BY <1>1, <1>2, <1>3
<1>5. todo'[t] = q /\ \A t2 \in Tasks \ {t} : todo'[t2] = todo[t2]
  BY <1>2, <1>3
<1>6. Rests'
  BY <1>5 DEF Rests
<1>7. Others(t)
  BY <1>5 DEF Others, Op, Part, Sess, Adr
<1>8. Op(t) = "none"
  BY DEF Start, Busy, Op, OpOf
<1>9. /\ Op(t)' = q[1].op /\ Part(t)' = q[1].part
      /\ Sess(t)' = <<q[1].part, q[1].pc>> /\ Adr(t)' = q[1].addr
  BY <1>5 DEF Op, OpOf, Part, Sess, Adr
<1> QED
  BY <1>4, <1>6, <1>7, <1>8, <1>9

\* The operations as they begin.
LEMMA JoinBegins ==
  ASSUME NEW p \in Parts
  PROVE  /\ IsRest(JoinAccesses(p)) /\ JoinAccesses(p) # <<>>
         /\ JoinAccesses(p)[1].op = "ufrags" /\ JoinAccesses(p)[1].part = p
<1>1. IsRest(JoinAccesses(p))
  BY DEF IsRest, JoinRest
<1>2. JoinAccesses(p) # <<>> /\ JoinAccesses(p)[1] = Access("ufrags", p)
  BY AccessFields, TailOf DEF JoinAccesses, Accesses
<1> QED
  BY <1>1, <1>2, AccessFields DEF Accesses

RemoveAccesses(p) ==
  <<Access("rm_ufrags", p), Access("rm_addrs", p), Access("rm_hub_ufrags", p),
    Access("rm_hub_addrs", p)>>

LatchAccesses(s, a) ==
  <<LatchAccess("rebind", s, a), LatchAccess("address", s, a),
    LatchAccess("addr", s, a), LatchAccess("hub_addr", s, a)>>

\* A removal as it begins.
LEMMA RemovalBegins ==
  ASSUME NEW p \in Parts
  PROVE  /\ IsRest(RemoveAccesses(p)) /\ RemoveAccesses(p) # <<>>
         /\ RemoveAccesses(p)[1].op = "rm_ufrags" /\ RemoveAccesses(p)[1].part = p
<1>1. IsRest(RemoveAccesses(p))
  BY DEF IsRest, RemoveRest, RemoveAccesses
<1>2. RemoveAccesses(p) # <<>> /\ RemoveAccesses(p)[1] = Access("rm_ufrags", p)
  BY AccessFields, TailOf DEF RemoveAccesses, Accesses
<1> QED
  BY <1>1, <1>2, AccessFields DEF Accesses

\* A latch as it begins.
LEMMA LatchBegins ==
  ASSUME NEW s \in Sessions, NEW a \in Addrs
  PROVE  /\ IsRest(LatchAccesses(s, a)) /\ LatchAccesses(s, a) # <<>>
         /\ LatchAccesses(s, a)[1].op = "rebind" /\ LatchAccesses(s, a)[1].part = s[1]
         /\ <<LatchAccesses(s, a)[1].part, LatchAccesses(s, a)[1].pc>> = s
         /\ LatchAccesses(s, a)[1].addr = a
<1>1. IsRest(LatchAccesses(s, a))
  BY DEF IsRest, LatchRest, LatchAccesses
<1>2. /\ LatchAccesses(s, a) # <<>>
      /\ LatchAccesses(s, a)[1] = LatchAccess("rebind", s, a)
  BY LatchFields, TailOf DEF LatchAccesses, Accesses
<1> QED
  BY <1>1, <1>2, LatchFields DEF Accesses

\* One access: the task goes on to the next one, of the same session.
LEMMA Stepping ==
  ASSUME TypeOK, Rests, NEW t \in Tasks, Step(t)
  PROVE  /\ todo' \in [Tasks -> Seq(Entry)] /\ Rests' /\ Others(t)
         /\ Op(t) \in Accesses /\ Part(t) \in Parts
         /\ Op(t) \in Latching => Sess(t) \in Sessions /\ Adr(t) \in Addrs
         /\ Head(todo[t]) = todo[t][1] /\ todo[t][1].op = Op(t)
         /\ Op(t)' = After(Op(t))
         /\ Op(t)' # "none" => /\ Part(t)' = Part(t)
                               /\ Sess(t)' = Sess(t) /\ Adr(t)' = Adr(t)
<1> DEFINE q == todo[t]
<1>1. Busy(t)
  BY DEF Step
<1>2. /\ RestFacts(q) /\ Op(t) = q[1].op /\ Op(t) \in Accesses /\ Part(t) \in Parts
      /\ Op(t) \in Latching => Sess(t) \in Sessions /\ Adr(t) \in Addrs
  BY <1>1, FirstAccess
<1>3. todo \in [Tasks -> Seq(Entry)]
  BY DEF TypeOK, Entry
<1>4. todo' = [todo EXCEPT ![t] = Tail(q)]
  BY DEF Step
<1>5. Tail(q) \in Seq(Entry) /\ IsRest(Tail(q)) /\ Head(q) = q[1]
  BY <1>2 DEF RestFacts
<1>6. todo' \in [Tasks -> Seq(Entry)]
  BY <1>3, <1>4, <1>5
<1>7. todo'[t] = Tail(q) /\ \A t2 \in Tasks \ {t} : todo'[t2] = todo[t2]
  BY <1>3, <1>4
<1>8. Rests'
  BY <1>5, <1>7 DEF Rests
<1>9. Others(t)
  BY <1>7 DEF Others, Op, Part, Sess, Adr
<1>10. Op(t)' = After(Op(t))
  BY <1>2, <1>7 DEF RestFacts, Op
<1>11. Op(t)' # "none" => Tail(q) # <<>>
  BY <1>7 DEF Op, OpOf
<1>12. Op(t)' # "none" => /\ Part(t)' = Part(t)
                          /\ Sess(t)' = Sess(t) /\ Adr(t)' = Adr(t)
  BY <1>2, <1>7, <1>11 DEF RestFacts, Part, Sess, Adr
<1> QED
  BY <1>2, <1>5, <1>6, <1>8, <1>9, <1>10, <1>12

-----------------------------------------------------------------------------
(* The invariant is kept *)

\* What a step writes, in terms of the operation it belongs to.
LEMMA StepWrites ==
  ASSUME TypeOK, Rests, NEW t \in Tasks, Step(t)
  PROVE  /\ owner' = owner /\ home' = home /\ raced' = raced
         /\ participants' = IF Op(t) = "participant"
              THEN [participants EXCEPT ![home[Part(t)]][owner[Part(t)]] = Part(t)]
              ELSE participants
         /\ by_ufrag' = CASE Op(t) = "ufrags" -> by_ufrag \cup {Part(t)}
                          [] Op(t) = "rm_ufrags" -> by_ufrag \ {Part(t)}
                          [] OTHER -> by_ufrag
         /\ ufrag_index' = CASE Op(t) = "hub_ufrags" -> ufrag_index \cup {Part(t)}
                             [] Op(t) = "rm_hub_ufrags" -> ufrag_index \ {Part(t)}
                             [] OTHER -> ufrag_index
         /\ removed' = IF Op(t) = "rm_hub_addrs" THEN removed \cup {Part(t)} ELSE removed
         /\ address' = IF Op(t) = "address" THEN [address EXCEPT ![Sess(t)] = Adr(t)]
                       ELSE address
         /\ by_addr' = CASE Op(t) = "rm_addrs" ->
                              [by_addr EXCEPT ![home[Part(t)]] = Without(@, AddrsOf(Part(t)))]
                         [] Op(t) = "rebind" ->
                              [by_addr EXCEPT ![home[Part(t)]] =
                                 Without(@, {address[Sess(t)]} \ {Adr(t)})]
                         [] Op(t) = "addr" ->
                              [by_addr EXCEPT ![home[Part(t)]][Adr(t)] = Sess(t)]
                         [] OTHER -> by_addr
         /\ addr_index' = CASE Op(t) = "rm_hub_addrs" -> Without(addr_index, AddrsOf(Part(t)))
                            [] Op(t) = "hub_addr" -> [addr_index EXCEPT ![Adr(t)] = home[Part(t)]]
                            [] OTHER -> addr_index
<1>1. Head(todo[t]) = todo[t][1] /\ todo[t][1].op = Op(t)
  BY Stepping
<1> QED
  BY <1>1 DEF Step, RegisteredAfter, ByAddrAfter, Rebind, AddrIndexAfter, Part, Sess, Adr

\* Taking addresses out keeps the type of an index.
LEMMA WithoutTypes ==
  ASSUME NEW S, NEW f \in [Addrs -> S \cup {None}], NEW as
  PROVE  /\ Without(f, as) \in [Addrs -> S \cup {None}]
         /\ \A a \in Addrs : Without(f, as)[a] = IF a \in as THEN None ELSE f[a]
BY DEF Without

\* A step keeps the types.
LEMMA StepTypes ==
  ASSUME HubInv, NEW t \in Tasks, Step(t)
  PROVE  TypeOK'
<1> USE DEF HubInv
<1>1. /\ todo' \in [Tasks -> Seq(Entry)] /\ Op(t) \in Accesses /\ Part(t) \in Parts
      /\ Op(t) \in Latching => Sess(t) \in Sessions /\ Adr(t) \in Addrs
      /\ Op(t) # "none"
  BY Stepping DEF Accesses
<1>2. owner[Part(t)] \in Users /\ home[Part(t)] \in Rooms
  BY <1>1 DEF Owned, TypeOK
<1>3. owner' \in [Parts -> Users \cup {None}] /\ home' \in [Parts -> Rooms \cup {None}]
      /\ raced' \in BOOLEAN /\ removed' \subseteq Parts
      /\ by_ufrag' \subseteq Parts /\ ufrag_index' \subseteq Parts
  BY <1>1, StepWrites DEF TypeOK
<1>4. address' \in [Sessions -> Addrs \cup {None}]
  BY <1>1, StepWrites DEF TypeOK, Latching
<1>5. participants' \in [Rooms -> [Users -> Parts \cup {None}]]
  <2>1. participants' = IF Op(t) = "participant"
          THEN [participants EXCEPT ![home[Part(t)]][owner[Part(t)]] = Part(t)]
          ELSE participants
    BY StepWrites
  <2>2. participants \in [Rooms -> [Users -> Parts \cup {None}]]
    BY DEF TypeOK
  <2> QED
    BY <1>1, <1>2, <2>1, <2>2
<1>6. by_addr' \in [Rooms -> [Addrs -> Sessions \cup {None}]]
  <2> DEFINE r == home[Part(t)]
  <2>0. by_addr \in [Rooms -> [Addrs -> Sessions \cup {None}]] /\ r \in Rooms
    BY <1>2 DEF TypeOK
  <2>1. CASE Op(t) = "rm_addrs"
    <3> DEFINE f == Without(by_addr[r], AddrsOf(Part(t)))
    <3>1. f \in [Addrs -> Sessions \cup {None}]
      BY <2>0, WithoutTypes
    <3>2. by_addr' = [by_addr EXCEPT ![r] = f]
      BY <2>1, StepWrites
    <3> QED
      BY <2>0, <3>1, <3>2
  <2>2. CASE Op(t) = "rebind"
    <3> DEFINE f == Without(by_addr[r], {address[Sess(t)]} \ {Adr(t)})
    <3>1. f \in [Addrs -> Sessions \cup {None}]
      BY <2>0 DEF Without
    <3>2. by_addr' = [by_addr EXCEPT ![r] = f]
      BY <2>2, StepWrites
    <3> QED
      BY <2>0, <3>1, <3>2
  <2>3. CASE Op(t) = "addr"
    <3>1. Sess(t) \in Sessions /\ Adr(t) \in Addrs
      BY <1>1, <2>3 DEF Latching
    <3>2. by_addr' = [by_addr EXCEPT ![r][Adr(t)] = Sess(t)]
      BY <2>3, StepWrites
    <3> QED
      BY <2>0, <3>1, <3>2
  <2>4. CASE Op(t) \notin {"rm_addrs", "rebind", "addr"}
    BY <2>0, <2>4, StepWrites
  <2> QED
    BY <2>1, <2>2, <2>3, <2>4
<1>7. addr_index' \in [Addrs -> Rooms \cup {None}]
  <2>0. addr_index \in [Addrs -> Rooms \cup {None}]
    BY DEF TypeOK
  <2>1. CASE Op(t) = "rm_hub_addrs"
    <3>1. addr_index' = Without(addr_index, AddrsOf(Part(t)))
      BY <2>1, StepWrites
    <3> QED
      BY <2>0, <3>1 DEF Without
  <2>2. CASE Op(t) = "hub_addr"
    BY <2>0, <2>2, <1>1, <1>2, StepWrites DEF Latching
  <2>3. CASE Op(t) \notin {"rm_hub_addrs", "hub_addr"}
    BY <2>0, <2>3, StepWrites
  <2> QED
    BY <2>1, <2>2, <2>3
<1> QED
  BY <1>1, <1>3, <1>4, <1>5, <1>6, <1>7 DEF TypeOK, Entry

\* A step keeps the objects' owners and the members in order.
LEMMA StepKeeps ==
  ASSUME HubInv, NEW t \in Tasks, Step(t)
  PROVE  Owned' /\ Members' /\ JoinsOnce' /\ Gone'
<1> USE DEF HubInv
<1>1. /\ Others(t) /\ Op(t) \in Accesses /\ Op(t) # "none" /\ Part(t) \in Parts
      /\ Op(t)' = After(Op(t)) /\ (Op(t)' # "none" => Part(t)' = Part(t))
  BY Stepping DEF Accesses
<1>2. owner[Part(t)] \in Users /\ home[Part(t)] \in Rooms
  BY <1>1 DEF Owned, TypeOK
<1>3. \A t2 \in Tasks : Op(t2)' # "none" => Op(t2) # "none" /\ Part(t2)' = Part(t2)
  BY <1>1 DEF Others
<1>4. owner' = owner /\ home' = home
  BY StepWrites
<1>5. Owned'
  <2>1. by_ufrag' \cup removed' \subseteq by_ufrag \cup removed \cup {Part(t)}
    BY StepWrites
  <2>2. \A p \in by_ufrag' \cup removed' : owner'[p] # None
    BY <1>1, <1>4, <2>1 DEF Owned
  <2>3. \A t2 \in Tasks : Op(t2)' # "none" => owner'[Part(t2)'] # None
    BY <1>3, <1>4 DEF Owned
  <2> QED
    BY <1>4, <2>2, <2>3 DEF Owned
<1>6. \A t2 \in Tasks : Op(t2)' \in Registering \cup Removing =>
        /\ Op(t2) \in Registering \cup Removing /\ Part(t2)' = Part(t2)
        /\ Op(t2)' \in Registering => Op(t2) \in Registering
        /\ Op(t2)' \in Removing => Op(t2) \in Removing
  BY <1>1 DEF Others, Registering, Removing, After, Accesses
<1>7. Gone'
  <2>1. CASE Op(t) = "ufrags"
    <3>1. by_ufrag' = by_ufrag \cup {Part(t)} /\ removed' = removed
      BY <2>1, StepWrites
    <3>2. Part(t) \notin removed
      BY <2>1 DEF JoinsOnce, Registering
    <3>3. \A t2 \in Tasks : Op(t2)' \in Removing \ {"rm_ufrags"} =>
            Op(t2) \in Removing \ {"rm_ufrags"} /\ Part(t2)' = Part(t2) /\ Part(t2) # Part(t)
      BY <1>1, <2>1 DEF JoinsOnce, Registering, Others, After, Removing
    <3> QED
      BY <3>1, <3>2, <3>3 DEF Gone
  <2>2. CASE Op(t) # "ufrags"
    <3>1. by_ufrag' \subseteq by_ufrag
      BY <2>2, StepWrites
    <3>2. removed' \subseteq removed \cup (IF Op(t) = "rm_hub_addrs" THEN {Part(t)} ELSE {})
      BY StepWrites
    <3>3. \A p \in removed' : p \notin by_ufrag'
      BY <3>1, <3>2 DEF Gone, Removing
    <3>4. \A t2 \in Tasks \ {t} : Op(t2)' \in Removing \ {"rm_ufrags"} => Part(t2)' \notin by_ufrag'
      BY <1>1, <3>1 DEF Gone, Others
    <3>5. Op(t)' \in Removing \ {"rm_ufrags"} => Part(t)' \notin by_ufrag'
      <4>1. CASE Op(t) = "rm_ufrags"
        <5>1. by_ufrag' = by_ufrag \ {Part(t)}
          BY <4>1, StepWrites
        <5> QED
          BY <1>1, <5>1 DEF Removing
      <4>2. CASE Op(t) # "rm_ufrags"
        BY <1>1, <1>6, <3>1, <4>2 DEF Gone, Removing
      <4> QED
        BY <4>1, <4>2
    <3> QED
      BY <3>3, <3>4, <3>5 DEF Gone
  <2> QED
    BY <2>1, <2>2
<1>8. JoinsOnce'
  <2> SUFFICES ASSUME NEW t1 \in Tasks, Op(t1)' \in Registering
               PROVE  /\ Part(t1)' \notin removed'
                      /\ Op(t1)' = "participant" => Part(t1)' \in by_ufrag'
                      /\ \A t2 \in Tasks : Op(t2)' \in Registering \cup Removing
                           /\ Part(t2)' = Part(t1)' => t2 = t1
    BY DEF JoinsOnce
  <2>1. Op(t1) \in Registering /\ Part(t1)' = Part(t1)
    BY <1>6
  <2>2. Part(t) = Part(t1) /\ Op(t) \in Registering \cup Removing => t = t1
    BY <2>1 DEF JoinsOnce
  <2>3. Part(t1) \notin removed
    BY <2>1 DEF JoinsOnce
  <2>4. Part(t1)' \notin removed'
    <3>1. CASE Op(t) = "rm_hub_addrs"
      BY <2>1, <2>2, <2>3, <3>1, StepWrites DEF Registering, Removing
    <3>2. CASE Op(t) # "rm_hub_addrs"
      <4>1. removed' = removed
        BY <3>2, StepWrites
      <4> QED
        BY <2>1, <2>3, <4>1
    <3> QED
      BY <3>1, <3>2
  <2>5. Op(t1)' = "participant" => Part(t1)' \in by_ufrag'
    <3> SUFFICES ASSUME Op(t1)' = "participant"
                 PROVE  Part(t1) \in by_ufrag'
      BY <2>1
    <3>1. CASE t1 = t
      <4>1. Op(t) = "ufrags"
        BY <1>1, <3>1 DEF After, Accesses
      <4> QED
        BY <3>1, <4>1, StepWrites
    <3>2. CASE t1 # t
      <4>1. Op(t1) = "participant"
        BY <1>1, <3>2 DEF Others
      <4>2. Part(t1) \in by_ufrag
        BY <4>1 DEF JoinsOnce, Registering
      <4>3. Op(t) = "rm_ufrags" => Part(t) # Part(t1)
        BY <2>2, <3>2 DEF Removing
      <4> QED
        BY <4>2, <4>3, StepWrites
    <3> QED
      BY <3>1, <3>2
  <2>6. ASSUME NEW t2 \in Tasks, Op(t2)' \in Registering \cup Removing, Part(t2)' = Part(t1)'
        PROVE  t2 = t1
    <3>1. Op(t2) \in Registering \cup Removing /\ Part(t2) = Part(t1)
      BY <1>6, <2>1, <2>6
    <3> QED
      BY <2>1, <3>1 DEF JoinsOnce
  <2> QED
    BY <2>4, <2>5, <2>6
<1>9. Members'
  <2> SUFFICES ASSUME NEW r \in Rooms, NEW u \in Users, NEW p, p = participants'[r][u], p # None
               PROVE  /\ home'[p] = r /\ owner'[p] = u
                      /\ p \in by_ufrag' /\ p \notin removed'
                      /\ \A t2 \in Tasks : Op(t2)' \in Registering \cup Removing => Part(t2)' # p
                      /\ \/ p \in ufrag_index'
                         \/ \E t2 \in Tasks : Op(t2)' = "hub_ufrags" /\ Part(t2)' = p
    BY DEF Members
  <2>1. CASE participants[r][u] = p
    <3>1. /\ home[p] = r /\ owner[p] = u /\ p \in by_ufrag /\ p \notin removed
          /\ \A t2 \in Tasks : Op(t2) \in Registering \cup Removing => Part(t2) # p
          /\ \/ p \in ufrag_index
             \/ \E t2 \in Tasks : Op(t2) = "hub_ufrags" /\ Part(t2) = p
      BY <2>1 DEF Members
    <3>2. home'[p] = r /\ owner'[p] = u
      BY <1>4, <3>1
    <3>3. Op(t) \in Removing => Part(t) # p
      BY <3>1
    <3>4. p \in by_ufrag' /\ p \notin removed'
      BY <3>1, <3>3, StepWrites DEF Removing
    <3>5. \A t2 \in Tasks : Op(t2)' \in Registering \cup Removing => Part(t2)' # p
      BY <1>6, <3>1
    <3>6. p \in ufrag_index => p \in ufrag_index'
      BY <3>3, StepWrites DEF Removing
    <3>7. ASSUME NEW t2 \in Tasks, Op(t2) = "hub_ufrags", Part(t2) = p
          PROVE  p \in ufrag_index' \/ (Op(t2)' = "hub_ufrags" /\ Part(t2)' = p)
      <4>1. CASE t2 = t
        BY <3>7, <4>1, StepWrites
      <4>2. CASE t2 # t
        BY <1>1, <3>7, <4>2 DEF Others
      <4> QED
        BY <4>1, <4>2
    <3> QED
      BY <3>1, <3>2, <3>4, <3>5, <3>6, <3>7
  <2>2. CASE participants[r][u] # p
    <3>1. Op(t) = "participant" /\ p = Part(t) /\ home[p] = r /\ owner[p] = u
      <4>1. participants' = IF Op(t) = "participant"
              THEN [participants EXCEPT ![home[Part(t)]][owner[Part(t)]] = Part(t)]
              ELSE participants
        BY StepWrites
      <4>2. participants \in [Rooms -> [Users -> Parts \cup {None}]]
        BY DEF TypeOK
      <4> QED
        BY <1>2, <2>2, <4>1, <4>2
    <3>2. /\ p \in by_ufrag /\ p \notin removed
          /\ \A t2 \in Tasks : Op(t2) \in Registering \cup Removing /\ Part(t2) = p => t2 = t
      BY <3>1 DEF JoinsOnce, Registering
    <3>3. p \in by_ufrag' /\ p \notin removed'
      BY <3>1, <3>2, StepWrites
    <3>4. Op(t)' = "hub_ufrags" /\ Part(t)' = p
      BY <1>1, <3>1 DEF After
    <3>5. \A t2 \in Tasks : Op(t2)' \in Registering \cup Removing => Part(t2)' # p
      BY <1>6, <3>2, <3>4 DEF Registering, Removing
    <3> QED
      BY <1>4, <3>1, <3>3, <3>4, <3>5
  <2> QED
    BY <2>1, <2>2
<1> QED
  BY <1>5, <1>7, <1>8, <1>9

\* A join begins with an object that nothing refers to.
LEMMA JoinKeeps ==
  ASSUME HubInv, NEW t \in Tasks, NEW p \in Parts, NEW u \in Users, NEW r \in Rooms,
         add_participant(t, p, u, r)
  PROVE  HubInv'
<1> USE DEF HubInv
<1>1. /\ owner[p] = None /\ owner' = [owner EXCEPT ![p] = u] /\ home' = [home EXCEPT ![p] = r]
      /\ Start(t, JoinAccesses(p)) /\ raced' = (raced \/ ~Settled)
      /\ UNCHANGED <<address, participants, by_ufrag, by_addr, ufrag_index, addr_index, removed>>
  BY DEF add_participant, Start
<1>2. /\ todo' \in [Tasks -> Seq(Entry)] /\ Rests' /\ Others(t)
      /\ Op(t) = "none" /\ Op(t)' = "ufrags" /\ Part(t)' = p
  BY <1>1, Starting, JoinBegins
<1>3. u # None /\ r # None
  BY HubAssumption
<1>4. TypeOK'
  <2>1. raced' \in BOOLEAN
    BY <1>1 DEF TypeOK, Settled
  <2>2. owner' \in [Parts -> Users \cup {None}] /\ home' \in [Parts -> Rooms \cup {None}]
    BY <1>1 DEF TypeOK
  <2> QED
    BY <1>1, <1>2, <2>1, <2>2 DEF TypeOK, Entry
<1>5. \A p2 \in Parts : /\ owner'[p2] = IF p2 = p THEN u ELSE owner[p2]
                        /\ home'[p2] = IF p2 = p THEN r ELSE home[p2]
  BY <1>1 DEF TypeOK
<1>6. p \notin by_ufrag \cup removed /\ \A t2 \in Tasks : Op(t2) # "none" => Part(t2) # p
  BY <1>1 DEF Owned
<1>7. \A t2 \in Tasks : Op(t2) # "none" => Part(t2) \in Parts
  BY FirstAccess
<1>8. Owned'
  <2>1. \A p2 \in Parts : owner'[p2] = None <=> home'[p2] = None
    BY <1>3, <1>5 DEF Owned
  <2>2. \A t2 \in Tasks : Op(t2)' # "none" => owner'[Part(t2)'] # None
    BY <1>2, <1>3, <1>5, <1>7 DEF Owned, Others
  <2>3. \A p2 \in by_ufrag' \cup removed' : owner'[p2] # None
    BY <1>1, <1>3, <1>5 DEF Owned, TypeOK
  <2> QED
    BY <2>1, <2>2, <2>3 DEF Owned
<1>9. Members'
  <2> SUFFICES ASSUME NEW r2 \in Rooms, NEW u2 \in Users, NEW m,
                      m = participants[r2][u2], m # None
               PROVE  /\ home'[m] = r2 /\ owner'[m] = u2
                      /\ m \in by_ufrag /\ m \notin removed
                      /\ \A t2 \in Tasks : Op(t2)' \in Registering \cup Removing => Part(t2)' # m
                      /\ \/ m \in ufrag_index
                         \/ \E t2 \in Tasks : Op(t2)' = "hub_ufrags" /\ Part(t2)' = m
    BY <1>1 DEF Members
  <2>1. /\ home[m] = r2 /\ owner[m] = u2 /\ m \in by_ufrag /\ m \notin removed
        /\ \A t2 \in Tasks : Op(t2) \in Registering \cup Removing => Part(t2) # m
        /\ \/ m \in ufrag_index
           \/ \E t2 \in Tasks : Op(t2) = "hub_ufrags" /\ Part(t2) = m
    BY DEF Members
  <2>2. m # p /\ m \in Parts
    BY <1>6, <2>1 DEF TypeOK
  <2>3. home'[m] = r2 /\ owner'[m] = u2
    BY <1>5, <2>1, <2>2
  <2>4. \A t2 \in Tasks : Op(t2)' \in Registering \cup Removing => Part(t2)' # m
    BY <1>2, <2>1, <2>2 DEF Others
  <2>5. ASSUME NEW t2 \in Tasks, Op(t2) = "hub_ufrags", Part(t2) = m
        PROVE  Op(t2)' = "hub_ufrags" /\ Part(t2)' = m
    BY <1>2, <2>5 DEF Others
  <2> QED
    BY <2>1, <2>3, <2>4, <2>5
<1>10. JoinsOnce'
  <2>1. \A t2 \in Tasks \ {t} : Op(t2)' = Op(t2) /\ Part(t2)' = Part(t2)
    BY <1>2 DEF Others
  <2>2. \A t2 \in Tasks \ {t} : Op(t2) \in Registering \cup Removing => Part(t2) # p
    BY <1>6 DEF Registering, Removing
  <2> SUFFICES ASSUME NEW t1 \in Tasks, Op(t1)' \in Registering
               PROVE  /\ Part(t1)' \notin removed
                      /\ Op(t1)' = "participant" => Part(t1)' \in by_ufrag
                      /\ \A t2 \in Tasks : Op(t2)' \in Registering \cup Removing
                           /\ Part(t2)' = Part(t1)' => t2 = t1
    BY <1>1 DEF JoinsOnce
  <2>3. CASE t1 = t
    BY <1>2, <1>6, <2>1, <2>2, <2>3
  <2>4. CASE t1 # t
    <3>1. Op(t1) \in Registering /\ Part(t1)' = Part(t1) /\ Part(t1) # p /\ Op(t1)' = Op(t1)
      BY <2>1, <2>2, <2>4
    <3> QED
      BY <1>2, <2>1, <3>1 DEF JoinsOnce
  <2> QED
    BY <2>3, <2>4
<1>11. Gone'
  BY <1>1, <1>2 DEF Gone, Others, Removing
<1> QED
  BY <1>2, <1>4, <1>8, <1>9, <1>10, <1>11

\* A removal takes the member out of the room in the same step.
LEMMA RemovalKeeps ==
  ASSUME HubInv, NEW t \in Tasks, NEW u \in Users, NEW r \in Rooms,
         remove_participant(t, u, r)
  PROVE  HubInv'
<1> USE DEF HubInv
<1> DEFINE p == participants[r][u]
<1>1. /\ p # None /\ participants' = [participants EXCEPT ![r][u] = None]
      /\ Start(t, RemoveAccesses(p)) /\ raced' = (raced \/ ~Settled)
      /\ UNCHANGED <<owner, home, address, by_ufrag, by_addr, ufrag_index, addr_index, removed>>
  BY DEF remove_participant, Start, RemoveAccesses
<1>2. /\ p \in Parts /\ home[p] = r /\ owner[p] = u /\ p \in by_ufrag
      /\ \A t2 \in Tasks : Op(t2) \in Registering \cup Removing => Part(t2) # p
  BY <1>1 DEF Members, TypeOK
<1> HIDE DEF p
<1>3. /\ todo' \in [Tasks -> Seq(Entry)] /\ Rests' /\ Others(t)
      /\ Op(t) = "none" /\ Op(t)' = "rm_ufrags" /\ Part(t)' = p
  BY <1>1, <1>2, Starting, RemovalBegins
<1>4. TypeOK'
  <2>1. raced' \in BOOLEAN
    BY <1>1 DEF TypeOK, Settled
  <2>2. participants' \in [Rooms -> [Users -> Parts \cup {None}]]
    BY <1>1 DEF TypeOK
  <2> QED
    BY <1>1, <1>3, <2>1, <2>2 DEF TypeOK, Entry
<1>5. Owned'
  BY <1>1, <1>2, <1>3, HubAssumption DEF Owned, Others
<1>6. Members'
  <2> SUFFICES ASSUME NEW r2 \in Rooms, NEW u2 \in Users, NEW m,
                      m = participants'[r2][u2], m # None
               PROVE  /\ home[m] = r2 /\ owner[m] = u2
                      /\ m \in by_ufrag /\ m \notin removed
                      /\ \A t2 \in Tasks : Op(t2)' \in Registering \cup Removing => Part(t2)' # m
                      /\ \/ m \in ufrag_index
                         \/ \E t2 \in Tasks : Op(t2)' = "hub_ufrags" /\ Part(t2)' = m
    BY <1>1 DEF Members
  <2>0. m = participants[r2][u2] /\ (r2 # r \/ u2 # u)
    BY <1>1 DEF TypeOK
  <2>1. /\ home[m] = r2 /\ owner[m] = u2 /\ m \in by_ufrag /\ m \notin removed
        /\ \A t2 \in Tasks : Op(t2) \in Registering \cup Removing => Part(t2) # m
        /\ \/ m \in ufrag_index
           \/ \E t2 \in Tasks : Op(t2) = "hub_ufrags" /\ Part(t2) = m
    BY <2>0 DEF Members
  <2>2. m # p
    BY <1>2, <2>0, <2>1
  <2>4. \A t2 \in Tasks : Op(t2)' \in Registering \cup Removing => Part(t2)' # m
    BY <1>3, <2>1, <2>2 DEF Others
  <2>5. ASSUME NEW t2 \in Tasks, Op(t2) = "hub_ufrags", Part(t2) = m
        PROVE  Op(t2)' = "hub_ufrags" /\ Part(t2)' = m
    BY <1>3, <2>5 DEF Others
  <2> QED
    BY <2>1, <2>4, <2>5
<1>7. JoinsOnce'
  <2> SUFFICES ASSUME NEW t1 \in Tasks, Op(t1)' \in Registering
               PROVE  /\ Part(t1)' \notin removed
                      /\ Op(t1)' = "participant" => Part(t1)' \in by_ufrag
                      /\ \A t2 \in Tasks : Op(t2)' \in Registering \cup Removing
                           /\ Part(t2)' = Part(t1)' => t2 = t1
    BY <1>1 DEF JoinsOnce
  <2>1. t1 # t
    BY <1>3 DEF Registering
  <2>2. Op(t1) \in Registering /\ Part(t1)' = Part(t1) /\ Part(t1) # p /\ Op(t1)' = Op(t1)
    BY <1>2, <1>3, <2>1 DEF Others
  <2> QED
    BY <1>3, <2>2 DEF JoinsOnce, Others
<1>8. Gone'
  BY <1>1, <1>3 DEF Gone, Others
<1> QED
  BY <1>3, <1>4, <1>5, <1>6, <1>7, <1>8

\* A latch begins with a registered participant and changes no membership.
LEMMA LatchKeeps ==
  ASSUME HubInv, NEW t \in Tasks, NEW s \in Sessions, NEW a \in Addrs,
         latch_by_ufrag(t, s, a)
  PROVE  HubInv'
<1> USE DEF HubInv
<1>1. /\ s[1] \in by_ufrag /\ Start(t, LatchAccesses(s, a)) /\ raced' = (raced \/ ~Settled)
      /\ UNCHANGED <<owner, home, address, participants, by_ufrag, by_addr, ufrag_index,
                     addr_index, removed>>
  BY DEF latch_by_ufrag, Start, LatchAccesses
<1>2. /\ todo' \in [Tasks -> Seq(Entry)] /\ Rests' /\ Others(t)
      /\ Op(t) = "none" /\ Op(t)' = "rebind" /\ Part(t)' = s[1]
  BY <1>1, Starting, LatchBegins
<1>3. TypeOK'
  <2>1. raced' \in BOOLEAN
    BY <1>1 DEF TypeOK, Settled
  <2> QED
    BY <1>1, <1>2, <2>1 DEF TypeOK, Entry
<1>4. Owned'
  BY <1>1, <1>2 DEF Owned, Others
<1>5. \A t2 \in Tasks : Op(t2)' \in Registering \cup Removing =>
        t2 # t /\ Op(t2)' = Op(t2) /\ Part(t2)' = Part(t2)
  BY <1>2 DEF Others, Registering, Removing
<1>6. \A t2 \in Tasks : Op(t2) = "hub_ufrags" =>
        Op(t2)' = "hub_ufrags" /\ Part(t2)' = Part(t2)
  BY <1>2 DEF Others
<1>7. Members'
  BY <1>1, <1>5, <1>6 DEF Members
<1>8. JoinsOnce'
  BY <1>1, <1>5 DEF JoinsOnce
<1>9. Gone'
  BY <1>1, <1>5 DEF Gone
<1> QED
  BY <1>2, <1>3, <1>4, <1>7, <1>8, <1>9

\* An object that is dropped is nobody's.
LEMMA DropKeeps ==
  ASSUME HubInv, NEW p \in Parts, Drop(p)
  PROVE  HubInv'
<1> USE DEF HubInv
<1>1. /\ p \in removed /\ p \notin by_ufrag
      /\ owner' = [owner EXCEPT ![p] = None] /\ home' = [home EXCEPT ![p] = None]
      /\ address' = [s \in Sessions |-> IF s[1] = p THEN None ELSE address[s]]
      /\ removed' = removed \ {p}
      /\ UNCHANGED <<participants, by_ufrag, by_addr, ufrag_index, addr_index, todo, raced>>
  BY DEF Drop
<1>2. \A t \in Tasks : Op(t)' = Op(t) /\ Part(t)' = Part(t)
  BY <1>1 DEF Op, Part
<1>3. \A t \in Tasks : Op(t) # "none" => Part(t) # p /\ Part(t) \in Parts
  <2> SUFFICES ASSUME NEW t \in Tasks, Op(t) # "none"
               PROVE  Part(t) # p /\ Part(t) \in Parts
    OBVIOUS
  <2>1. Part(t) \in Parts /\ todo[t] # <<>>
    BY FirstAccess DEF Busy
  <2>2. todo[t] \in Seq(Entry)
    BY DEF TypeOK, Entry
  <2>3. 1 \in 1..4 /\ 1 <= Len(todo[t])
    BY <2>1, <2>2
  <2> QED
    BY <2>1, <2>3 DEF Drop, Part
<1>4. TypeOK'
  BY <1>1 DEF TypeOK
<1>5. Rests'
  BY <1>1 DEF Rests
<1>6. \A p2 \in Parts : /\ owner'[p2] = IF p2 = p THEN None ELSE owner[p2]
                        /\ home'[p2] = IF p2 = p THEN None ELSE home[p2]
  BY <1>1 DEF TypeOK
<1>7. Owned'
  <2>1. \A p2 \in Parts : owner'[p2] = None <=> home'[p2] = None
    BY <1>6 DEF Owned
  <2>2. \A t \in Tasks : Op(t)' # "none" => owner'[Part(t)'] # None
    BY <1>2, <1>3, <1>6 DEF Owned
  <2>3. \A p2 \in by_ufrag' \cup removed' : owner'[p2] # None
    BY <1>1, <1>6 DEF Owned, TypeOK
  <2> QED
    BY <2>1, <2>2, <2>3 DEF Owned
<1>8. Members'
  <2>1. \A r \in Rooms, u \in Users : participants[r][u] # None =>
          /\ participants[r][u] # p /\ participants[r][u] \in Parts
          /\ home'[participants[r][u]] = home[participants[r][u]]
          /\ owner'[participants[r][u]] = owner[participants[r][u]]
    BY <1>1, <1>6 DEF Members, TypeOK
  <2> QED
    BY <1>1, <1>2, <2>1 DEF Members
<1>9. JoinsOnce'
  BY <1>1, <1>2 DEF JoinsOnce
<1>10. Gone'
  BY <1>1, <1>2 DEF Gone
<1> QED
  BY <1>4, <1>5, <1>7, <1>8, <1>9, <1>10

\* The invariant holds at first.
LEMMA HubInit == Init => HubInv
<1> SUFFICES ASSUME Init PROVE HubInv
  OBVIOUS
<1>1. \A t \in Tasks : todo[t] = <<>> /\ Op(t) = "none"
  BY DEF Init, Op, OpOf
<1>2. TypeOK
  <2>1. todo \in [Tasks -> Seq(Entry)]
    BY DEF Init
  <2> QED
    BY <2>1 DEF Init, TypeOK, Entry
<1>3. Rests
  BY <1>1 DEF Rests, IsRest
<1>4. Owned
  BY <1>1 DEF Init, Owned
<1>5. Members
  BY DEF Init, Members
<1>6. JoinsOnce /\ Gone
  BY <1>1 DEF Init, JoinsOnce, Gone, Registering, Removing
<1> QED
  BY <1>2, <1>3, <1>4, <1>5, <1>6 DEF HubInv

\* Every action keeps the invariant.
LEMMA HubNext == HubInv /\ [Next]_hubVars => HubInv'
<1> SUFFICES ASSUME HubInv, [Next]_hubVars PROVE HubInv'
  OBVIOUS
<1>1. ASSUME NEW t \in Tasks, NEW p \in Parts, NEW u \in Users, NEW r \in Rooms,
             add_participant(t, p, u, r)
      PROVE  HubInv'
  BY <1>1, JoinKeeps
<1>2. ASSUME NEW t \in Tasks, NEW u \in Users, NEW r \in Rooms, remove_participant(t, u, r)
      PROVE  HubInv'
  BY <1>2, RemovalKeeps
<1>3. ASSUME NEW t \in Tasks, NEW s \in Sessions, NEW a \in Addrs, latch_by_ufrag(t, s, a)
      PROVE  HubInv'
  BY <1>3, LatchKeeps
<1>4. ASSUME NEW t \in Tasks, Step(t)
      PROVE  HubInv'
  <2>1. TypeOK /\ Rests
    BY DEF HubInv
  <2> QED
    BY <1>4, <2>1, StepTypes, StepKeeps, Stepping DEF HubInv
<1>5. ASSUME NEW p \in Parts, Drop(p)
      PROVE  HubInv'
  BY <1>5, DropKeeps
<1>6. CASE UNCHANGED hubVars
  <2>1. \A t \in Tasks : Op(t)' = Op(t) /\ Part(t)' = Part(t)
    BY <1>6 DEF hubVars, Op, Part
  <2>2. TypeOK' /\ Rests'
    BY <1>6 DEF hubVars, HubInv, TypeOK, Rests
  <2>3. Owned' /\ Gone'
    BY <1>6, <2>1 DEF hubVars, HubInv, Owned, Gone
  <2>4. Members'
    BY <1>6, <2>1 DEF hubVars, HubInv, Members
  <2>5. JoinsOnce'
    BY <1>6, <2>1 DEF hubVars, HubInv, JoinsOnce
  <2> QED
    BY <2>2, <2>3, <2>4, <2>5 DEF HubInv
<1> QED
  BY <1>1, <1>2, <1>3, <1>4, <1>5, <1>6 DEF Next

\* RoomHub (room.rs) keeps its types, whatever overlaps.
THEOREM HubTypes == Spec => []TypeOK
<1>1. HubInv => TypeOK
  BY DEF HubInv
<1> QED
  BY HubInit, HubNext, <1>1, PTL DEF Spec

\* However joins, leaves, the reaper and latches overlap: a participant that is
\* in its room when no operation is under way is found by its ufrags, through
\* RoomHub.ufrag_index and Room.by_ufrag.
THEOREM MembersAreReachable == Spec => []MemberReachable
<1>1. HubInv => MemberReachable
  <2> SUFFICES ASSUME HubInv, Settled, NEW r \in Rooms, NEW u \in Users,
                      participants[r][u] # None
               PROVE  find_by_ufrag(participants[r][u]) = participants[r][u]
    BY DEF MemberReachable
  <2>1. \A t \in Tasks : Op(t) = "none"
    BY DEF Settled, Busy, Op, OpOf
  <2>2. participants[r][u] \in by_ufrag /\ participants[r][u] \in ufrag_index
    BY <2>1 DEF HubInv, Members
  <2> QED
    BY <2>2 DEF find_by_ufrag
<1> QED
  BY HubInit, HubNext, <1>1, PTL DEF Spec

\* However operations overlap: once remove_participant has gone through all the
\* indices, no ufrag finds the participant.
THEOREM RemovedStayUnreachable == Spec => []RemovedUnreachable
<1>1. HubInv => RemovedUnreachable
  BY DEF HubInv, Gone, RemovedUnreachable, find_by_ufrag
<1> QED
  BY HubInit, HubNext, <1>1, PTL DEF Spec

-----------------------------------------------------------------------------
(* As long as operations do not overlap *)

IsMember(p) == participants[home[p]][owner[p]] = p

OneAtATime == \A t, t2 \in Tasks : Op(t) # "none" /\ Op(t2) # "none" => t = t2

\* Whoever is registered is a member, is about to be one or has just left; a
\* join finds its place free; what latches is a member.
Listed ==
  /\ \A p \in by_ufrag : \/ IsMember(p)
                         \/ \E t \in Tasks : Op(t) \in {"participant", "rm_ufrags"} /\ Part(t) = p
  /\ \A t \in Tasks : Op(t) \in Registering => participants[home[Part(t)]][owner[Part(t)]] = None
  /\ \A t \in Tasks : Op(t) \in Latching => IsMember(Part(t))

\* An address that finds a session is that session's, and the session is a
\* member's or about to be taken out.
Latched ==
  \A r \in Rooms, a \in Addrs : by_addr[r][a] # None =>
    /\ home[by_addr[r][a][1]] = r /\ address[by_addr[r][a]] = a
    /\ \/ IsMember(by_addr[r][a][1])
       \/ \E t \in Tasks : Op(t) \in {"rm_ufrags", "rm_addrs"} /\ Part(t) = by_addr[r][a][1]

\* A latch takes the old address out before it writes the new one.
Rebinding ==
  \A t \in Tasks :
    /\ Op(t) = "address" =>
         \A r \in Rooms, a \in Addrs : by_addr[r][a] = Sess(t) => a = Adr(t)
    /\ Op(t) = "addr" => address[Sess(t)] = Adr(t)

Quiet == OneAtATime /\ Listed /\ Latched /\ Rebinding

\* The place of an object that has an owner.
LEMMA PlaceOf ==
  ASSUME TypeOK, Owned, NEW p \in Parts, owner[p] # None \/ home[p] # None
  PROVE  owner[p] \in Users /\ home[p] \in Rooms
BY DEF TypeOK, Owned

\* The entries of Room.by_addr.
LEMMA AddrEntry ==
  ASSUME TypeOK, NEW r \in Rooms, NEW a \in Addrs, by_addr[r][a] # None
  PROVE  /\ by_addr[r][a] \in Sessions /\ by_addr[r][a][1] \in Parts
         /\ by_addr[r][a][2] \in PcTypes
         /\ by_addr[r][a] = <<by_addr[r][a][1], by_addr[r][a][2]>>
<1>1. by_addr[r][a] \in Sessions
  BY DEF TypeOK
<1> QED
  BY <1>1 DEF Sessions

\* Nothing is under way when an operation begins and none has overlapped.
LEMMA QuietStart ==
  ASSUME HubInv, ~raced => Quiet, NEW t \in Tasks, NEW q, Start(t, q), ~raced',
         Others(t)
  PROVE  /\ Quiet /\ \A t2 \in Tasks : Op(t2) = "none"
         /\ \A t2 \in Tasks \ {t} : Op(t2)' = "none"
         /\ \A p \in by_ufrag : IsMember(p)
         /\ \A r \in Rooms, a \in Addrs : by_addr[r][a] # None =>
              /\ IsMember(by_addr[r][a][1])
              /\ home[by_addr[r][a][1]] = r /\ address[by_addr[r][a]] = a
<1>1. ~raced /\ Settled
  BY DEF Start, Settled
<1>2. \A t2 \in Tasks : Op(t2) = "none"
  BY <1>1 DEF Settled, Busy, Op, OpOf
<1>3. \A t2 \in Tasks \ {t} : Op(t2)' = "none"
  BY <1>2 DEF Others
<1> QED
  BY <1>1, <1>2, <1>3 DEF Quiet, Listed, Latched

\* The first operation after others have ended is a join.
LEMMA JoinQuiet ==
  ASSUME HubInv, ~raced => Quiet, NEW t \in Tasks, NEW p \in Parts, NEW u \in Users,
         NEW r \in Rooms, add_participant(t, p, u, r), ~raced'
  PROVE  Quiet'
<1> USE DEF HubInv
<1>1. /\ owner[p] = None /\ owner' = [owner EXCEPT ![p] = u] /\ home' = [home EXCEPT ![p] = r]
      /\ participants[r][u] = None /\ Start(t, JoinAccesses(p))
      /\ UNCHANGED <<address, participants, by_ufrag, by_addr, ufrag_index, addr_index, removed>>
  BY DEF add_participant, Start, MayJoin
<1>2. Others(t) /\ Op(t)' = "ufrags" /\ Part(t)' = p
  BY <1>1, Starting, JoinBegins
<1>3. /\ \A t2 \in Tasks \ {t} : Op(t2)' = "none"
      /\ \A p2 \in by_ufrag : IsMember(p2)
      /\ \A r2 \in Rooms, a2 \in Addrs : by_addr[r2][a2] # None =>
           /\ IsMember(by_addr[r2][a2][1])
           /\ home[by_addr[r2][a2][1]] = r2 /\ address[by_addr[r2][a2]] = a2
  BY <1>1, <1>2, QuietStart
<1>4. \A p2 \in Parts : /\ owner'[p2] = IF p2 = p THEN u ELSE owner[p2]
                        /\ home'[p2] = IF p2 = p THEN r ELSE home[p2]
  BY <1>1 DEF TypeOK
<1>5. OneAtATime'
  BY <1>3 DEF OneAtATime
<1>6. home[p] = None
  BY <1>1 DEF Owned
<1>7. Listed'
  <2>1. \A p2 \in by_ufrag : p2 # p /\ p2 \in Parts
    BY <1>1 DEF Owned, TypeOK
  <2>2. \A p2 \in by_ufrag' : IsMember(p2)'
    BY <1>1, <1>3, <1>4, <2>1 DEF IsMember
  <2>3. participants'[home'[p]][owner'[p]] = None
    BY <1>1, <1>4
  <2>4. \A t2 \in Tasks : Op(t2)' \notin Latching
    BY <1>2, <1>3 DEF Latching
  <2>5. \A t2 \in Tasks : Op(t2)' \in Registering => Part(t2)' = p
    BY <1>2, <1>3 DEF Registering
  <2> QED
    BY <2>2, <2>3, <2>4, <2>5 DEF Listed
<1>8. Latched'
  <2> SUFFICES ASSUME NEW r2 \in Rooms, NEW a2 \in Addrs, NEW s, s = by_addr[r2][a2], s # None
               PROVE  home'[s[1]] = r2 /\ address[s] = a2 /\ IsMember(s[1])'
    BY <1>1 DEF Latched
  <2>1. s[1] \in Parts
    BY AddrEntry
  <2>2. s[1] # p
    BY <1>3, <1>6, HubAssumption
  <2> QED
    BY <1>1, <1>3, <1>4, <2>1, <2>2 DEF IsMember
<1>9. Rebinding'
  BY <1>2, <1>3 DEF Rebinding
<1> QED
  BY <1>5, <1>7, <1>8, <1>9 DEF Quiet

\* It is a removal.
LEMMA RemovalQuiet ==
  ASSUME HubInv, ~raced => Quiet, NEW t \in Tasks, NEW u \in Users, NEW r \in Rooms,
         remove_participant(t, u, r), ~raced'
  PROVE  Quiet'
<1> USE DEF HubInv
<1> DEFINE p == participants[r][u]
<1>1. /\ p # None /\ participants' = [participants EXCEPT ![r][u] = None]
      /\ Start(t, RemoveAccesses(p))
      /\ UNCHANGED <<owner, home, address, by_ufrag, by_addr, ufrag_index, addr_index, removed>>
  BY DEF remove_participant, Start, RemoveAccesses
<1>2. p \in Parts
  BY <1>1 DEF TypeOK
<1>3. Others(t) /\ Op(t)' = "rm_ufrags" /\ Part(t)' = p
  BY <1>1, <1>2, Starting, RemovalBegins
<1>4. /\ \A t2 \in Tasks \ {t} : Op(t2)' = "none"
      /\ \A p2 \in by_ufrag : IsMember(p2)
      /\ \A r2 \in Rooms, a2 \in Addrs : by_addr[r2][a2] # None =>
           /\ IsMember(by_addr[r2][a2][1])
           /\ home[by_addr[r2][a2][1]] = r2 /\ address[by_addr[r2][a2]] = a2
  BY <1>1, <1>3, QuietStart
<1>5. OneAtATime'
  BY <1>4 DEF OneAtATime
<1>6. ASSUME NEW p2 \in Parts, IsMember(p2), p2 # p, owner[p2] # None \/ home[p2] # None
      PROVE  IsMember(p2)'
  <2>1. owner[p2] \in Users /\ home[p2] \in Rooms
    BY <1>6, PlaceOf
  <2>2. participants[home[p2]][owner[p2]] = p2
    BY <1>6 DEF IsMember
  <2>3. home[p2] # r \/ owner[p2] # u
    BY <1>6, <2>2
  <2>4. participants \in [Rooms -> [Users -> Parts \cup {None}]]
    BY DEF TypeOK
  <2>5. participants'[home[p2]][owner[p2]] = participants[home[p2]][owner[p2]]
    BY <1>1, <2>1, <2>3, <2>4
  <2> QED
    BY <1>1, <2>2, <2>5 DEF IsMember
<1> HIDE DEF p
<1>7. Listed'
  <2>1. \A p2 \in by_ufrag : p2 \in Parts /\ owner[p2] # None
    BY DEF Owned, TypeOK
  <2>2. \A p2 \in by_ufrag : p2 = p \/ IsMember(p2)'
    BY <1>4, <1>6, <2>1
  <2>3. \A t2 \in Tasks : Op(t2)' \notin Latching /\ Op(t2)' \notin Registering
    BY <1>3, <1>4 DEF Latching, Registering
  <2> QED
    BY <1>1, <1>3, <2>2, <2>3 DEF Listed
<1>8. Latched'
  <2> SUFFICES ASSUME NEW r2 \in Rooms, NEW a2 \in Addrs, NEW s, s = by_addr[r2][a2], s # None
               PROVE  /\ home[s[1]] = r2 /\ address[s] = a2
                      /\ s[1] = p \/ IsMember(s[1])'
    BY <1>1, <1>3 DEF Latched
  <2>1. s[1] \in Parts
    BY AddrEntry
  <2>2. home[s[1]] # None /\ IsMember(s[1]) /\ home[s[1]] = r2 /\ address[s] = a2
    BY <1>4, HubAssumption
  <2> QED
    BY <1>6, <2>1, <2>2
<1>9. Rebinding'
  BY <1>3, <1>4 DEF Rebinding
<1> QED
  BY <1>5, <1>7, <1>8, <1>9 DEF Quiet

\* It is a latch.
LEMMA LatchQuiet ==
  ASSUME HubInv, ~raced => Quiet, NEW t \in Tasks, NEW s \in Sessions, NEW a \in Addrs,
         latch_by_ufrag(t, s, a), ~raced'
  PROVE  Quiet'
<1> USE DEF HubInv
<1>1. /\ s[1] \in by_ufrag /\ Start(t, LatchAccesses(s, a))
      /\ UNCHANGED <<owner, home, address, participants, by_ufrag, by_addr, ufrag_index,
                     addr_index, removed>>
  BY DEF latch_by_ufrag, Start, LatchAccesses
<1>2. Others(t) /\ Op(t)' = "rebind" /\ Part(t)' = s[1]
  BY <1>1, Starting, LatchBegins
<1>3. /\ \A t2 \in Tasks \ {t} : Op(t2)' = "none"
      /\ \A p2 \in by_ufrag : IsMember(p2)
      /\ \A r2 \in Rooms, a2 \in Addrs : by_addr[r2][a2] # None =>
           /\ IsMember(by_addr[r2][a2][1])
           /\ home[by_addr[r2][a2][1]] = r2 /\ address[by_addr[r2][a2]] = a2
  BY <1>1, <1>2, QuietStart
<1>4. \A p2 : IsMember(p2)' <=> IsMember(p2)
  BY <1>1 DEF IsMember
<1>5. OneAtATime'
  BY <1>3 DEF OneAtATime
<1>6. Listed'
  <2>1. \A t2 \in Tasks : Op(t2)' \notin Registering
    BY <1>2, <1>3 DEF Registering
  <2>2. \A t2 \in Tasks : Op(t2)' \in Latching => Part(t2)' = s[1]
    BY <1>2, <1>3 DEF Latching
  <2> QED
    BY <1>1, <1>3, <1>4, <2>1, <2>2 DEF Listed
<1>7. Latched'
  BY <1>1, <1>3, <1>4 DEF Latched
<1>8. Rebinding'
  BY <1>2, <1>3 DEF Rebinding
<1> QED
  BY <1>5, <1>6, <1>7, <1>8 DEF Quiet

\* Dropping an object disturbs no member and no address in use.
LEMMA DropQuiet ==
  ASSUME HubInv, ~raced => Quiet, NEW p \in Parts, Drop(p), ~raced'
  PROVE  Quiet'
<1> USE DEF HubInv
<1>1. /\ p \in removed /\ p \notin by_ufrag
      /\ \A r \in Rooms, a \in Addrs, pc \in PcTypes : by_addr[r][a] # <<p, pc>>
      /\ owner' = [owner EXCEPT ![p] = None] /\ home' = [home EXCEPT ![p] = None]
      /\ address' = [s \in Sessions |-> IF s[1] = p THEN None ELSE address[s]]
      /\ UNCHANGED <<participants, by_ufrag, by_addr, ufrag_index, addr_index, todo, raced>>
  BY DEF Drop
<1>2. Quiet
  BY <1>1
<1>3. \A t \in Tasks : Op(t)' = Op(t) /\ Part(t)' = Part(t) /\ Sess(t)' = Sess(t) /\ Adr(t)' = Adr(t)
  BY <1>1 DEF Op, Part, Sess, Adr
<1>4. \A t \in Tasks : Op(t) # "none" => Part(t) # p /\ Part(t) \in Parts
  <2> SUFFICES ASSUME NEW t \in Tasks, Op(t) # "none"
               PROVE  Part(t) # p /\ Part(t) \in Parts
    OBVIOUS
  <2>1. Part(t) \in Parts /\ todo[t] # <<>>
    BY FirstAccess DEF Busy
  <2>2. todo[t] \in Seq(Entry)
    BY DEF TypeOK, Entry
  <2>3. 1 \in 1..4 /\ 1 <= Len(todo[t])
    BY <2>1, <2>2
  <2> QED
    BY <2>1, <2>3 DEF Drop, Part
<1>5. \A p2 \in Parts \ {p} :
        owner'[p2] = owner[p2] /\ home'[p2] = home[p2] /\ (IsMember(p2)' <=> IsMember(p2))
  <2>1. \A p2 \in Parts \ {p} : owner'[p2] = owner[p2] /\ home'[p2] = home[p2]
    BY <1>1 DEF TypeOK
  <2> QED
    BY <1>1, <2>1 DEF IsMember
<1>6. OneAtATime'
  BY <1>2, <1>3 DEF Quiet, OneAtATime
<1>7. Listed'
  <2>1. \A p2 \in by_ufrag : p2 \in Parts \ {p}
    BY <1>1 DEF TypeOK
  <2>2. \A t \in Tasks : Op(t) \in Registering \cup Latching => Part(t) \in Parts \ {p}
    BY <1>4 DEF Registering, Latching
  <2> QED
    BY <1>1, <1>2, <1>3, <1>5, <2>1, <2>2 DEF Quiet, Listed
<1>8. Latched'
  <2> SUFFICES ASSUME NEW r \in Rooms, NEW a \in Addrs, NEW s, s = by_addr[r][a], s # None
               PROVE  /\ home'[s[1]] = r /\ address'[s] = a
                      /\ \/ IsMember(s[1])'
                         \/ \E t \in Tasks : Op(t)' \in {"rm_ufrags", "rm_addrs"} /\ Part(t)' = s[1]
    BY <1>1 DEF Latched
  <2>1. s \in Sessions /\ s[1] \in Parts /\ s[1] # p
    BY <1>1, AddrEntry
  <2>2. address'[s] = address[s]
    BY <1>1, <2>1
  <2>3. /\ home[s[1]] = r /\ address[s] = a
        /\ IsMember(s[1]) \/ \E t \in Tasks : Op(t) \in {"rm_ufrags", "rm_addrs"} /\ Part(t) = s[1]
    BY <1>2 DEF Quiet, Latched
  <2> QED
    BY <1>3, <1>5, <2>1, <2>2, <2>3
<1>9. Rebinding'
  <2>1. \A t \in Tasks : Op(t) = "addr" => Sess(t) \in Sessions /\ Sess(t)[1] = Part(t) /\ Part(t) # p
    BY <1>4, FirstAccess DEF Latching, Sess, Part
  <2>2. \A t \in Tasks : Op(t) = "addr" => address'[Sess(t)] = address[Sess(t)]
    BY <1>1, <2>1
  <2> QED
    BY <1>1, <1>2, <1>3, <2>2 DEF Quiet, Rebinding
<1> QED
  BY <1>6, <1>7, <1>8, <1>9 DEF Quiet

\* While one operation is under way, each of its accesses does its part.
LEMMA StepQuiet ==
  ASSUME HubInv, ~raced => Quiet, NEW t \in Tasks, Step(t), ~raced'
  PROVE  Quiet'
<1> USE DEF HubInv
<1>1. /\ Others(t) /\ Op(t) \in Accesses /\ Op(t) # "none" /\ Part(t) \in Parts
      /\ Op(t) \in Latching => Sess(t) \in Sessions /\ Adr(t) \in Addrs
      /\ Op(t)' = After(Op(t))
      /\ Op(t)' # "none" => Part(t)' = Part(t) /\ Sess(t)' = Sess(t) /\ Adr(t)' = Adr(t)
  BY Stepping DEF Accesses
<1>2. owner' = owner /\ home' = home /\ ~raced
  BY StepWrites
<1>3. OneAtATime /\ Listed /\ Latched /\ Rebinding
  BY <1>2 DEF Quiet
<1>4. \A t2 \in Tasks \ {t} : Op(t2) = "none" /\ Op(t2)' = "none"
  BY <1>1, <1>3 DEF OneAtATime, Others
<1>5. owner[Part(t)] \in Users /\ home[Part(t)] \in Rooms
  BY <1>1, PlaceOf DEF Owned
<1>6. OneAtATime'
  BY <1>4 DEF OneAtATime
<1>7. ASSUME NEW p \in Parts, IsMember(p)
      PROVE  IsMember(p)'
  <2>1. CASE Op(t) = "participant"
    <3>1. participants' = [participants EXCEPT ![home[Part(t)]][owner[Part(t)]] = Part(t)]
      BY <2>1, StepWrites
    <3>2. participants[home[Part(t)]][owner[Part(t)]] = None
      BY <1>3, <2>1 DEF Listed, Registering
    <3>3. p # None
      BY HubAssumption
    <3>4. participants[home[p]][owner[p]] = p
      BY <1>7 DEF IsMember
    <3>5. home[p] # home[Part(t)] \/ owner[p] # owner[Part(t)]
      BY <3>2, <3>3, <3>4
    <3>6. participants'[home[p]][owner[p]] = participants[home[p]][owner[p]]
      BY <1>5, <3>1, <3>5 DEF TypeOK
    <3> QED
      BY <1>2, <3>4, <3>6 DEF IsMember
  <2>2. CASE Op(t) # "participant"
    BY <1>2, <1>7, <2>2, StepWrites DEF IsMember
  <2> QED
    BY <2>1, <2>2
<1>8. Listed'
  <2>1. ASSUME NEW p \in by_ufrag'
        PROVE  \/ IsMember(p)'
               \/ Op(t)' \in {"participant", "rm_ufrags"} /\ Part(t)' = p
    <3>1. p \in Parts
      BY <2>1, StepTypes DEF TypeOK
    <3>2. CASE Op(t) = "ufrags" /\ p = Part(t)
      BY <1>1, <3>2 DEF After
    <3>3. CASE p \in by_ufrag /\ IsMember(p)
      BY <1>7, <3>1, <3>3
    <3>4. CASE p \in by_ufrag /\ ~IsMember(p)
      <4>1. Op(t) \in {"participant", "rm_ufrags"} /\ Part(t) = p
        BY <1>3, <1>4, <3>4 DEF Listed
      <4>2. Op(t) # "rm_ufrags"
        BY <2>1, <4>1, StepWrites
      <4>3. participants' = [participants EXCEPT ![home[p]][owner[p]] = p]
        BY <4>1, <4>2, StepWrites
      <4>4. participants'[home[p]][owner[p]] = p
        BY <1>5, <4>1, <4>3 DEF TypeOK
      <4> QED
        BY <1>2, <4>4 DEF IsMember
    <3>5. p \in by_ufrag \/ (Op(t) = "ufrags" /\ p = Part(t))
      BY <2>1, StepWrites
    <3> QED
      BY <3>2, <3>3, <3>4, <3>5
  <2>2. ASSUME Op(t)' \in Registering
        PROVE  participants'[home'[Part(t)']][owner'[Part(t)']] = None
    <3>1. Op(t) = "ufrags" /\ Part(t)' = Part(t)
      BY <1>1, <2>2 DEF Registering, After, Accesses
    <3>2. participants' = participants
      BY <3>1, StepWrites
    <3> QED
      BY <1>2, <1>3, <3>1, <3>2 DEF Listed, Registering
  <2>3. ASSUME Op(t)' \in Latching
        PROVE  Part(t)' = Part(t) /\ IsMember(Part(t))
    <3>1. Op(t) \in Latching /\ Part(t)' = Part(t)
      BY <1>1, <2>3 DEF Latching, After, Accesses
    <3> QED
      BY <1>3, <3>1 DEF Listed
  <2>4. \A t2 \in Tasks : Op(t2)' \in Registering \cup Latching => t2 = t
    BY <1>4 DEF Registering, Latching
  <2>5. Op(t)' \in Latching => IsMember(Part(t))'
    <3> SUFFICES ASSUME Op(t)' \in Latching, NEW p, p = Part(t)
                 PROVE  IsMember(Part(t))'
      OBVIOUS
    <3>1. p \in Parts /\ IsMember(p) /\ Part(t)' = p
      BY <1>1, <2>3
    <3>2. IsMember(p)'
      BY <1>7, <3>1
    <3> QED
      BY <3>1, <3>2 DEF IsMember
  <2>6. \A p \in by_ufrag' : \/ IsMember(p)'
          \/ \E t2 \in Tasks : Op(t2)' \in {"participant", "rm_ufrags"} /\ Part(t2)' = p
    BY <2>1
  <2>7. \A t2 \in Tasks : Op(t2)' \in Registering =>
          participants'[home'[Part(t2)']][owner'[Part(t2)']] = None
    BY <2>2, <2>4
  <2>8. \A t2 \in Tasks : Op(t2)' \in Latching => IsMember(Part(t2))'
    BY <2>4, <2>5
  <2> QED
    BY <2>6, <2>7, <2>8 DEF Listed
<1>9. ASSUME NEW r \in Rooms, NEW a \in Addrs, NEW s, s = by_addr[r][a], s # None
      PROVE  /\ s \in Sessions /\ s[1] \in Parts /\ s[2] \in PcTypes /\ s = <<s[1], s[2]>>
             /\ home[s[1]] = r /\ address[s] = a
             /\ \/ IsMember(s[1])
                \/ Op(t) \in {"rm_ufrags", "rm_addrs"} /\ Part(t) = s[1]
  BY <1>3, <1>4, <1>9, AddrEntry DEF Latched
<1>10. \A r \in Rooms, a \in Addrs : by_addr'[r][a] # None =>
         \/ by_addr'[r][a] = by_addr[r][a]
         \/ Op(t) = "addr" /\ r = home[Part(t)] /\ a = Adr(t) /\ by_addr'[r][a] = Sess(t)
  <2>0. by_addr \in [Rooms -> [Addrs -> Sessions \cup {None}]]
    BY DEF TypeOK
  <2>1. CASE Op(t) = "addr"
    <3>1. by_addr' = [by_addr EXCEPT ![home[Part(t)]][Adr(t)] = Sess(t)]
      BY <2>1, StepWrites
    <3> QED
      BY <2>0, <2>1, <3>1
  <2>2. CASE Op(t) = "rm_addrs"
    <3>1. by_addr' = [by_addr EXCEPT ![home[Part(t)]] = Without(@, AddrsOf(Part(t)))]
      BY <2>2, StepWrites
    <3> QED
      BY <2>0, <3>1 DEF Without
  <2>3. CASE Op(t) = "rebind"
    <3>1. by_addr' = [by_addr EXCEPT ![home[Part(t)]] =
                        Without(@, {address[Sess(t)]} \ {Adr(t)})]
      BY <2>3, StepWrites
    <3> QED
      BY <2>0, <3>1 DEF Without
  <2>4. CASE Op(t) \notin {"addr", "rm_addrs", "rebind"}
    BY <2>4, StepWrites
  <2> QED
    BY <2>1, <2>2, <2>3, <2>4
<1>11. Latched'
  <2> SUFFICES ASSUME NEW r \in Rooms, NEW a \in Addrs, NEW s, s = by_addr'[r][a], s # None
               PROVE  /\ home'[s[1]] = r /\ address'[s] = a
                      /\ IsMember(s[1])' \/ (Op(t)' \in {"rm_ufrags", "rm_addrs"} /\ Part(t)' = s[1])
    BY DEF Latched
  <2>1. CASE Op(t) = "addr" /\ r = home[Part(t)] /\ a = Adr(t) /\ s = Sess(t)
    <3>1. s[1] = Part(t) /\ address[s] = a
      BY <1>3, <2>1 DEF Rebinding, Sess, Part
    <3>2. IsMember(s[1])
      BY <1>3, <2>1, <3>1 DEF Listed, Latching
    <3>3. address' = address
      BY <2>1, StepWrites
    <3> QED
      BY <1>1, <1>2, <1>7, <2>1, <3>1, <3>2, <3>3
  <2>2. CASE s = by_addr[r][a]
    <3>1. /\ s \in Sessions /\ s[1] \in Parts /\ s[2] \in PcTypes /\ s = <<s[1], s[2]>>
          /\ home[s[1]] = r /\ address[s] = a
          /\ \/ IsMember(s[1])
             \/ Op(t) \in {"rm_ufrags", "rm_addrs"} /\ Part(t) = s[1]
      BY <1>9, <2>2
    <3>2. address'[s] = a
      <4>1. CASE Op(t) = "address" /\ s = Sess(t)
        <5>1. a = Adr(t)
          BY <1>3, <2>2, <4>1 DEF Rebinding
        <5>2. address' = [address EXCEPT ![s] = a]
          BY <4>1, <5>1, StepWrites
        <5> QED
          BY <3>1, <5>2 DEF TypeOK
      <4>2. CASE Op(t) = "address" /\ s # Sess(t)
        <5>1. address' = [address EXCEPT ![Sess(t)] = Adr(t)]
          BY <4>2, StepWrites
        <5> QED
          BY <3>1, <4>2, <5>1 DEF TypeOK
      <4>3. CASE Op(t) # "address"
        BY <3>1, <4>3, StepWrites
      <4> QED
        BY <4>1, <4>2, <4>3
    <3>3. IsMember(s[1])' \/ (Op(t)' \in {"rm_ufrags", "rm_addrs"} /\ Part(t)' = s[1])
      <4>1. CASE IsMember(s[1])
        BY <1>7, <3>1, <4>1
      <4>2. CASE Op(t) = "rm_ufrags" /\ Part(t) = s[1]
        BY <1>1, <4>2 DEF After
      <4>3. CASE Op(t) = "rm_addrs" /\ Part(t) = s[1]
        <5>1. a \in AddrsOf(Part(t))
          BY <3>1, <4>3, HubAssumption DEF AddrsOf
        <5>2. by_addr' = [by_addr EXCEPT ![r] = Without(@, AddrsOf(Part(t)))]
          BY <3>1, <4>3, StepWrites
        <5>3. by_addr'[r][a] = None
          BY <5>1, <5>2 DEF Without, TypeOK
        <5> QED
          BY <5>3
      <4> QED
        BY <3>1, <4>1, <4>2, <4>3
    <3> QED
      BY <1>2, <3>1, <3>2, <3>3
  <2> QED
    BY <1>10, <2>1, <2>2
<1>12. Rebinding'
  <2>1. ASSUME Op(t)' = "address", NEW r \in Rooms, NEW a \in Addrs, by_addr'[r][a] = Sess(t)'
        PROVE  a = Adr(t)'
    <3>1. Op(t) = "rebind" /\ Sess(t)' = Sess(t) /\ Adr(t)' = Adr(t)
      BY <1>1, <2>1 DEF After, Accesses
    <3>2. Sess(t) \in Sessions /\ Sess(t)[1] = Part(t)
      BY <1>1, <3>1 DEF Latching, Sess, Part
    <3>3. Sess(t) # None
      BY <3>2, HubAssumption DEF Sessions
    <3>4. by_addr[r][a] = Sess(t)
      BY <1>10, <2>1, <3>1, <3>3
    <3>5. home[Part(t)] = r /\ address[Sess(t)] = a
      BY <1>9, <3>2, <3>3, <3>4
    <3>6. by_addr' = [by_addr EXCEPT ![r] = Without(@, {a} \ {Adr(t)})]
      BY <3>1, <3>5, StepWrites
    <3>7. a # Adr(t) => by_addr'[r][a] = None
      BY <3>6 DEF Without, TypeOK
    <3> QED
      BY <2>1, <3>1, <3>3, <3>7
  <2>2. ASSUME Op(t)' = "addr"
        PROVE  address'[Sess(t)'] = Adr(t)'
    <3>1. Op(t) = "address" /\ Sess(t)' = Sess(t) /\ Adr(t)' = Adr(t)
      BY <1>1, <2>2 DEF After, Accesses
    <3>2. Sess(t) \in Sessions
      BY <1>1, <3>1 DEF Latching
    <3>3. address' = [address EXCEPT ![Sess(t)] = Adr(t)]
      BY <3>1, StepWrites
    <3> QED
      BY <3>1, <3>2, <3>3 DEF TypeOK
  <2>3. \A t2 \in Tasks : Op(t2)' \in {"address", "addr"} => t2 = t
    BY <1>4
  <2> QED
    BY <2>1, <2>2, <2>3 DEF Rebinding
<1> QED
  BY <1>6, <1>8, <1>11, <1>12 DEF Quiet

\* While operations do not overlap, media that RoomHub.find_by_addr attributes
\* to a session comes from that session's current address, and the session's
\* participant is in its room.
THEOREM MediaReachesOwner == Spec => []MediaOwner
<1> DEFINE Inv == HubInv /\ (~raced => Quiet)
<1>1. Init => Inv
  <2> SUFFICES ASSUME Init PROVE Quiet
    BY HubInit
  <2>1. \A t \in Tasks : Op(t) = "none"
    BY DEF Init, Op, OpOf
  <2>2. OneAtATime /\ Rebinding
    BY <2>1 DEF OneAtATime, Rebinding
  <2>3. Listed
    BY <2>1 DEF Init, Listed, Registering, Latching
  <2>4. Latched
    BY DEF Init, Latched
  <2> QED
    BY <2>2, <2>3, <2>4 DEF Quiet
<1>2. Inv /\ [Next]_hubVars => Inv'
  <2> SUFFICES ASSUME Inv, [Next]_hubVars, ~raced' PROVE Quiet'
    BY HubNext
  <2>1. ASSUME NEW t \in Tasks, NEW p \in Parts, NEW u \in Users, NEW r \in Rooms,
               add_participant(t, p, u, r)
        PROVE  Quiet'
    BY <2>1, JoinQuiet
  <2>2. ASSUME NEW t \in Tasks, NEW u \in Users, NEW r \in Rooms, remove_participant(t, u, r)
        PROVE  Quiet'
    BY <2>2, RemovalQuiet
  <2>3. ASSUME NEW t \in Tasks, NEW s \in Sessions, NEW a \in Addrs, latch_by_ufrag(t, s, a)
        PROVE  Quiet'
    BY <2>3, LatchQuiet
  <2>4. ASSUME NEW t \in Tasks, Step(t)
        PROVE  Quiet'
    BY <2>4, StepQuiet
  <2>5. ASSUME NEW p \in Parts, Drop(p)
        PROVE  Quiet'
    BY <2>5, DropQuiet
  <2>6. CASE UNCHANGED hubVars
    <3>1. \A t \in Tasks : /\ Op(t)' = Op(t) /\ Part(t)' = Part(t)
                           /\ Sess(t)' = Sess(t) /\ Adr(t)' = Adr(t)
      BY <2>6 DEF hubVars, Op, Part, Sess, Adr
    <3>2. Quiet
      BY <2>6 DEF hubVars
    <3>3. \A p : IsMember(p)' <=> IsMember(p)
      BY <2>6 DEF hubVars, IsMember
    <3>4. OneAtATime'
      BY <3>1, <3>2 DEF Quiet, OneAtATime
    <3>5. Listed'
      BY <2>6, <3>1, <3>2, <3>3 DEF hubVars, Quiet, Listed
    <3>6. Latched'
      BY <2>6, <3>1, <3>2, <3>3 DEF hubVars, Quiet, Latched
    <3>7. Rebinding'
      BY <2>6, <3>1, <3>2 DEF hubVars, Quiet, Rebinding
    <3> QED
      BY <3>4, <3>5, <3>6, <3>7 DEF Quiet
  <2> QED
    BY <2>1, <2>2, <2>3, <2>4, <2>5, <2>6 DEF Next
<1>3. Inv => MediaOwner
  <2> SUFFICES ASSUME Inv, Settled, ~raced, NEW a \in Addrs, NEW s, s = find_by_addr(a), s # None
               PROVE  address[s] = a /\ participants[home[s[1]]][owner[s[1]]] = s[1]
    BY DEF MediaOwner
  <2>1. addr_index[a] \in Rooms /\ s = by_addr[addr_index[a]][a]
    BY DEF find_by_addr, HubInv, TypeOK
  <2>2. \A t \in Tasks : Op(t) = "none"
    BY DEF Settled, Busy, Op, OpOf
  <2> QED
    BY <2>1, <2>2 DEF Quiet, Latched, IsMember
<1> QED
  BY <1>1, <1>2, <1>3, PTL DEF Spec
=============================================================================
