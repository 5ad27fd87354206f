---------------------------- MODULE ClientsProofs ----------------------------
(***************************************************************************)
(* What a server and its clients allocate and release, for any number of   *)
(* tracks, users, client sessions and connections and any parameter sets:  *)
(* nothing is released twice or used after its release, except where the   *)
(* code is known to, nobody is let in but who answers the challenge of his *)
(* connection, the frame rate is that of the clock in a parameter set that *)
(* was saved whole, and a client reads the sets as they were saved out of  *)
(* the description.                                                        *)
(*                                                                         *)
(* The objects are described part by part: which blocks each has and may   *)
(* have, whether it is in the table of media, where its pointers lead (Up).*)
(* A constructor or a destructor changes the objects it is called for and  *)
(* leaves all others as they are (Clean), so what is said of these still   *)
(* holds.  From the single operations on the heap this is carried up class *)
(* by class, as the code calls them, and then through the steps.  For the  *)
(* parameter sets it says that a sink at work finds its source; that       *)
(* base64 is read back as it was written is in module Base64Proofs.        *)
(***************************************************************************)
EXTENDS RtspClients, Base64Proofs

------------------------------------------------------------------------------
(* The heap: what each of its operations changes. *)

IsHeap(h) ==
  /\ h = [live |-> h.live, listed |-> h.listed, ref |-> h.ref, faults |-> h.faults]
  /\ \A b \in h.live : b = <<b[1], b[2]>>

(* Two heaps without a difference but in their references, or in none. *)
SameBlocks(h, g) == g.live = h.live /\ g.listed = h.listed /\ g.faults = h.faults

LEMMA SetGives ==
  ASSUME NEW h, NEW o, NEW f, NEW t, IsHeap(h)
  PROVE  LET g == Set(h, o, f, t)
         IN  /\ IsHeap(g) /\ SameBlocks(h, g)
             /\ \A p, k : Ref(g, p, k) = IF p = o /\ k = f THEN t ELSE Ref(h, p, k)
<1> DEFINE ref == [p \in DOMAIN h.ref \cup {<<o, f>>} |-> IF p = <<o, f>> THEN t ELSE h.ref[p]]
           g == Set(h, o, f, t)
<1>1. g = [live |-> h.live, listed |-> h.listed, ref |-> ref, faults |-> h.faults]
  BY DEF IsHeap, Set
<1>2. IsHeap(g) /\ SameBlocks(h, g) /\ g.ref = ref
  BY <1>1 DEF IsHeap, SameBlocks
<1>3. ASSUME NEW p, NEW k PROVE Ref(g, p, k) = IF p = o /\ k = f THEN t ELSE Ref(h, p, k)
  <2> HIDE DEF g
  <2>1. CASE p = o /\ k = f
    BY <1>2, <2>1 DEF Ref
  <2>2. CASE ~(p = o /\ k = f)
    <3>1. <<p, k>> # <<o, f>>
      BY <2>2
    <3>2. <<p, k>> \in DOMAIN g.ref <=> <<p, k>> \in DOMAIN h.ref
      BY <1>2, <3>1
    <3>3. <<p, k>> \in DOMAIN h.ref => g.ref[<<p, k>>] = h.ref[<<p, k>>]
      BY <1>2, <3>1
    <3> QED
      BY <2>2, <3>2, <3>3 DEF Ref
  <2> QED
    BY <2>1, <2>2
<1> QED
  BY <1>2, <1>3

LEMMA MakeGives ==
  ASSUME NEW h, NEW o, NEW parts, IsHeap(h)
  PROVE  LET g == Make(h, o, parts)
         IN  /\ IsHeap(g) /\ g.listed = h.listed /\ g.faults = h.faults
             /\ \A p, part : Lives(g, p, part) <=> Lives(h, p, part) \/ (p = o /\ part \in parts)
             /\ \A p, k : Ref(g, p, k) = Ref(h, p, k)
<1> DEFINE g == Make(h, o, parts)
<1>1. g = [live |-> h.live \cup ({o} \X parts), listed |-> h.listed, ref |-> h.ref, faults |-> h.faults]
  BY DEF IsHeap, Make
<1>2. IsHeap(g) /\ g.listed = h.listed /\ g.faults = h.faults /\ g.ref = h.ref
  BY <1>1 DEF IsHeap
<1> HIDE DEF g
<1>3. ASSUME NEW p, NEW part PROVE Lives(g, p, part) <=> Lives(h, p, part) \/ (p = o /\ part \in parts)
  BY <1>1 DEF Lives
<1>4. ASSUME NEW p, NEW k PROVE Ref(g, p, k) = Ref(h, p, k)
  BY <1>2 DEF Ref
<1> QED
  BY <1>2, <1>3, <1>4 DEF g

LEMMA FreeIfGives ==
  ASSUME NEW h, NEW o, NEW part, IsHeap(h)
  PROVE  LET g == FreeIf(h, o, part)
         IN  /\ IsHeap(g) /\ g.listed = h.listed /\ g.faults = h.faults
             /\ \A p, q : Lives(g, p, q) <=> Lives(h, p, q) /\ ~(p = o /\ q = part)
             /\ \A p, k : Ref(g, p, k) = Ref(h, p, k)
<1> DEFINE g == FreeIf(h, o, part)
<1>1. g = [live |-> h.live \ {<<o, part>>}, listed |-> h.listed, ref |-> h.ref, faults |-> h.faults]
  <2>1. CASE Lives(h, o, part)
    BY <2>1 DEF IsHeap, FreeIf, Free
  <2>2. CASE ~Lives(h, o, part)
    <3>1. h.live = h.live \ {<<o, part>>}
      BY <2>2 DEF Lives
    <3> QED
      BY <2>2, <3>1 DEF IsHeap, FreeIf
  <2> QED
    BY <2>1, <2>2
<1>2. IsHeap(g) /\ g.listed = h.listed /\ g.faults = h.faults /\ g.ref = h.ref
  BY <1>1 DEF IsHeap
<1> HIDE DEF g
<1>3. ASSUME NEW p, NEW q PROVE Lives(g, p, q) <=> Lives(h, p, q) /\ ~(p = o /\ q = part)
  <2>1. <<p, q>> = <<o, part>> <=> p = o /\ q = part
    OBVIOUS
  <2> QED
    BY <1>1, <2>1 DEF Lives
<1>4. ASSUME NEW p, NEW k PROVE Ref(g, p, k) = Ref(h, p, k)
  BY <1>2 DEF Ref
<1> QED
  BY <1>2, <1>3, <1>4 DEF g

LEMMA FreeGives ==
  ASSUME NEW h, NEW o, NEW part, Lives(h, o, part)
  PROVE  Free(h, o, part) = FreeIf(h, o, part)
BY DEF FreeIf

LEMMA TouchGives ==
  ASSUME NEW h, NEW o, NEW part, Lives(h, o, part)
  PROVE  Touch(h, o, part) = h
BY DEF Touch

LEMMA FaultGives ==
  ASSUME NEW h, NEW kind, NEW o, NEW part, IsHeap(h)
  PROVE  LET g == Fault(h, kind, o, part)
         IN  /\ IsHeap(g) /\ g.listed = h.listed /\ g.faults = h.faults \cup {<<kind, o, part>>}
             /\ \A p, q : Lives(g, p, q) <=> Lives(h, p, q)
             /\ \A p, k : Ref(g, p, k) = Ref(h, p, k)
<1> DEFINE g == Fault(h, kind, o, part)
<1>1. g = [live |-> h.live, listed |-> h.listed, ref |-> h.ref, faults |-> h.faults \cup {<<kind, o, part>>}]
  BY SMTT(30) DEF IsHeap, Fault
<1> HIDE DEF g
<1> QED
  BY <1>1 DEF g, IsHeap, Lives, Ref

LEMMA ForgottenGives ==
  ASSUME NEW h, NEW o, IsHeap(h)
  PROVE  LET g == Forgotten(h, o)
         IN  /\ IsHeap(g) /\ SameBlocks(h, g)
             /\ \A p, k : p # o => Ref(g, p, k) = Ref(h, p, k)
<1> DEFINE ref == [p \in {q \in DOMAIN h.ref : q[1] # o} |-> h.ref[p]]
           g == Forgotten(h, o)
<1>1. g = [live |-> h.live, listed |-> h.listed, ref |-> ref, faults |-> h.faults]
  BY DEF IsHeap, Forgotten
<1>2. IsHeap(g) /\ SameBlocks(h, g) /\ g.ref = ref
  BY <1>1 DEF IsHeap, SameBlocks
<1>3. ASSUME NEW p, NEW k, p # o PROVE Ref(g, p, k) = Ref(h, p, k)
  <2>1. <<p, k>>[1] # o
    BY <1>3
  <2>2. <<p, k>> \in DOMAIN g.ref <=> <<p, k>> \in DOMAIN h.ref
    BY <1>2, <2>1
  <2>3. <<p, k>> \in DOMAIN h.ref => g.ref[<<p, k>>] = h.ref[<<p, k>>]
    BY <1>2, <2>1
  <2> HIDE DEF g
  <2> QED
    BY <2>2, <2>3 DEF Ref
<1> QED
  BY <1>2, <1>3

LEMMA ListedGives ==
  ASSUME NEW h, NEW o, NEW left, IsHeap(h)
  PROVE  LET g == [h EXCEPT !.listed = left]
         IN  /\ IsHeap(g) /\ g.listed = left /\ g.faults = h.faults
             /\ \A p, q : Lives(g, p, q) <=> Lives(h, p, q)
             /\ \A p, k : Ref(g, p, k) = Ref(h, p, k)
<1> DEFINE g == [h EXCEPT !.listed = left]
<1>1. g = [live |-> h.live, listed |-> left, ref |-> h.ref, faults |-> h.faults]
  BY DEF IsHeap
<1> HIDE DEF g
<1> QED
  BY <1>1 DEF g, IsHeap, Lives, Ref

------------------------------------------------------------------------------
(* What a step leaves alone: everything about the objects that are not its    *)
(* own, and the faults, but for those that are known.                        *)

Same(h, g, p) ==
  /\ \A part : Lives(g, p, part) <=> Lives(h, p, part)
  /\ p \in g.listed <=> p \in h.listed
  /\ \A k : Ref(g, p, k) = Ref(h, p, k)

Clean(h, g, O) ==
  /\ IsHeap(g) /\ g.faults \subseteq h.faults \cup Harmless
  /\ \A p : p \notin O => Same(h, g, p)

LEMMA CleanSelf ==
  ASSUME NEW h, NEW O, IsHeap(h)
  PROVE  Clean(h, h, O)
BY DEF Clean, Same

LEMMA CleanTwice ==
  ASSUME NEW h, NEW g, NEW k, NEW O, NEW Q, NEW R, Clean(h, g, O), Clean(g, k, Q), O \subseteq R, Q \subseteq R
  PROVE  Clean(h, k, R)
<1>1. IsHeap(k) /\ k.faults \subseteq h.faults \cup Harmless
  BY DEF Clean
<1>2. ASSUME NEW p, p \notin R PROVE Same(h, k, p)
  <2>1. p \notin O /\ p \notin Q
    BY <1>2
  <2>2. Same(h, g, p) /\ Same(g, k, p)
    BY <2>1 DEF Clean
  <2> QED
    BY <2>2 DEF Same
<1> QED
  BY <1>1, <1>2 DEF Clean

(* The steps that everything else is made of, each about one object. *)

Sets(h, g, o, f, t) ==
  /\ o \in g.listed <=> o \in h.listed
  /\ \A part : Lives(g, o, part) <=> Lives(h, o, part)
  /\ \A k : Ref(g, o, k) = IF k = f THEN t ELSE Ref(h, o, k)

Makes(h, g, o, parts) ==
  /\ o \in g.listed <=> o \in h.listed
  /\ \A part : Lives(g, o, part) <=> Lives(h, o, part) \/ part \in parts
  /\ \A k : Ref(g, o, k) = Ref(h, o, k)

Frees(h, g, o, part) ==
  /\ o \in g.listed <=> o \in h.listed
  /\ \A q : Lives(g, o, q) <=> Lives(h, o, q) /\ q # part
  /\ \A k : Ref(g, o, k) = Ref(h, o, k)

Enlists(h, g, o) ==
  /\ o \in g.listed
  /\ \A part : Lives(g, o, part) <=> Lives(h, o, part)
  /\ \A k : Ref(g, o, k) = Ref(h, o, k)

Delists(h, g, o) ==
  /\ o \notin g.listed
  /\ \A part : Lives(g, o, part) <=> Lives(h, o, part)
  /\ \A k : Ref(g, o, k) = Ref(h, o, k)

LEMMA SetStep ==
  ASSUME NEW h, NEW o, NEW f, NEW t, IsHeap(h)
  PROVE  IsHeap(Set(h, o, f, t)) /\ Clean(h, Set(h, o, f, t), {o})
         /\ Sets(h, Set(h, o, f, t), o, f, t)
<1> DEFINE g == Set(h, o, f, t)
<1>1. IsHeap(g) /\ SameBlocks(h, g) /\ \A p, k : Ref(g, p, k) = IF p = o /\ k = f THEN t ELSE Ref(h, p, k)
  BY SetGives
<1> HIDE DEF g
<1>2. Clean(h, g, {o})
  BY <1>1 DEF Clean, Same, SameBlocks, Lives
<1> QED
  BY <1>1, <1>2 DEF g, Sets, SameBlocks, Lives

LEMMA MakeStep ==
  ASSUME NEW h, NEW o, NEW parts, IsHeap(h)
  PROVE  IsHeap(Make(h, o, parts)) /\ Clean(h, Make(h, o, parts), {o})
         /\ Makes(h, Make(h, o, parts), o, parts)
<1> DEFINE g == Make(h, o, parts)
<1>1. /\ IsHeap(g) /\ g.listed = h.listed /\ g.faults = h.faults
      /\ \A p, part : Lives(g, p, part) <=> Lives(h, p, part) \/ (p = o /\ part \in parts)
      /\ \A p, k : Ref(g, p, k) = Ref(h, p, k)
  BY MakeGives
<1> HIDE DEF g
<1>2. Clean(h, g, {o})
  BY <1>1 DEF Clean, Same
<1> QED
  BY <1>1, <1>2 DEF g, Makes

LEMMA FreeIfStep ==
  ASSUME NEW h, NEW o, NEW part, IsHeap(h)
  PROVE  IsHeap(FreeIf(h, o, part)) /\ Clean(h, FreeIf(h, o, part), {o})
         /\ Frees(h, FreeIf(h, o, part), o, part)
<1> DEFINE g == FreeIf(h, o, part)
<1>1. /\ IsHeap(g) /\ g.listed = h.listed /\ g.faults = h.faults
      /\ \A p, q : Lives(g, p, q) <=> Lives(h, p, q) /\ ~(p = o /\ q = part)
      /\ \A p, k : Ref(g, p, k) = Ref(h, p, k)
  BY FreeIfGives
<1> HIDE DEF g
<1>2. Clean(h, g, {o})
  BY <1>1 DEF Clean, Same
<1> QED
  BY <1>1, <1>2 DEF g, Frees

LEMMA FreeStep ==
  ASSUME NEW h, NEW o, NEW part, IsHeap(h), Lives(h, o, part)
  PROVE  IsHeap(Free(h, o, part)) /\ Clean(h, Free(h, o, part), {o})
         /\ Frees(h, Free(h, o, part), o, part)
BY FreeIfStep, FreeGives

LEMMA EnlistStep ==
  ASSUME NEW h, NEW o, IsHeap(h)
  PROVE  IsHeap([h EXCEPT !.listed = @ \cup {o}]) /\ Clean(h, [h EXCEPT !.listed = @ \cup {o}], {o})
         /\ Enlists(h, [h EXCEPT !.listed = @ \cup {o}], o)
<1> DEFINE g == [h EXCEPT !.listed = @ \cup {o}]
<1>0. g = [h EXCEPT !.listed = h.listed \cup {o}]
  BY DEF IsHeap
<1>1. /\ IsHeap(g) /\ g.listed = h.listed \cup {o} /\ g.faults = h.faults
      /\ \A p, q : Lives(g, p, q) <=> Lives(h, p, q)
      /\ \A p, k : Ref(g, p, k) = Ref(h, p, k)
  BY <1>0, ListedGives
<1> HIDE DEF g
<1>2. Clean(h, g, {o})
  BY <1>1 DEF Clean, Same
<1> QED
  BY <1>1, <1>2 DEF g, Enlists

LEMMA DelistStep ==
  ASSUME NEW h, NEW o, IsHeap(h)
  PROVE  IsHeap([h EXCEPT !.listed = @ \ {o}]) /\ Clean(h, [h EXCEPT !.listed = @ \ {o}], {o})
         /\ Delists(h, [h EXCEPT !.listed = @ \ {o}], o)
<1> DEFINE g == [h EXCEPT !.listed = @ \ {o}]
<1>0. g = [h EXCEPT !.listed = h.listed \ {o}]
  BY DEF IsHeap
<1>1. /\ IsHeap(g) /\ g.listed = h.listed \ {o} /\ g.faults = h.faults
      /\ \A p, q : Lives(g, p, q) <=> Lives(h, p, q)
      /\ \A p, k : Ref(g, p, k) = Ref(h, p, k)
  BY <1>0, ListedGives
<1> HIDE DEF g
<1>2. Clean(h, g, {o})
  BY <1>1 DEF Clean, Same
<1> QED
  BY <1>1, <1>2 DEF g, Delists

LEMMA FaultStep ==
  ASSUME NEW h, NEW kind, NEW o, NEW part, IsHeap(h), <<kind, o, part>> \in Harmless
  PROVE  IsHeap(Fault(h, kind, o, part)) /\ Clean(h, Fault(h, kind, o, part), {o})
         /\ Same(h, Fault(h, kind, o, part), o)
<1> DEFINE g == Fault(h, kind, o, part)
<1>1. /\ IsHeap(g) /\ g.listed = h.listed /\ g.faults = h.faults \cup {<<kind, o, part>>}
      /\ \A p, q : Lives(g, p, q) <=> Lives(h, p, q)
      /\ \A p, k : Ref(g, p, k) = Ref(h, p, k)
  BY FaultGives
<1> HIDE DEF g
<1>2. Clean(h, g, {o})
  BY <1>1 DEF Clean, Same
<1> QED
  BY <1>1, <1>2 DEF g, Same

LEMMA CleanThen ==
  ASSUME NEW h, NEW g, NEW k, NEW O, Clean(h, g, O), Clean(g, k, O)
  PROVE  Clean(h, k, O)
BY CleanTwice

LEMMA CleanMore ==
  ASSUME NEW h, NEW g, NEW O, NEW R, Clean(h, g, O), O \subseteq R
  PROVE  Clean(h, g, R)
BY DEF Clean

LEMMA CleanHeap ==
  ASSUME NEW h, NEW g, NEW O, Clean(h, g, O)
  PROVE  IsHeap(g)
BY DEF Clean

TablesUp(h) == Lives(h, Tables, "self") /\ Lives(h, Tables, "media_table")

LEMMA TablesStay ==
  ASSUME NEW h, NEW g, NEW O, Clean(h, g, O), Tables \notin O, TablesUp(h)
  PROVE  TablesUp(g)
BY DEF Clean, Same, TablesUp

(* An object with more parts, other fields than before, and one with fewer. *)

Adds(h, g, o, parts, keys) ==
  /\ \A part : Lives(g, o, part) <=> Lives(h, o, part) \/ part \in parts
  /\ \A k : k \notin keys => Ref(g, o, k) = Ref(h, o, k)

Drops(h, g, o, parts, keys) ==
  /\ o \in g.listed <=> o \in h.listed
  /\ \A part : Lives(g, o, part) <=> Lives(h, o, part) /\ part \notin parts
  /\ \A k : k \notin keys => Ref(g, o, k) = Ref(h, o, k)

------------------------------------------------------------------------------
(* What the constructors make, from the class at the bottom upwards. *)

LEMMA MediumInitGives ==
  ASSUME NEW h, NEW o, IsHeap(h),
         TablesUp(h)
  PROVE  LET g == MediumInit(h, o)
         IN  /\ IsHeap(g) /\ Clean(h, g, {o})
             /\ o \in g.listed
             /\ Adds(h, g, o, {"next_task"}, {"delete"})
<1> DEFINE h1 == Make(h, o, {"next_task"})
           h2 == [h1 EXCEPT !.listed = @ \cup {o}]
           g  == Set(h2, o, "delete", "medium")
<1>0. MediumInit(h, o) = g
  BY DEF MediumInit, OurMedia, TablesUp
<1> HIDE DEF h1, h2, g
<1>1. IsHeap(h1) /\ Clean(h, h1, {o})
      /\ Makes(h, h1, o, {"next_task"})
  BY MakeStep DEF h1
<1>2. IsHeap(h2) /\ Clean(h1, h2, {o})
      /\ Enlists(h1, h2, o)
  BY <1>1, EnlistStep DEF h2
<1>3. IsHeap(g) /\ Clean(h2, g, {o})
      /\ Sets(h2, g, o, "delete", "medium")
  BY <1>2, SetStep DEF g
<1>4. Clean(h, g, {o})
  BY <1>1, <1>2, <1>3, CleanThen
<1> QED
  BY <1>0, <1>1, <1>2, <1>3, <1>4 DEF Adds, Enlists, Makes, Sets

LEMMA FramedSourceInitGives ==
  ASSUME NEW h, NEW o, IsHeap(h),
         TablesUp(h)
  PROVE  LET g == FramedSourceInit(h, o)
         IN  /\ IsHeap(g) /\ Clean(h, g, {o})
             /\ o \in g.listed
             /\ Adds(h, g, o, {"next_task"}, {"delete", "stop"})
<1> DEFINE h1 == MediumInit(h, o)
           h2 == Set(h1, o, "delete", "media_source")
           h3 == Set(h2, o, "stop", "framed_source")
           g  == Set(h3, o, "delete", "framed_source")
<1>0. FramedSourceInit(h, o) = g
  BY DEF FramedSourceInit, MediaSourceInit
<1> HIDE DEF h1, h2, h3, g
<1>1. IsHeap(h1) /\ Clean(h, h1, {o})
      /\ o \in h1.listed /\ Adds(h, h1, o, {"next_task"}, {"delete"})
  BY MediumInitGives DEF h1
<1>2. IsHeap(h2) /\ Clean(h1, h2, {o})
      /\ Sets(h1, h2, o, "delete", "media_source")
  BY <1>1, SetStep DEF h2
<1>3. IsHeap(h3) /\ Clean(h2, h3, {o})
      /\ Sets(h2, h3, o, "stop", "framed_source")
  BY <1>2, SetStep DEF h3
<1>4. IsHeap(g) /\ Clean(h3, g, {o})
      /\ Sets(h3, g, o, "delete", "framed_source")
  BY <1>3, SetStep DEF g
<1>5. Clean(h, g, {o})
  BY <1>1, <1>2, <1>3, <1>4, CleanThen
<1> QED
  BY <1>0, <1>1, <1>2, <1>3, <1>4, <1>5 DEF Adds, Sets

LEMMA NewFileGives ==
  ASSUME NEW h, NEW o, IsHeap(h),
         TablesUp(h),
         o # Tables
  PROVE  LET g == NewByteStreamFileSource(h, o)
         IN  /\ IsHeap(g) /\ Clean(h, g, {o})
             /\ o \in g.listed
             /\ Adds(h, g, o, {"self", "next_task", "fid"}, {"delete", "stop"})
             /\ Ref(g, o, "delete") = "byte_stream" /\ Ref(g, o, "stop") = "byte_stream"
<1> DEFINE h1 == Make(h, o, {"self"})
           h2 == FramedSourceInit(h1, o)
           h3 == Make(h2, o, {"fid"})
           h4 == Set(h3, o, "delete", "framed_file_source")
           h5 == Set(h4, o, "stop", "byte_stream")
           g  == Set(h5, o, "delete", "byte_stream")
<1>0. NewByteStreamFileSource(h, o) = g
  BY DEF NewByteStreamFileSource, ByteStreamFileSourceInit, FramedFileSourceInit, New
<1> HIDE DEF h1, h2, h3, h4, h5, g
<1>1. IsHeap(h1) /\ Clean(h, h1, {o})
      /\ Makes(h, h1, o, {"self"})
  BY MakeStep DEF h1
<1>2. TablesUp(h1)
  BY <1>1, TablesStay
<1>3. IsHeap(h2) /\ Clean(h1, h2, {o})
      /\ o \in h2.listed /\ Adds(h1, h2, o, {"next_task"}, {"delete", "stop"})
  BY <1>1, <1>2, FramedSourceInitGives DEF h2
<1>4. IsHeap(h3) /\ Clean(h2, h3, {o})
      /\ Makes(h2, h3, o, {"fid"})
  BY <1>3, MakeStep DEF h3
<1>5. IsHeap(h4) /\ Clean(h3, h4, {o})
      /\ Sets(h3, h4, o, "delete", "framed_file_source")
  BY <1>4, SetStep DEF h4
<1>6. IsHeap(h5) /\ Clean(h4, h5, {o})
      /\ Sets(h4, h5, o, "stop", "byte_stream")
  BY <1>5, SetStep DEF h5
<1>7. IsHeap(g) /\ Clean(h5, g, {o})
      /\ Sets(h5, g, o, "delete", "byte_stream")
  BY <1>6, SetStep DEF g
<1>8. Clean(h, g, {o})
  BY <1>1, <1>3, <1>4, <1>5, <1>6, <1>7, CleanThen
<1> QED
  BY <1>0, <1>1, <1>3, <1>4, <1>5, <1>6, <1>7, <1>8 DEF Adds, Makes, Sets

LEMMA FramedFilterInitGives ==
  ASSUME NEW h, NEW o, NEW input, IsHeap(h),
         TablesUp(h)
  PROVE  LET g == FramedFilterInit(h, o, input)
         IN  /\ IsHeap(g) /\ Clean(h, g, {o})
             /\ o \in g.listed
             /\ Adds(h, g, o, {"next_task"}, {"delete", "stop", "input_source"})
             /\ Ref(g, o, "input_source") = input
<1> DEFINE h1 == FramedSourceInit(h, o)
           h2 == Set(h1, o, "input_source", input)
           h3 == Set(h2, o, "stop", "framed_filter")
           g  == Set(h3, o, "delete", "framed_filter")
<1>0. FramedFilterInit(h, o, input) = g
  BY DEF FramedFilterInit
<1> HIDE DEF h1, h2, h3, g
<1>1. IsHeap(h1) /\ Clean(h, h1, {o})
      /\ o \in h1.listed /\ Adds(h, h1, o, {"next_task"}, {"delete", "stop"})
  BY FramedSourceInitGives DEF h1
<1>2. IsHeap(h2) /\ Clean(h1, h2, {o})
      /\ Sets(h1, h2, o, "input_source", input)
  BY <1>1, SetStep DEF h2
<1>3. IsHeap(h3) /\ Clean(h2, h3, {o})
      /\ Sets(h2, h3, o, "stop", "framed_filter")
  BY <1>2, SetStep DEF h3
<1>4. IsHeap(g) /\ Clean(h3, g, {o})
      /\ Sets(h3, g, o, "delete", "framed_filter")
  BY <1>3, SetStep DEF g
<1>5. Clean(h, g, {o})
  BY <1>1, <1>2, <1>3, <1>4, CleanThen
<1> QED
  BY <1>0, <1>1, <1>2, <1>3, <1>4, <1>5 DEF Adds, Sets

LEMMA NewParserGives ==
  ASSUME NEW h, NEW o, IsHeap(h)
  PROVE  LET g == NewH264or5VideoStreamParser(h, o)
         IN  /\ IsHeap(g) /\ Clean(h, g, {o})
             /\ o \in g.listed <=> o \in h.listed
             /\ Adds(h, g, o, {"self", "bank0", "bank1"}, {"delete"})
<1> DEFINE h1 == Make(h, o, {"self"})
           h2 == Make(h1, o, {"bank0", "bank1"})
           h3 == Set(h2, o, "delete", "stream_parser")
           h4 == Set(h3, o, "delete", "mpeg_parser")
           g  == Set(h4, o, "delete", "h264or5_parser")
<1>0. NewH264or5VideoStreamParser(h, o) = g
  BY DEF NewH264or5VideoStreamParser, H264or5VideoStreamParserInit, MpegVideoStreamParserInit, StreamParserInit, New
<1> HIDE DEF h1, h2, h3, h4, g
<1>1. IsHeap(h1) /\ Clean(h, h1, {o})
      /\ Makes(h, h1, o, {"self"})
  BY MakeStep DEF h1
<1>2. IsHeap(h2) /\ Clean(h1, h2, {o})
      /\ Makes(h1, h2, o, {"bank0", "bank1"})
  BY <1>1, MakeStep DEF h2
<1>3. IsHeap(h3) /\ Clean(h2, h3, {o})
      /\ Sets(h2, h3, o, "delete", "stream_parser")
  BY <1>2, SetStep DEF h3
<1>4. IsHeap(h4) /\ Clean(h3, h4, {o})
      /\ Sets(h3, h4, o, "delete", "mpeg_parser")
  BY <1>3, SetStep DEF h4
<1>5. IsHeap(g) /\ Clean(h4, g, {o})
      /\ Sets(h4, g, o, "delete", "h264or5_parser")
  BY <1>4, SetStep DEF g
<1>6. Clean(h, g, {o})
  BY <1>1, <1>2, <1>3, <1>4, <1>5, CleanThen
<1> QED
  BY <1>0, <1>1, <1>2, <1>3, <1>4, <1>5, <1>6 DEF Adds, Makes, Sets

LEMMA NewFragmenterGives ==
  ASSUME NEW h, NEW o, NEW input, IsHeap(h),
         TablesUp(h),
         o # Tables
  PROVE  LET g == NewFragmenter(h, o, input)
         IN  /\ IsHeap(g) /\ Clean(h, g, {o})
             /\ o \in g.listed
             /\ Adds(h, g, o, {"self", "next_task", "input_buffer"}, {"delete", "stop", "input_source"})
             /\ Ref(g, o, "delete") = "fragmenter" /\ Ref(g, o, "stop") = "fragmenter"
             /\ Ref(g, o, "input_source") = input
<1> DEFINE h1 == Make(h, o, {"self"})
           h2 == FramedFilterInit(h1, o, input)
           h3 == Make(h2, o, {"input_buffer"})
           h4 == Set(h3, o, "stop", "fragmenter")
           g  == Set(h4, o, "delete", "fragmenter")
<1>0. NewFragmenter(h, o, input) = g
  BY DEF NewFragmenter, FragmenterInit, New
<1> HIDE DEF h1, h2, h3, h4, g
<1>1. IsHeap(h1) /\ Clean(h, h1, {o})
      /\ Makes(h, h1, o, {"self"})
  BY MakeStep DEF h1
<1>2. TablesUp(h1)
  BY <1>1, TablesStay
<1>3. IsHeap(h2) /\ Clean(h1, h2, {o})
      /\ o \in h2.listed /\ Ref(h2, o, "input_source") = input
      /\ Adds(h1, h2, o, {"next_task"}, {"delete", "stop", "input_source"})
  BY <1>1, <1>2, FramedFilterInitGives DEF h2
<1>4. IsHeap(h3) /\ Clean(h2, h3, {o})
      /\ Makes(h2, h3, o, {"input_buffer"})
  BY <1>3, MakeStep DEF h3
<1>5. IsHeap(h4) /\ Clean(h3, h4, {o})
      /\ Sets(h3, h4, o, "stop", "fragmenter")
  BY <1>4, SetStep DEF h4
<1>6. IsHeap(g) /\ Clean(h4, g, {o})
      /\ Sets(h4, g, o, "delete", "fragmenter")
  BY <1>5, SetStep DEF g
<1>7. Clean(h, g, {o})
  BY <1>1, <1>3, <1>4, <1>5, <1>6, CleanThen
<1> QED
  BY <1>0, <1>1, <1>3, <1>4, <1>5, <1>6, <1>7 DEF Adds, Makes, Sets

LEMMA MpegFramerInitGives ==
  ASSUME NEW h, NEW o, NEW input, IsHeap(h),
         TablesUp(h)
  PROVE  LET g == MpegVideoStreamFramerInit(h, o, input)
         IN  /\ IsHeap(g) /\ Clean(h, g, {o})
             /\ o \in g.listed
             /\ Adds(h, g, o, {"next_task"}, {"delete", "stop", "input_source", "parser"})
             /\ Ref(g, o, "stop") = "mpeg_framer" /\ Ref(g, o, "input_source") = input
<1> DEFINE h1 == FramedFilterInit(h, o, input)
           h2 == Set(h1, o, "parser", Null)
           h3 == Set(h2, o, "stop", "mpeg_framer")
           g  == Set(h3, o, "delete", "mpeg_framer")
<1>0. MpegVideoStreamFramerInit(h, o, input) = g
  BY DEF MpegVideoStreamFramerInit
<1> HIDE DEF h1, h2, h3, g
<1>1. IsHeap(h1) /\ Clean(h, h1, {o})
      /\ o \in h1.listed /\ Ref(h1, o, "input_source") = input
      /\ Adds(h, h1, o, {"next_task"}, {"delete", "stop", "input_source"})
  BY FramedFilterInitGives DEF h1
<1>2. IsHeap(h2) /\ Clean(h1, h2, {o})
      /\ Sets(h1, h2, o, "parser", Null)
  BY <1>1, SetStep DEF h2
<1>3. IsHeap(h3) /\ Clean(h2, h3, {o})
      /\ Sets(h2, h3, o, "stop", "mpeg_framer")
  BY <1>2, SetStep DEF h3
<1>4. IsHeap(g) /\ Clean(h3, g, {o})
      /\ Sets(h3, g, o, "delete", "mpeg_framer")
  BY <1>3, SetStep DEF g
<1>5. Clean(h, g, {o})
  BY <1>1, <1>2, <1>3, <1>4, CleanThen
<1> QED
  BY <1>0, <1>1, <1>2, <1>3, <1>4, <1>5 DEF Adds, Sets

LEMMA NewMpegFramerGives ==
  ASSUME NEW h, NEW o, NEW input, IsHeap(h),
         TablesUp(h),
         o # Tables
  PROVE  LET g == MpegVideoStreamFramerInit(New(h, o), o, input)
         IN  /\ IsHeap(g) /\ Clean(h, g, {o})
             /\ o \in g.listed
             /\ Adds(h, g, o, {"self", "next_task"}, {"delete", "stop", "input_source", "parser"})
             /\ Ref(g, o, "stop") = "mpeg_framer" /\ Ref(g, o, "input_source") = input
<1> DEFINE h1 == Make(h, o, {"self"})
           g  == MpegVideoStreamFramerInit(h1, o, input)
<1>0. MpegVideoStreamFramerInit(New(h, o), o, input) = g
  BY DEF New
<1> HIDE DEF h1, g
<1>1. IsHeap(h1) /\ Clean(h, h1, {o})
      /\ Makes(h, h1, o, {"self"})
  BY MakeStep DEF h1
<1>2. TablesUp(h1)
  BY <1>1, TablesStay
<1>3. IsHeap(g) /\ Clean(h1, g, {o})
      /\ o \in g.listed /\ Ref(g, o, "stop") = "mpeg_framer" /\ Ref(g, o, "input_source") = input
      /\ Adds(h1, g, o, {"next_task"}, {"delete", "stop", "input_source", "parser"})
  BY <1>1, <1>2, MpegFramerInitGives DEF g
<1>4. Clean(h, g, {o})
  BY <1>1, <1>3, CleanThen
<1> QED
  BY <1>0, <1>1, <1>3, <1>4 DEF Adds, Makes

LEMMA FramerTailGives ==
  ASSUME NEW h, NEW o, NEW parser, IsHeap(h)
  PROVE  LET g == Set(Set(Set(h, o, "parser", parser), o, "delete", "h264or5_framer"), o, "delete", "h264_framer")
         IN  /\ IsHeap(g) /\ Clean(h, g, {o})
             /\ o \in g.listed <=> o \in h.listed
             /\ Adds(h, g, o, {}, {"delete", "parser"})
             /\ Ref(g, o, "parser") = parser /\ Ref(g, o, "delete") = "h264_framer"
<1> DEFINE h1 == Set(h, o, "parser", parser)
           h2 == Set(h1, o, "delete", "h264or5_framer")
           g  == Set(h2, o, "delete", "h264_framer")
<1>0. Set(Set(Set(h, o, "parser", parser), o, "delete", "h264or5_framer"), o, "delete", "h264_framer") = g
  OBVIOUS
<1> HIDE DEF h1, h2, g
<1>1. IsHeap(h1) /\ Clean(h, h1, {o})
      /\ Sets(h, h1, o, "parser", parser)
  BY SetStep DEF h1
<1>2. IsHeap(h2) /\ Clean(h1, h2, {o})
      /\ Sets(h1, h2, o, "delete", "h264or5_framer")
  BY <1>1, SetStep DEF h2
<1>3. IsHeap(g) /\ Clean(h2, g, {o})
      /\ Sets(h2, g, o, "delete", "h264_framer")
  BY <1>2, SetStep DEF g
<1>4. Clean(h, g, {o})
  BY <1>1, <1>2, <1>3, CleanThen
<1> QED
  BY <1>0, <1>1, <1>2, <1>3, <1>4 DEF Adds, Sets

LEMMA NewFramerGives ==
  ASSUME NEW h, NEW o, NEW input, NEW parser, IsHeap(h), TablesUp(h), o # Tables, parser # o
  PROVE  LET g == NewH264VideoStreamFramer(h, o, input, parser)
         IN  /\ IsHeap(g) /\ Clean(h, g, {o, parser})
             /\ o \in g.listed /\ (parser \in g.listed <=> parser \in h.listed)
             /\ Adds(h, g, o, {"self", "next_task"}, {"delete", "stop", "input_source", "parser"})
             /\ Adds(h, g, parser, {"self", "bank0", "bank1"}, {"delete"})
             /\ Ref(g, o, "stop") = "mpeg_framer" /\ Ref(g, o, "input_source") = input
             /\ Ref(g, o, "parser") = parser /\ Ref(g, o, "delete") = "h264_framer"
<1> DEFINE h1 == MpegVideoStreamFramerInit(New(h, o), o, input)
           h2 == NewH264or5VideoStreamParser(h1, parser)
           g  == Set(Set(Set(h2, o, "parser", parser), o, "delete", "h264or5_framer"), o, "delete", "h264_framer")
<1>0. NewH264VideoStreamFramer(h, o, input, parser) = g
  BY DEF NewH264VideoStreamFramer, H264VideoStreamFramerInit, H264or5VideoStreamFramerInit
<1> HIDE DEF h1, h2, g
<1>1. IsHeap(h1) /\ Clean(h, h1, {o})
      /\ o \in h1.listed /\ Ref(h1, o, "stop") = "mpeg_framer" /\ Ref(h1, o, "input_source") = input
      /\ Adds(h, h1, o, {"self", "next_task"}, {"delete", "stop", "input_source", "parser"})
  BY NewMpegFramerGives DEF h1
<1>2. IsHeap(h2) /\ Clean(h1, h2, {parser})
      /\ (parser \in h2.listed <=> parser \in h1.listed)
      /\ Adds(h1, h2, parser, {"self", "bank0", "bank1"}, {"delete"})
  BY <1>1, NewParserGives DEF h2
<1>3. IsHeap(g) /\ Clean(h2, g, {o})
      /\ (o \in g.listed <=> o \in h2.listed) /\ Adds(h2, g, o, {}, {"delete", "parser"})
      /\ Ref(g, o, "parser") = parser /\ Ref(g, o, "delete") = "h264_framer"
  BY <1>2, FramerTailGives, SMTT(30) DEF g
<1>4. Same(h, h1, parser) /\ Same(h1, h2, o) /\ Same(h2, g, parser)
  BY <1>1, <1>2, <1>3 DEF Clean
<1>5. Clean(h, h1, {o, parser}) /\ Clean(h1, h2, {o, parser}) /\ Clean(h2, g, {o, parser})
  BY <1>1, <1>2, <1>3, CleanMore
<1>6. Clean(h, g, {o, parser})
  BY <1>5, CleanThen
<1>7. Adds(h, g, o, {"self", "next_task"}, {"delete", "stop", "input_source", "parser"})
  BY <1>1, <1>3, <1>4 DEF Same, Adds
<1>8. Adds(h, g, parser, {"self", "bank0", "bank1"}, {"delete"})
  BY <1>2, <1>4 DEF Same, Adds
<1> QED
  BY <1>0, <1>1, <1>2, <1>3, <1>4, <1>6, <1>7, <1>8 DEF Same, Adds

LEMMA MediaSinkInitGives ==
  ASSUME NEW h, NEW o, IsHeap(h),
         TablesUp(h)
  PROVE  LET g == MediaSinkInit(h, o)
         IN  /\ IsHeap(g) /\ Clean(h, g, {o})
             /\ o \in g.listed
             /\ Adds(h, g, o, {"next_task"}, {"delete", "source", "stop_playing"})
             /\ Ref(g, o, "source") = Null
<1> DEFINE h1 == MediumInit(h, o)
           h2 == Set(h1, o, "source", Null)
           h3 == Set(h2, o, "stop_playing", "media_sink")
           g  == Set(h3, o, "delete", "media_sink")
<1>0. MediaSinkInit(h, o) = g
  BY DEF MediaSinkInit
<1> HIDE DEF h1, h2, h3, g
<1>1. IsHeap(h1) /\ Clean(h, h1, {o})
      /\ o \in h1.listed /\ Adds(h, h1, o, {"next_task"}, {"delete"})
  BY MediumInitGives DEF h1
<1>2. IsHeap(h2) /\ Clean(h1, h2, {o})
      /\ Sets(h1, h2, o, "source", Null)
  BY <1>1, SetStep DEF h2
<1>3. IsHeap(h3) /\ Clean(h2, h3, {o})
      /\ Sets(h2, h3, o, "stop_playing", "media_sink")
  BY <1>2, SetStep DEF h3
<1>4. IsHeap(g) /\ Clean(h3, g, {o})
      /\ Sets(h3, g, o, "delete", "media_sink")
  BY <1>3, SetStep DEF g
<1>5. Clean(h, g, {o})
  BY <1>1, <1>2, <1>3, <1>4, CleanThen
<1> QED
  BY <1>0, <1>1, <1>2, <1>3, <1>4, <1>5 DEF Adds, Sets

LEMMA RtpInterfaceInitGives ==
  ASSUME NEW h, NEW o, NEW gs, IsHeap(h),
         Lives(h, gs, "self")
  PROVE  LET g == RtpInterfaceInit(h, o, gs)
         IN  /\ IsHeap(g) /\ Clean(h, g, {o})
             /\ o \in g.listed <=> o \in h.listed
             /\ Adds(h, g, o, {"poll_handle", "poll_data"}, {"gs"})
             /\ Ref(g, o, "gs") = gs
<1> DEFINE h1 == Make(h, o, {"poll_handle", "poll_data"})
           g  == Set(h1, o, "gs", gs)
<1>0. RtpInterfaceInit(h, o, gs) = g
  BY TouchGives DEF RtpInterfaceInit
<1> HIDE DEF h1, g
<1>1. IsHeap(h1) /\ Clean(h, h1, {o})
      /\ Makes(h, h1, o, {"poll_handle", "poll_data"})
  BY MakeStep DEF h1
<1>2. IsHeap(g) /\ Clean(h1, g, {o})
      /\ Sets(h1, g, o, "gs", gs)
  BY <1>1, SetStep DEF g
<1>3. Clean(h, g, {o})
  BY <1>1, <1>2, CleanThen
<1> QED
  BY <1>0, <1>1, <1>2, <1>3 DEF Adds, Makes, Sets

LEMMA RtpSinkInitGives ==
  ASSUME NEW h, NEW o, NEW gs, IsHeap(h),
         TablesUp(h),
         Lives(h, gs, "self"),
         gs # o
  PROVE  LET g == RtpSinkInit(h, o, gs)
         IN  /\ IsHeap(g) /\ Clean(h, g, {o})
             /\ o \in g.listed
             /\ Adds(h, g, o, {"next_task", "rtp_interface", "poll_handle", "poll_data", "format_name", "stats_db", "stats_db.table"},
                        {"delete", "source", "stop_playing", "gs"})
             /\ Ref(g, o, "source") = Null /\ Ref(g, o, "gs") = gs
<1> DEFINE h1 == MediaSinkInit(h, o)
           h2 == Make(h1, o, {"rtp_interface"})
           h3 == RtpInterfaceInit(h2, o, gs)
           h4 == Make(h3, o, {"format_name"})
           h5 == Make(h4, o, {"stats_db", "stats_db.table"})
           g  == Set(h5, o, "delete", "rtp_sink")
<1>0. RtpSinkInit(h, o, gs) = g
  BY DEF RtpSinkInit, NewRtpInterface, NewTransmissionStatsDb
<1> HIDE DEF h1, h2, h3, h4, h5, g
<1>1. IsHeap(h1) /\ Clean(h, h1, {o})
      /\ o \in h1.listed /\ Ref(h1, o, "source") = Null
      /\ Adds(h, h1, o, {"next_task"}, {"delete", "source", "stop_playing"})
  BY MediaSinkInitGives DEF h1
<1>2. IsHeap(h2) /\ Clean(h1, h2, {o})
      /\ Makes(h1, h2, o, {"rtp_interface"})
  BY <1>1, MakeStep DEF h2
<1>3. Lives(h2, gs, "self")
  BY <1>1, <1>2 DEF Adds, Clean, Makes, Same
<1>4. IsHeap(h3) /\ Clean(h2, h3, {o})
      /\ (o \in h3.listed <=> o \in h2.listed) /\ Ref(h3, o, "gs") = gs
      /\ Adds(h2, h3, o, {"poll_handle", "poll_data"}, {"gs"})
  BY <1>2, <1>3, RtpInterfaceInitGives DEF h3
<1>5. IsHeap(h4) /\ Clean(h3, h4, {o})
      /\ Makes(h3, h4, o, {"format_name"})
  BY <1>4, MakeStep DEF h4
<1>6. IsHeap(h5) /\ Clean(h4, h5, {o})
      /\ Makes(h4, h5, o, {"stats_db", "stats_db.table"})
  BY <1>5, MakeStep DEF h5
<1>7. IsHeap(g) /\ Clean(h5, g, {o})
      /\ Sets(h5, g, o, "delete", "rtp_sink")
  BY <1>6, SetStep DEF g
<1>8. Clean(h, g, {o})
  BY <1>1, <1>2, <1>4, <1>5, <1>6, <1>7, CleanThen
<1> QED
  BY <1>0, <1>1, <1>2, <1>4, <1>5, <1>6, <1>7, <1>8 DEF Adds, Makes, Sets

LEMMA SetPacketSizesGives ==
  ASSUME NEW h, NEW o, IsHeap(h)
  PROVE  LET g == SetPacketSizes(h, o)
         IN  /\ IsHeap(g) /\ Clean(h, g, {o})
             /\ o \in g.listed <=> o \in h.listed
             /\ Adds(h, g, o, {"out_buf", "out_buf.buf"}, {})
<1> DEFINE h1 == DeleteOutPacketBuffer(h, o)
           g  == Make(h1, o, {"out_buf", "out_buf.buf"})
<1>0. SetPacketSizes(h, o) = g
  BY DEF SetPacketSizes, NewOutPacketBuffer
<1>1. /\ IsHeap(h1) /\ Clean(h, h1, {o}) /\ (o \in h1.listed <=> o \in h.listed)
      /\ \A part : part \notin {"out_buf", "out_buf.buf"} => (Lives(h1, o, part) <=> Lives(h, o, part))
      /\ \A k : Ref(h1, o, k) = Ref(h, o, k)
  <2>1. CASE ~Lives(h, o, "out_buf")
    BY <2>1, CleanSelf DEF DeleteOutPacketBuffer
  <2>2. CASE Lives(h, o, "out_buf")
    <3> DEFINE k1 == FreeIf(h, o, "out_buf.buf")
    <3>1. h1 = Free(k1, o, "out_buf")
      BY <2>2 DEF DeleteOutPacketBuffer
    <3> HIDE DEF h1, k1
    <3>2. IsHeap(k1) /\ Clean(h, k1, {o}) /\ Frees(h, k1, o, "out_buf.buf")
      BY FreeIfStep DEF k1
    <3>3. Lives(k1, o, "out_buf")
      BY <2>2, <3>2 DEF Frees
    <3>4. IsHeap(h1) /\ Clean(k1, h1, {o}) /\ Frees(k1, h1, o, "out_buf")
      BY <3>1, <3>2, <3>3, FreeStep
    <3>5. Clean(h, h1, {o})
      BY <3>2, <3>4, CleanThen
    <3> QED
      BY <3>2, <3>4, <3>5 DEF Frees
  <2> QED
    BY <2>1, <2>2
<1> HIDE DEF h1, g
<1>2. IsHeap(g) /\ Clean(h1, g, {o}) /\ Makes(h1, g, o, {"out_buf", "out_buf.buf"})
  BY <1>1, MakeStep DEF g
<1>3. Clean(h, g, {o})
  BY <1>1, <1>2, CleanThen
<1> QED
  BY <1>0, <1>1, <1>2, <1>3 DEF Makes, Adds

(* What a sink is made of. *)
SinkParts ==
  {"self", "next_task", "rtp_interface", "poll_handle", "poll_data", "format_name",
   "stats_db", "stats_db.table", "out_buf", "out_buf.buf"}
SinkFields == {"delete", "source", "stop_playing", "gs", "our_fragmenter"}

SinkMade(h, g, o, gs, sets) ==
  /\ o \in g.listed /\ Adds(h, g, o, SinkParts \cup sets, SinkFields)
  /\ Ref(g, o, "source") = Null /\ Ref(g, o, "gs") = gs /\ Ref(g, o, "our_fragmenter") = Null
  /\ Ref(g, o, "delete") = "h264_rtp_sink" /\ Ref(g, o, "stop_playing") = "multi_framed"

LEMMA NewSinkGives ==
  ASSUME NEW h, NEW o, NEW gs, NEW given_sets, IsHeap(h),
         TablesUp(h),
         Lives(h, gs, "self"),
         gs # o,
         o # Tables
  PROVE  LET g == NewH264VideoRtpSink(h, o, gs, given_sets)
         IN  IsHeap(g) /\ Clean(h, g, {o}) /\ SinkMade(h, g, o, gs, given_sets)
<1> DEFINE h1 == Make(h, o, {"self"})
           h2 == RtpSinkInit(h1, o, gs)
           h3 == SetPacketSizes(h2, o)
           h4 == Set(h3, o, "stop_playing", "multi_framed")
           h5 == Set(h4, o, "delete", "multi_framed")
           h6 == Set(h5, o, "delete", "video_rtp_sink")
           h7 == Make(h6, o, given_sets)
           h8 == Set(h7, o, "our_fragmenter", Null)
           h9 == Set(h8, o, "delete", "h264or5_rtp_sink")
           g  == Set(h9, o, "delete", "h264_rtp_sink")
<1>0. NewH264VideoRtpSink(h, o, gs, given_sets) = g
  BY DEF NewH264VideoRtpSink, H264VideoRtpSinkInit, H264or5VideoRtpSinkInit, VideoRtpSinkInit, MultiFramedRtpSinkInit, New
<1> HIDE DEF h1, h2, h3, h4, h5, h6, h7, h8, h9, g
<1>1. IsHeap(h1) /\ Clean(h, h1, {o})
      /\ Makes(h, h1, o, {"self"})
  BY MakeStep DEF h1
<1>2. TablesUp(h1)
  BY <1>1, TablesStay
<1>3. Lives(h1, gs, "self")
  BY <1>1 DEF Clean, Makes, Same
<1>4. IsHeap(h2) /\ Clean(h1, h2, {o})
      /\ o \in h2.listed /\ Ref(h2, o, "source") = Null /\ Ref(h2, o, "gs") = gs
      /\ Adds(h1, h2, o, {"next_task", "rtp_interface", "poll_handle", "poll_data", "format_name", "stats_db", "stats_db.table"},
                        {"delete", "source", "stop_playing", "gs"})
  BY <1>1, <1>2, <1>3, RtpSinkInitGives DEF h2
<1>5. IsHeap(h3) /\ Clean(h2, h3, {o})
      /\ (o \in h3.listed <=> o \in h2.listed) /\ Adds(h2, h3, o, {"out_buf", "out_buf.buf"}, {})
  BY <1>4, SetPacketSizesGives DEF h3
<1>6. IsHeap(h4) /\ Clean(h3, h4, {o})
      /\ Sets(h3, h4, o, "stop_playing", "multi_framed")
  BY <1>5, SetStep DEF h4
<1>7. IsHeap(h5) /\ Clean(h4, h5, {o})
      /\ Sets(h4, h5, o, "delete", "multi_framed")
  BY <1>6, SetStep DEF h5
<1>8. IsHeap(h6) /\ Clean(h5, h6, {o})
      /\ Sets(h5, h6, o, "delete", "video_rtp_sink")
  BY <1>7, SetStep DEF h6
<1>9. IsHeap(h7) /\ Clean(h6, h7, {o})
      /\ Makes(h6, h7, o, given_sets)
  BY <1>8, MakeStep DEF h7
<1>10. IsHeap(h8) /\ Clean(h7, h8, {o})
      /\ Sets(h7, h8, o, "our_fragmenter", Null)
  BY <1>9, SetStep DEF h8
<1>11. IsHeap(h9) /\ Clean(h8, h9, {o})
      /\ Sets(h8, h9, o, "delete", "h264or5_rtp_sink")
  BY <1>10, SetStep DEF h9
<1>12. IsHeap(g) /\ Clean(h9, g, {o})
      /\ Sets(h9, g, o, "delete", "h264_rtp_sink")
  BY <1>11, SetStep DEF g
<1>13. Clean(h, g, {o})
  BY <1>1, <1>4, <1>5, <1>6, <1>7, <1>8, <1>9, <1>10, <1>11, <1>12, CleanThen
<1> QED
  BY <1>0, <1>1, <1>4, <1>5, <1>6, <1>7, <1>8, <1>9, <1>10, <1>11, <1>12, <1>13 DEF Adds, Makes, Sets, SinkFields, SinkParts, SinkMade

(* What an RTCP instance is made of. *)
RtcpParts ==
  {"self", "next_task", "poll_handle", "poll_data", "known_members", "known_members.table",
   "in_buf", "out_buf", "out_buf.buf"}

LEMMA NewRtcpGives ==
  ASSUME NEW h, NEW o, NEW gs, NEW sink, IsHeap(h),
         TablesUp(h),
         Lives(h, gs, "self"),
         gs # o,
         o # Tables
  PROVE  LET g == NewRtcpInstance(h, o, gs, sink)
         IN  /\ IsHeap(g) /\ Clean(h, g, {o})
             /\ o \in g.listed
             /\ Adds(h, g, o, RtcpParts, {"delete", "gs", "sink"})
             /\ Ref(g, o, "gs") = gs /\ Ref(g, o, "delete") = "rtcp_instance"
<1> DEFINE h1 == Make(h, o, {"self"})
           h2 == MediumInit(h1, o)
           h3 == RtpInterfaceInit(h2, o, gs)
           h4 == Make(h3, o, {"known_members", "known_members.table"})
           h5 == Make(h4, o, {"in_buf"})
           h6 == Make(h5, o, {"out_buf", "out_buf.buf"})
           h7 == Set(h6, o, "sink", sink)
           g  == Set(h7, o, "delete", "rtcp_instance")
<1>0. NewRtcpInstance(h, o, gs, sink) = g
  BY DEF NewRtcpInstance, RtcpInstanceInit, NewRtcpMemberDatabase, NewOutPacketBuffer, New
<1> HIDE DEF h1, h2, h3, h4, h5, h6, h7, g
<1>1. IsHeap(h1) /\ Clean(h, h1, {o})
      /\ Makes(h, h1, o, {"self"})
  BY MakeStep DEF h1
<1>2. TablesUp(h1)
  BY <1>1, TablesStay
<1>3. IsHeap(h2) /\ Clean(h1, h2, {o})
      /\ o \in h2.listed /\ Adds(h1, h2, o, {"next_task"}, {"delete"})
  BY <1>1, <1>2, MediumInitGives DEF h2
<1>4. Lives(h2, gs, "self")
  BY <1>1, <1>3 DEF Adds, Clean, Makes, Same
<1>5. IsHeap(h3) /\ Clean(h2, h3, {o})
      /\ (o \in h3.listed <=> o \in h2.listed) /\ Ref(h3, o, "gs") = gs
      /\ Adds(h2, h3, o, {"poll_handle", "poll_data"}, {"gs"})
  BY <1>3, <1>4, RtpInterfaceInitGives DEF h3
<1>6. IsHeap(h4) /\ Clean(h3, h4, {o})
      /\ Makes(h3, h4, o, {"known_members", "known_members.table"})
  BY <1>5, MakeStep DEF h4
<1>7. IsHeap(h5) /\ Clean(h4, h5, {o})
      /\ Makes(h4, h5, o, {"in_buf"})
  BY <1>6, MakeStep DEF h5
<1>8. IsHeap(h6) /\ Clean(h5, h6, {o})
      /\ Makes(h5, h6, o, {"out_buf", "out_buf.buf"})
  BY <1>7, MakeStep DEF h6
<1>9. IsHeap(h7) /\ Clean(h6, h7, {o})
      /\ Sets(h6, h7, o, "sink", sink)
  BY <1>8, SetStep DEF h7
<1>10. IsHeap(g) /\ Clean(h7, g, {o})
      /\ Sets(h7, g, o, "delete", "rtcp_instance")
  BY <1>9, SetStep DEF g
<1>11. Clean(h, g, {o})
  BY <1>1, <1>3, <1>5, <1>6, <1>7, <1>8, <1>9, <1>10, CleanThen
<1> QED
  BY <1>0, <1>1, <1>3, <1>5, <1>6, <1>7, <1>8, <1>9, <1>10, <1>11 DEF Adds, Makes, RtcpParts, Sets

SubsessionParts == {"self", "next_task", "destination_hash_table", "file_name"}

LEMMA NewSubsessionGives ==
  ASSUME NEW h, NEW o, IsHeap(h),
         TablesUp(h),
         o # Tables
  PROVE  LET g == NewH264FileSubsession(h, o)
         IN  /\ IsHeap(g) /\ Clean(h, g, {o})
             /\ o \in g.listed
             /\ Adds(h, g, o, SubsessionParts, {"delete", "next", "parent_session", "dummy_rtp_sink"})
             /\ Ref(g, o, "next") = Null /\ Ref(g, o, "parent_session") = Null /\ Ref(g, o, "delete") = "h264_subsession"
<1> DEFINE h1  == Make(h, o, {"self"})
           h2  == MediumInit(h1, o)
           h3  == Set(h2, o, "next", Null)
           h4  == Set(h3, o, "parent_session", Null)
           h5  == Set(h4, o, "delete", "server_media_subsession")
           h6  == Make(h5, o, {"destination_hash_table"})
           h7  == Set(h6, o, "delete", "on_demand")
           h8  == Make(h7, o, {"file_name"})
           h9  == Set(h8, o, "delete", "file_subsession")
           h10 == Set(h9, o, "delete", "h264_subsession")
           g   == Set(h10, o, "dummy_rtp_sink", Null)
<1>0. NewH264FileSubsession(h, o) = g
  BY DEF NewH264FileSubsession, H264FileSubsessionInit, FileSubsessionInit, OnDemandSubsessionInit, ServerMediaSubsessionInit, New
<1> HIDE DEF h1, h2, h3, h4, h5, h6, h7, h8, h9, h10, g
<1>1. IsHeap(h1) /\ Clean(h, h1, {o})
      /\ Makes(h, h1, o, {"self"})
  BY MakeStep DEF h1
<1>2. TablesUp(h1)
  BY <1>1, TablesStay
<1>3. IsHeap(h2) /\ Clean(h1, h2, {o})
      /\ o \in h2.listed /\ Adds(h1, h2, o, {"next_task"}, {"delete"})
  BY <1>1, <1>2, MediumInitGives DEF h2
<1>4. IsHeap(h3) /\ Clean(h2, h3, {o})
      /\ Sets(h2, h3, o, "next", Null)
  BY <1>3, SetStep DEF h3
<1>5. IsHeap(h4) /\ Clean(h3, h4, {o})
      /\ Sets(h3, h4, o, "parent_session", Null)
  BY <1>4, SetStep DEF h4
<1>6. IsHeap(h5) /\ Clean(h4, h5, {o})
      /\ Sets(h4, h5, o, "delete", "server_media_subsession")
  BY <1>5, SetStep DEF h5
<1>7. IsHeap(h6) /\ Clean(h5, h6, {o})
      /\ Makes(h5, h6, o, {"destination_hash_table"})
  BY <1>6, MakeStep DEF h6
<1>8. IsHeap(h7) /\ Clean(h6, h7, {o})
      /\ Sets(h6, h7, o, "delete", "on_demand")
  BY <1>7, SetStep DEF h7
<1>9. IsHeap(h8) /\ Clean(h7, h8, {o})
      /\ Makes(h7, h8, o, {"file_name"})
  BY <1>8, MakeStep DEF h8
<1>10. IsHeap(h9) /\ Clean(h8, h9, {o})
      /\ Sets(h8, h9, o, "delete", "file_subsession")
  BY <1>9, SetStep DEF h9
<1>11. IsHeap(h10) /\ Clean(h9, h10, {o})
      /\ Sets(h9, h10, o, "delete", "h264_subsession")
  BY <1>10, SetStep DEF h10
<1>12. IsHeap(g) /\ Clean(h10, g, {o})
      /\ Sets(h10, g, o, "dummy_rtp_sink", Null)
  BY <1>11, SetStep DEF g
<1>13. Clean(h, g, {o})
  BY <1>1, <1>3, <1>4, <1>5, <1>6, <1>7, <1>8, <1>9, <1>10, <1>11, <1>12, CleanThen
<1> QED
  BY <1>0, <1>1, <1>3, <1>4, <1>5, <1>6, <1>7, <1>8, <1>9, <1>10, <1>11, <1>12, <1>13 DEF Adds, Makes, Sets, SubsessionParts

SessionParts == {"self", "next_task", "stream_name", "info", "description", "misc"}
SessionFields == {"reference_count", "delete_when_unreferenced", "head", "tail", "delete"}

LEMMA SessionPartsGives ==
  ASSUME NEW h, NEW o, IsHeap(h),
         TablesUp(h),
         o # Tables
  PROVE  LET g == Make(MediumInit(New(h, o), o), o, {"stream_name", "info", "description", "misc"})
         IN  /\ IsHeap(g) /\ Clean(h, g, {o})
             /\ o \in g.listed
             /\ Adds(h, g, o, SessionParts, {"delete"})
<1> DEFINE h1 == Make(h, o, {"self"})
           h2 == MediumInit(h1, o)
           g  == Make(h2, o, {"stream_name", "info", "description", "misc"})
<1>0. Make(MediumInit(New(h, o), o), o, {"stream_name", "info", "description", "misc"}) = g
  BY DEF New
<1> HIDE DEF h1, h2, g
<1>1. IsHeap(h1) /\ Clean(h, h1, {o})
      /\ Makes(h, h1, o, {"self"})
  BY MakeStep DEF h1
<1>2. TablesUp(h1)
  BY <1>1, TablesStay
<1>3. IsHeap(h2) /\ Clean(h1, h2, {o})
      /\ o \in h2.listed /\ Adds(h1, h2, o, {"next_task"}, {"delete"})
  BY <1>1, <1>2, MediumInitGives DEF h2
<1>4. IsHeap(g) /\ Clean(h2, g, {o})
      /\ Makes(h2, g, o, {"stream_name", "info", "description", "misc"})
  BY <1>3, MakeStep DEF g
<1>5. Clean(h, g, {o})
  BY <1>1, <1>3, <1>4, CleanThen
<1> QED
  BY <1>0, <1>1, <1>3, <1>4, <1>5 DEF Adds, Makes, SessionParts

LEMMA NewSessionGives ==
  ASSUME NEW h, NEW o, IsHeap(h),
         TablesUp(h),
         o # Tables
  PROVE  LET g == NewServerMediaSession(h, o)
         IN  /\ IsHeap(g) /\ Clean(h, g, {o})
             /\ o \in g.listed
             /\ Adds(h, g, o, SessionParts, SessionFields)
             /\ Ref(g, o, "reference_count") = 0 /\ Ref(g, o, "delete_when_unreferenced") = FALSE
             /\ Ref(g, o, "head") = Null /\ Ref(g, o, "tail") = Null /\ Ref(g, o, "delete") = "server_media_session"
<1> DEFINE h1 == Make(MediumInit(New(h, o), o), o, {"stream_name", "info", "description", "misc"})
           h2 == Set(h1, o, "reference_count", 0)
           h3 == Set(h2, o, "delete_when_unreferenced", FALSE)
           h4 == Set(h3, o, "head", Null)
           h5 == Set(h4, o, "tail", Null)
           g  == Set(h5, o, "delete", "server_media_session")
<1>0. NewServerMediaSession(h, o) = g
  BY DEF NewServerMediaSession, ServerMediaSessionInit
<1> HIDE DEF h1, h2, h3, h4, h5, g
<1>1. IsHeap(h1) /\ Clean(h, h1, {o})
      /\ o \in h1.listed /\ Adds(h, h1, o, SessionParts, {"delete"})
  BY SessionPartsGives DEF h1
<1>2. IsHeap(h2) /\ Clean(h1, h2, {o})
      /\ Sets(h1, h2, o, "reference_count", 0)
  BY <1>1, SetStep DEF h2
<1>3. IsHeap(h3) /\ Clean(h2, h3, {o})
      /\ Sets(h2, h3, o, "delete_when_unreferenced", FALSE)
  BY <1>2, SetStep DEF h3
<1>4. IsHeap(h4) /\ Clean(h3, h4, {o})
      /\ Sets(h3, h4, o, "head", Null)
  BY <1>3, SetStep DEF h4
<1>5. IsHeap(h5) /\ Clean(h4, h5, {o})
      /\ Sets(h4, h5, o, "tail", Null)
  BY <1>4, SetStep DEF h5
<1>6. IsHeap(g) /\ Clean(h5, g, {o})
      /\ Sets(h5, g, o, "delete", "server_media_session")
  BY <1>5, SetStep DEF g
<1>7. Clean(h, g, {o})
  BY <1>1, <1>2, <1>3, <1>4, <1>5, <1>6, CleanThen
<1>8. o \in g.listed
  BY <1>1, <1>2, <1>3, <1>4, <1>5, <1>6 DEF Adds, SessionFields, Sets
<1>9. Adds(h, g, o, SessionParts, SessionFields)
  BY <1>1, <1>2, <1>3, <1>4, <1>5, <1>6, ZenonT(60) DEF Adds, SessionFields, Sets
<1>10. Ref(g, o, "reference_count") = 0 /\ Ref(g, o, "delete_when_unreferenced") = FALSE
  BY <1>1, <1>2, <1>3, <1>4, <1>5, <1>6, ZenonT(60) DEF Adds, SessionFields, Sets
<1>11. Ref(g, o, "head") = Null /\ Ref(g, o, "tail") = Null /\ Ref(g, o, "delete") = "server_media_session"
  BY <1>1, <1>2, <1>3, <1>4, <1>5, <1>6 DEF Adds, SessionFields, Sets
<1> QED
  BY <1>0, <1>6, <1>7, <1>8, <1>9, <1>10, <1>11

------------------------------------------------------------------------------
(* What the destructors of the sources take away. *)

Closes(h, g, o, parts) ==
  /\ o \notin g.listed
  /\ \A part : Lives(g, o, part) <=> Lives(h, o, part) /\ part \notin parts

LEMMA LeftGives ==
  ASSUME NEW h, NEW o, IsHeap(h), Server \in h.listed, o # Server
  PROVE  LET g == [h EXCEPT !.listed = @ \ {o}]
         IN  IsHeap(g) /\ Clean(h, g, {o}) /\ Delists(h, g, o) /\ g.listed # {}
<1> DEFINE g == [h EXCEPT !.listed = @ \ {o}]
<1>1. IsHeap(g) /\ Clean(h, g, {o}) /\ Delists(h, g, o)
  BY DelistStep
<1> HIDE DEF g
<1>2. Server \in g.listed
  BY <1>1 DEF Clean, Same
<1> QED
  BY <1>1, <1>2 DEF g

LEMMA DeleteFileGives ==
  ASSUME NEW h, NEW o, IsHeap(h),
         Lives(h, o, "self"),
         Lives(h, o, "fid")
  PROVE  LET g == DeleteByteStreamFileSource(h, o)
         IN  /\ IsHeap(g) /\ Clean(h, g, {o})
             /\ Drops(h, g, o, {"self", "next_task", "fid", "idler"}, {})
<1> DEFINE h1 == FreeIf(h, o, "idler")
           h2 == FreeIf(h1, o, "fid")
           h3 == FreeIf(h2, o, "next_task")
           g  == Free(h3, o, "self")
<1>0. DeleteByteStreamFileSource(h, o) = g
  BY DEF DeleteByteStreamFileSource, ByteStreamFileSourceDeinit, FramedFileSourceDeinit, FramedSourceDeinit, MediaSourceDeinit, MediumDeinit
<1> HIDE DEF h1, h2, h3, g
<1>1. IsHeap(h1) /\ Clean(h, h1, {o})
      /\ Frees(h, h1, o, "idler")
  BY FreeIfStep DEF h1
<1>2. IsHeap(h2) /\ Clean(h1, h2, {o})
      /\ Frees(h1, h2, o, "fid")
  BY <1>1, FreeIfStep DEF h2
<1>3. IsHeap(h3) /\ Clean(h2, h3, {o})
      /\ Frees(h2, h3, o, "next_task")
  BY <1>2, FreeIfStep DEF h3
<1>4. Lives(h3, o, "self")
  BY <1>1, <1>2, <1>3 DEF Frees
<1>5. IsHeap(g) /\ Clean(h3, g, {o})
      /\ Frees(h3, g, o, "self")
  BY <1>3, <1>4, FreeStep DEF g
<1>6. Clean(h, g, {o})
  BY <1>1, <1>2, <1>3, <1>5, CleanThen
<1> QED
  BY <1>0, <1>1, <1>2, <1>3, <1>5, <1>6 DEF Drops, Frees

LEMMA DeleteParserGives ==
  ASSUME NEW h, NEW o, IsHeap(h),
         Lives(h, o, "self")
  PROVE  LET g == DeleteStreamParser(h, o)
         IN  /\ IsHeap(g) /\ Clean(h, g, {o})
             /\ Drops(h, g, o, {"self", "bank0", "bank1"}, {})
<1> DEFINE h1 == FreeIf(h, o, "bank0")
           h2 == FreeIf(h1, o, "bank1")
           g  == Free(h2, o, "self")
<1>0. DeleteStreamParser(h, o) = g
  BY DEF DeleteStreamParser, H264or5VideoStreamParserDeinit, MpegVideoStreamParserDeinit, StreamParserDeinit
<1> HIDE DEF h1, h2, g
<1>1. IsHeap(h1) /\ Clean(h, h1, {o})
      /\ Frees(h, h1, o, "bank0")
  BY FreeIfStep DEF h1
<1>2. IsHeap(h2) /\ Clean(h1, h2, {o})
      /\ Frees(h1, h2, o, "bank1")
  BY <1>1, FreeIfStep DEF h2
<1>3. Lives(h2, o, "self")
  BY <1>1, <1>2 DEF Frees
<1>4. IsHeap(g) /\ Clean(h2, g, {o})
      /\ Frees(h2, g, o, "self")
  BY <1>2, <1>3, FreeStep DEF g
<1>5. Clean(h, g, {o})
  BY <1>1, <1>2, <1>4, CleanThen
<1> QED
  BY <1>0, <1>1, <1>2, <1>4, <1>5 DEF Drops, Frees

FileParts == {"self", "next_task", "fid"}
FileUp(h, o) ==
  /\ o \in h.listed /\ \A part \in FileParts : Lives(h, o, part)
  /\ Ref(h, o, "delete") = "byte_stream" /\ Ref(h, o, "stop") = "byte_stream"

LEMMA CloseFileGives ==
  ASSUME NEW h, NEW o, IsHeap(h), Server \in h.listed, o # Server, o # Null, FileUp(h, o)
  PROVE  LET g == CloseBy(DeleteFile, h, o)
         IN  IsHeap(g) /\ Clean(h, g, {o}) /\ Closes(h, g, o, {"self", "next_task", "fid", "idler"})
<1> DEFINE h1 == [h EXCEPT !.listed = @ \ {o}]
           g  == DeleteByteStreamFileSource(h1, o)
<1>1. IsHeap(h1) /\ Clean(h, h1, {o}) /\ Delists(h, h1, o) /\ h1.listed # {}
  BY LeftGives
<1>2. Lives(h, o, "self") /\ Lives(h, o, "fid") /\ o \in h.listed /\ Ref(h, o, "delete") = "byte_stream"
  BY DEF FileUp, FileParts
<1>3. Touch(h, o, "self") = h
  BY <1>2, TouchGives
<1>4. Lives(h1, o, "self") /\ Lives(h1, o, "fid") /\ Ref(h1, o, "delete") = "byte_stream"
  BY <1>1, <1>2 DEF Delists
<1>5. CloseBy(DeleteFile, h, o) = g
  BY <1>1, <1>2, <1>3, <1>4 DEF CloseBy, RemoveMedium, DeleteFile
<1> HIDE DEF h1, g
<1>6. IsHeap(g) /\ Clean(h1, g, {o}) /\ Drops(h1, g, o, {"self", "next_task", "fid", "idler"}, {})
  BY <1>1, <1>4, DeleteFileGives DEF g
<1>7. Clean(h, g, {o})
  BY <1>1, <1>6, CleanThen
<1> QED
  BY <1>1, <1>5, <1>6, <1>7 DEF Delists, Drops, Closes

LEMMA StopFileGives ==
  ASSUME NEW h, NEW o, IsHeap(h), FileUp(h, o)
  PROVE  LET g == StopFile(h, o)
         IN  IsHeap(g) /\ Clean(h, g, {o}) /\ Drops(h, g, o, {"idler"}, {})
<1>1. Lives(h, o, "self") /\ Lives(h, o, "next_task") /\ Ref(h, o, "stop") = "byte_stream"
  BY DEF FileUp, FileParts
<1>2. Touch(h, o, "self") = h /\ Touch(h, o, "next_task") = h
  BY <1>1, TouchGives
<1>3. StopFile(h, o) = FreeIf(h, o, "idler")
  BY <1>1, <1>2 DEF StopFile, ByteStreamFileSourceStop
<1>4. /\ IsHeap(StopFile(h, o)) /\ Clean(h, StopFile(h, o), {o})
      /\ Frees(h, StopFile(h, o), o, "idler")
  BY <1>3, FreeIfStep
<1> QED
  BY <1>4 DEF Frees, Drops

(* A framer o with its parser p, which reads the file f. *)
FramerUp(h, o, p, f) ==
  /\ o \in h.listed /\ Lives(h, o, "self") /\ Lives(h, o, "next_task")
  /\ Ref(h, o, "delete") = "h264_framer" /\ Ref(h, o, "stop") = "mpeg_framer"
  /\ Ref(h, o, "parser") = p /\ Ref(h, o, "input_source") = f
  /\ Lives(h, p, "self") /\ FileUp(h, f) /\ f # Null

LEMMA StopFramerGives ==
  ASSUME NEW h, NEW o, NEW p, NEW f, IsHeap(h), FramerUp(h, o, p, f)
  PROVE  LET g == StopFramer(h, o)
         IN  IsHeap(g) /\ Clean(h, g, {f}) /\ Drops(h, g, f, {"idler"}, {})
<1>1. /\ Lives(h, o, "self") /\ Lives(h, o, "next_task") /\ Ref(h, o, "stop") = "mpeg_framer"
      /\ Ref(h, o, "parser") = p /\ Ref(h, o, "input_source") = f /\ Lives(h, p, "self")
      /\ FileUp(h, f) /\ f # Null
  BY DEF FramerUp
<1>2. Touch(h, o, "self") = h /\ Touch(h, o, "next_task") = h /\ Touch(h, p, "self") = h
  BY <1>1, TouchGives
<1>3. StopFramer(h, o) = StopFile(h, f)
  BY <1>1, <1>2 DEF StopFramer, MpegVideoStreamFramerStop, FlushInput, FramedFilterStop, FramedSourceStop
<1> QED
  BY <1>1, <1>3, StopFileGives

LEMMA DeleteFramerGives ==
  ASSUME NEW h, NEW o, NEW p, NEW f, IsHeap(h), Server \in h.listed, Server \notin {o, p, f},
         o # p, o # f, p # f, f # Null,
         Lives(h, o, "self"), Ref(h, o, "parser") = p, Ref(h, o, "input_source") = f,
         Lives(h, p, "self"), FileUp(h, f)
  PROVE  LET g == DeleteH264VideoStreamFramer(h, o)
         IN  /\ IsHeap(g) /\ Clean(h, g, {o, p, f})
             /\ Drops(h, g, o, {"self", "next_task"}, {})
             /\ Drops(h, g, p, {"self", "bank0", "bank1"}, {})
             /\ Closes(h, g, f, {"self", "next_task", "fid", "idler"})
<1> DEFINE h1 == DeleteStreamParser(h, p)
           h2 == CloseBy(DeleteFile, h1, f)
           h3 == FreeIf(h2, o, "next_task")
           g  == Free(h3, o, "self")
<1>1. IsHeap(h1) /\ Clean(h, h1, {p}) /\ Drops(h, h1, p, {"self", "bank0", "bank1"}, {})
  BY DeleteParserGives
<1>2. Same(h, h1, o) /\ Same(h, h1, f) /\ Same(h, h1, Server)
  BY <1>1 DEF Clean
<1>3. DeleteH264VideoStreamFramer(h, o) = g
  BY <1>2 DEF Same, DeleteH264VideoStreamFramer, H264VideoStreamFramerDeinit, H264or5VideoStreamFramerDeinit,
              MpegVideoStreamFramerDeinit, FramedFilterDeinit, FramedSourceDeinit, MediaSourceDeinit, MediumDeinit
<1> HIDE DEF h1, h2, h3, g
<1>4. IsHeap(h2) /\ Clean(h1, h2, {f}) /\ Closes(h1, h2, f, {"self", "next_task", "fid", "idler"})
  <2>1. FileUp(h1, f) /\ Server \in h1.listed
    BY <1>2 DEF Same, FileUp
  <2> QED
    BY <1>1, <2>1, CloseFileGives DEF h2
<1>5. Same(h1, h2, o) /\ Same(h1, h2, p)
  BY <1>4 DEF Clean
<1>6. IsHeap(h3) /\ Clean(h2, h3, {o}) /\ Frees(h2, h3, o, "next_task")
  BY <1>4, FreeIfStep DEF h3
<1>7. Lives(h3, o, "self")
  BY <1>2, <1>5, <1>6 DEF Same, Frees
<1>8. IsHeap(g) /\ Clean(h3, g, {o}) /\ Frees(h3, g, o, "self")
  BY <1>6, <1>7, FreeStep DEF g
<1>9. Same(h2, h3, p) /\ Same(h3, g, p) /\ Same(h2, h3, f) /\ Same(h3, g, f)
  BY <1>6, <1>8 DEF Clean
<1>10. Clean(h, g, {o, p, f})
  <2>1. /\ Clean(h, h1, {o, p, f}) /\ Clean(h1, h2, {o, p, f})
        /\ Clean(h2, h3, {o, p, f}) /\ Clean(h3, g, {o, p, f})
    BY <1>1, <1>4, <1>6, <1>8, CleanMore
  <2> QED
    BY <2>1, CleanThen
<1>11. Drops(h, g, o, {"self", "next_task"}, {})
  BY <1>2, <1>5, <1>6, <1>8 DEF Same, Frees, Drops
<1>12. Drops(h, g, p, {"self", "bank0", "bank1"}, {})
  BY <1>1, <1>5, <1>9 DEF Same, Drops
<1>13. Closes(h, g, f, {"self", "next_task", "fid", "idler"})
  BY <1>2, <1>4, <1>9 DEF Same, Closes
<1> QED
  BY <1>3, <1>8, <1>10, <1>11, <1>12, <1>13

LEMMA CloseFramerGives ==
  ASSUME NEW h, NEW o, NEW p, NEW f, IsHeap(h), Server \in h.listed, Server \notin {o, p, f},
         o # p, o # f, p # f, o # Null, FramerUp(h, o, p, f)
  PROVE  LET g == CloseMedium(h, o)
         IN  /\ IsHeap(g) /\ Clean(h, g, {o, p, f})
             /\ Closes(h, g, o, {"self", "next_task"})
             /\ Drops(h, g, p, {"self", "bank0", "bank1"}, {})
             /\ Closes(h, g, f, {"self", "next_task", "fid", "idler"})
<1> DEFINE h1 == [h EXCEPT !.listed = @ \ {o}]
           g  == DeleteH264VideoStreamFramer(h1, o)
<1>1. IsHeap(h1) /\ Clean(h, h1, {o}) /\ Delists(h, h1, o) /\ h1.listed # {}
  BY LeftGives
<1>2. /\ o \in h.listed /\ Lives(h, o, "self") /\ Ref(h, o, "delete") = "h264_framer"
      /\ Ref(h, o, "parser") = p /\ Ref(h, o, "input_source") = f
      /\ Lives(h, p, "self") /\ FileUp(h, f) /\ f # Null
  BY DEF FramerUp
<1>3. Touch(h, o, "self") = h
  BY <1>2, TouchGives
<1>4. Ref(h1, o, "delete") = "h264_framer"
  BY <1>1, <1>2 DEF Delists
<1>5. CloseMedium(h, o) = g
  <2>1. DeleteMedium(h1, o) = DeleteH264VideoStreamFramer(h1, o)
    BY <1>4 DEF DeleteMedium
  <2> QED
    BY <1>1, <1>2, <1>3, <2>1 DEF CloseMedium, CloseBy, RemoveMedium
<1> HIDE DEF h1, g
<1>6. Same(h, h1, p) /\ Same(h, h1, f) /\ Same(h, h1, Server)
  BY <1>1 DEF Clean
<1>7. /\ Server \in h1.listed /\ Lives(h1, o, "self")
      /\ Ref(h1, o, "parser") = p /\ Ref(h1, o, "input_source") = f
      /\ Lives(h1, p, "self") /\ FileUp(h1, f)
  BY <1>1, <1>2, <1>6 DEF Same, Delists, FileUp
<1>8. /\ IsHeap(g) /\ Clean(h1, g, {o, p, f})
      /\ Drops(h1, g, o, {"self", "next_task"}, {})
      /\ Drops(h1, g, p, {"self", "bank0", "bank1"}, {})
      /\ Closes(h1, g, f, {"self", "next_task", "fid", "idler"})
  BY <1>1, <1>2, <1>7, DeleteFramerGives DEF g
<1>9. Clean(h, g, {o, p, f})
  <2>1. Clean(h, h1, {o, p, f})
    BY <1>1, CleanMore
  <2> QED
    BY <1>8, <2>1, CleanThen
<1>10. Closes(h, g, o, {"self", "next_task"})
  BY <1>1, <1>8 DEF Delists, Drops, Closes
<1>11. Drops(h, g, p, {"self", "bank0", "bank1"}, {}) /\ Closes(h, g, f, {"self", "next_task", "fid", "idler"})
  BY <1>6, <1>8 DEF Same, Drops, Closes
<1> QED
  BY <1>5, <1>8, <1>9, <1>10, <1>11

(* The fragmenter o of a sink, which reads from the framer i. *)
FragmenterUp(h, o, i) ==
  /\ o \in h.listed /\ Lives(h, o, "self") /\ Lives(h, o, "next_task")
  /\ Ref(h, o, "delete") = "fragmenter" /\ Ref(h, o, "stop") = "fragmenter"
  /\ Ref(h, o, "input_source") = i

LEMMA StopFragmenterGives ==
  ASSUME NEW h, NEW o, NEW i, NEW p, NEW f, IsHeap(h), i # Null, FragmenterUp(h, o, i), FramerUp(h, i, p, f)
  PROVE  LET g == StopGettingFrames(h, o)
         IN  IsHeap(g) /\ Clean(h, g, {f}) /\ Drops(h, g, f, {"idler"}, {})
<1>1. /\ Lives(h, o, "self") /\ Lives(h, o, "next_task") /\ Ref(h, o, "stop") = "fragmenter"
      /\ Ref(h, o, "input_source") = i
  BY DEF FragmenterUp
<1>2. Touch(h, o, "self") = h /\ Touch(h, o, "next_task") = h
  BY <1>1, TouchGives
<1>3. StopGettingFrames(h, o) = StopFramer(h, i)
  BY <1>1, <1>2 DEF StopGettingFrames, FragmenterStop, FramedFilterStop, FramedSourceStop
<1> QED
  BY <1>3, StopFramerGives

LEMMA DeleteFragmenterGives ==
  ASSUME NEW h, NEW o, NEW i, NEW p, NEW f, IsHeap(h), i # Null, o \notin {i, p, f},
         Lives(h, o, "self"), Ref(h, o, "input_source") = i, FramerUp(h, i, p, f)
  PROVE  LET g == DeleteFragmenter(h, o)
         IN  /\ IsHeap(g) /\ Clean(h, g, {o, f})
             /\ Drops(h, g, o, {"self", "next_task", "input_buffer"}, {"input_source"})
             /\ Drops(h, g, f, {"idler"}, {})
<1> DEFINE h1 == FreeIf(h, o, "input_buffer")
           h2 == StopFramer(h1, i)
           h3 == Set(h2, o, "input_source", Null)
           h4 == FreeIf(h3, o, "next_task")
           g  == Free(h4, o, "self")
<1>1. IsHeap(h1) /\ Clean(h, h1, {o}) /\ Frees(h, h1, o, "input_buffer")
  BY FreeIfStep
<1> HIDE DEF h1
<1>2. Same(h, h1, i) /\ Same(h, h1, p) /\ Same(h, h1, f) /\ Ref(h1, o, "input_source") = i
  BY <1>1 DEF Clean, Frees
<1>3. FramerUp(h1, i, p, f)
  BY <1>2 DEF FramerUp, FileUp, Same
<1>4. IsHeap(h2) /\ Clean(h1, h2, {f}) /\ Drops(h1, h2, f, {"idler"}, {})
  BY <1>1, <1>3, StopFramerGives
<1> HIDE DEF h2
<1>5. IsHeap(h3) /\ Clean(h2, h3, {o}) /\ Sets(h2, h3, o, "input_source", Null)
  BY <1>4, SetStep
<1> HIDE DEF h3
<1>6. DeleteFragmenter(h, o) = g
  <2>1. DetachInputSource(h1, o) = h3
    BY <1>2 DEF DetachInputSource, ReassignInputSource, h2, h3
  <2>2. Ref(h3, o, "input_source") = Null
    BY <1>5 DEF Sets
  <2>3. CloseBy(DeleteFile, h3, Null) = h3
    BY DEF CloseBy
  <2> QED
    BY <2>1, <2>2, <2>3 DEF DeleteFragmenter, FragmenterDeinit, FramedFilterDeinit, FramedSourceDeinit, MediaSourceDeinit,
                            MediumDeinit, h1
<1> HIDE DEF h4, g
<1>7. IsHeap(h4) /\ Clean(h3, h4, {o}) /\ Frees(h3, h4, o, "next_task")
  BY <1>5, FreeIfStep DEF h4
<1>8. Same(h1, h2, o)
  BY <1>4 DEF Clean
<1>9. Lives(h4, o, "self")
  BY <1>1, <1>5, <1>7, <1>8 DEF Same, Frees, Sets
<1>10. IsHeap(g) /\ Clean(h4, g, {o}) /\ Frees(h4, g, o, "self")
  BY <1>7, <1>9, FreeStep DEF g
<1>11. Clean(h, g, {o, f})
  <2>1. /\ Clean(h, h1, {o, f}) /\ Clean(h1, h2, {o, f}) /\ Clean(h2, h3, {o, f})
        /\ Clean(h3, h4, {o, f}) /\ Clean(h4, g, {o, f})
    BY <1>1, <1>4, <1>5, <1>7, <1>10, CleanMore
  <2> QED
    BY <2>1, CleanThen
<1>12. Drops(h, g, o, {"self", "next_task", "input_buffer"}, {"input_source"})
  BY <1>1, <1>5, <1>7, <1>8, <1>10 DEF Same, Frees, Sets, Drops
<1>13. Same(h2, h3, f) /\ Same(h3, h4, f) /\ Same(h4, g, f)
  BY <1>5, <1>7, <1>10 DEF Clean
<1>14. Drops(h, g, f, {"idler"}, {})
  BY <1>2, <1>4, <1>13 DEF Same, Drops
<1> QED
  BY <1>6, <1>10, <1>11, <1>12, <1>14

LEMMA CloseFragmenterGives ==
  ASSUME NEW h, NEW o, NEW i, NEW p, NEW f, IsHeap(h), Server \in h.listed, Server # o, o # Null,
         i # Null, o \notin {i, p, f}, FragmenterUp(h, o, i), FramerUp(h, i, p, f)
  PROVE  LET g == CloseBy(DeleteFragmenter, h, o)
         IN  /\ IsHeap(g) /\ Clean(h, g, {o, f})
             /\ Closes(h, g, o, {"self", "next_task", "input_buffer"})
             /\ Drops(h, g, f, {"idler"}, {})
<1> DEFINE h1 == [h EXCEPT !.listed = @ \ {o}]
           g  == DeleteFragmenter(h1, o)
<1>1. IsHeap(h1) /\ Clean(h, h1, {o}) /\ Delists(h, h1, o) /\ h1.listed # {}
  BY LeftGives
<1>2. o \in h.listed /\ Lives(h, o, "self") /\ Ref(h, o, "input_source") = i
  BY DEF FragmenterUp
<1>3. Touch(h, o, "self") = h
  BY <1>2, TouchGives
<1>5. CloseBy(DeleteFragmenter, h, o) = g
  BY <1>1, <1>2, <1>3 DEF CloseBy, RemoveMedium
<1> HIDE DEF h1, g
<1>6. Same(h, h1, i) /\ Same(h, h1, p) /\ Same(h, h1, f)
  BY <1>1 DEF Clean
<1>7. FramerUp(h1, i, p, f) /\ Lives(h1, o, "self") /\ Ref(h1, o, "input_source") = i
  BY <1>1, <1>2, <1>6 DEF Same, Delists, FramerUp, FileUp
<1>8. /\ IsHeap(g) /\ Clean(h1, g, {o, f})
      /\ Drops(h1, g, o, {"self", "next_task", "input_buffer"}, {"input_source"})
      /\ Drops(h1, g, f, {"idler"}, {})
  BY <1>1, <1>7, DeleteFragmenterGives DEF g
<1>9. Clean(h, g, {o, f})
  <2>1. Clean(h, h1, {o, f})
    BY <1>1, CleanMore
  <2> QED
    BY <1>8, <2>1, CleanThen
<1>10. Closes(h, g, o, {"self", "next_task", "input_buffer"})
  BY <1>1, <1>8 DEF Delists, Drops, Closes
<1>11. Drops(h, g, f, {"idler"}, {})
  BY <1>6, <1>8 DEF Same, Drops
<1> QED
  BY <1>5, <1>8, <1>9, <1>10, <1>11

------------------------------------------------------------------------------
(* What the destructors of a sink and of an RTCP instance take away. *)

LEMMA TouchStep ==
  ASSUME NEW h, NEW o, NEW part, IsHeap(h), Lives(h, o, part) \/ <<"late", o, part>> \in Harmless
  PROVE  LET g == Touch(h, o, part)
         IN  IsHeap(g) /\ Clean(h, g, {o}) /\ Same(h, g, o)
<1>1. CASE Lives(h, o, part)
  BY <1>1, CleanSelf DEF Touch, Same
<1>2. CASE ~Lives(h, o, part)
  BY <1>2, FaultStep DEF Touch
<1> QED
  BY <1>1, <1>2

LEMMA StopIdleSinkGives ==
  ASSUME NEW h, NEW o, IsHeap(h), Lives(h, o, "out_buf") \/ <<"late", o, "out_buf">> \in Harmless,
         Lives(h, o, "next_task"), Ref(h, o, "stop_playing") = "multi_framed", Ref(h, o, "source") = Null
  PROVE  LET g == StopPlaying(h, o)
         IN  IsHeap(g) /\ Clean(h, g, {o}) /\ Sets(h, g, o, "source", Null)
<1> DEFINE h1 == Touch(h, o, "out_buf")
           g  == Set(h1, o, "source", Null)
<1>1. IsHeap(h1) /\ Clean(h, h1, {o}) /\ Same(h, h1, o)
  BY TouchStep
<1> HIDE DEF h1
<1>2. Ref(h1, o, "source") = Null /\ Touch(h1, o, "next_task") = h1
  BY <1>1, TouchGives DEF Same
<1>3. StopPlaying(h, o) = g
  BY <1>2 DEF StopPlaying, MultiFramedRtpSinkStop, MediaSinkStop, h1
<1> HIDE DEF g
<1>4. IsHeap(g) /\ Clean(h1, g, {o}) /\ Sets(h1, g, o, "source", Null)
  BY <1>1, SetStep DEF g
<1>5. Clean(h, g, {o})
  BY <1>1, <1>4, CleanThen
<1> QED
  BY <1>1, <1>3, <1>4, <1>5 DEF Same, Sets

(* A sink whose source is the fragmenter q. *)
LEMMA StopBusySinkGives ==
  ASSUME NEW h, NEW o, NEW q, NEW i, NEW p, NEW f, IsHeap(h),
         Lives(h, o, "out_buf") \/ <<"late", o, "out_buf">> \in Harmless,
         Lives(h, o, "next_task"), Ref(h, o, "stop_playing") = "multi_framed", Ref(h, o, "source") = q,
         o \notin {q, i, p, f}, q # Null, i # Null, FragmenterUp(h, q, i), FramerUp(h, i, p, f)
  PROVE  LET g == StopPlaying(h, o)
         IN  /\ IsHeap(g) /\ Clean(h, g, {o, f})
             /\ Sets(h, g, o, "source", Null) /\ Drops(h, g, f, {"idler"}, {})
<1> DEFINE h1 == Touch(h, o, "out_buf")
           h2 == StopGettingFrames(h1, q)
           g  == Set(h2, o, "source", Null)
<1>1. IsHeap(h1) /\ Clean(h, h1, {o}) /\ Same(h, h1, o)
  BY TouchStep
<1> HIDE DEF h1
<1>2. Same(h, h1, q) /\ Same(h, h1, i) /\ Same(h, h1, p) /\ Same(h, h1, f)
  BY <1>1 DEF Clean
<1>3. FragmenterUp(h1, q, i) /\ FramerUp(h1, i, p, f)
  BY <1>2 DEF Same, FragmenterUp, FramerUp, FileUp
<1>4. IsHeap(h2) /\ Clean(h1, h2, {f}) /\ Drops(h1, h2, f, {"idler"}, {})
  BY <1>1, <1>3, StopFragmenterGives
<1> HIDE DEF h2
<1>5. Same(h1, h2, o)
  BY <1>4 DEF Clean
<1>6. Ref(h1, o, "source") = q /\ Touch(h2, o, "next_task") = h2
  BY <1>1, <1>5, TouchGives DEF Same
<1>7. StopPlaying(h, o) = g
  BY <1>6 DEF StopPlaying, MultiFramedRtpSinkStop, MediaSinkStop, h1, h2
<1> HIDE DEF g
<1>8. IsHeap(g) /\ Clean(h2, g, {o}) /\ Sets(h2, g, o, "source", Null)
  BY <1>4, SetStep DEF g
<1>9. Clean(h, g, {o, f})
  <2>1. Clean(h, h1, {o, f}) /\ Clean(h1, h2, {o, f}) /\ Clean(h2, g, {o, f})
    BY <1>1, <1>4, <1>8, CleanMore
  <2> QED
    BY <2>1, CleanThen
<1>10. Same(h2, g, f)
  BY <1>8 DEF Clean
<1>11. Sets(h, g, o, "source", Null)
  BY <1>1, <1>5, <1>8 DEF Same, Sets
<1>12. Drops(h, g, f, {"idler"}, {})
  BY <1>2, <1>4, <1>10 DEF Same, Drops
<1> QED
  BY <1>7, <1>8, <1>9, <1>11, <1>12

LEMMA DeleteBufferGives ==
  ASSUME NEW h, NEW o, IsHeap(h),
         Lives(h, o, "out_buf")
  PROVE  LET g == DeleteOutPacketBuffer(h, o)
         IN  /\ IsHeap(g) /\ Clean(h, g, {o})
             /\ Drops(h, g, o, {"out_buf", "out_buf.buf"}, {})
<1> DEFINE h1 == FreeIf(h, o, "out_buf.buf")
           g  == Free(h1, o, "out_buf")
<1>0. DeleteOutPacketBuffer(h, o) = g
  BY DEF DeleteOutPacketBuffer
<1> HIDE DEF h1, g
<1>1. IsHeap(h1) /\ Clean(h, h1, {o})
      /\ Frees(h, h1, o, "out_buf.buf")
  BY FreeIfStep DEF h1
<1>2. Lives(h1, o, "out_buf")
  BY <1>1 DEF Frees
<1>3. IsHeap(g) /\ Clean(h1, g, {o})
      /\ Frees(h1, g, o, "out_buf")
  BY <1>1, <1>2, FreeStep DEF g
<1>4. Clean(h, g, {o})
  BY <1>1, <1>3, CleanThen
<1> QED
  BY <1>0, <1>1, <1>3, <1>4 DEF Drops, Frees

LEMMA RtpInterfaceDeinitGives ==
  ASSUME NEW h, NEW o, NEW gs, IsHeap(h),
         Ref(h, o, "gs") = gs,
         gs = Null \/ Lives(h, gs, "self")
  PROVE  LET g == RtpInterfaceDeinit(h, o)
         IN  /\ IsHeap(g) /\ Clean(h, g, {o})
             /\ Drops(h, g, o, {"poll_data", "poll_handle"}, {})
<1> DEFINE h1 == FreeIf(h, o, "poll_data")
           g  == FreeIf(h1, o, "poll_handle")
<1>0. RtpInterfaceDeinit(h, o) = g
  BY TouchGives DEF RtpInterfaceDeinit, StopNetworkReading
<1> HIDE DEF h1, g
<1>1. IsHeap(h1) /\ Clean(h, h1, {o})
      /\ Frees(h, h1, o, "poll_data")
  BY FreeIfStep DEF h1
<1>2. IsHeap(g) /\ Clean(h1, g, {o})
      /\ Frees(h1, g, o, "poll_handle")
  BY <1>1, FreeIfStep DEF g
<1>3. Clean(h, g, {o})
  BY <1>1, <1>2, CleanThen
<1> QED
  BY <1>0, <1>1, <1>2, <1>3 DEF Drops, Frees

LEMMA SinkTailBegins ==
  ASSUME NEW h, NEW o, IsHeap(h),
         Lives(h, o, "out_buf"),
         Lives(h, o, "stats_db"),
         Lives(h, o, "stats_db.table"),
         Lives(h, o, "format_name")
  PROVE  LET g == ForgetOurGroupsock(Free(DeleteTransmissionStatsDb(DeleteOutPacketBuffer(Set(h, o, "source", Null), o), o),
                                            o, "format_name"), o)
         IN  /\ IsHeap(g) /\ Clean(h, g, {o})
             /\ Drops(h, g, o, {"out_buf", "out_buf.buf", "stats_db", "stats_db.table", "format_name"}, {"source", "gs"})
             /\ Ref(g, o, "source") = Null /\ Ref(g, o, "gs") = Null
<1> DEFINE h1 == Set(h, o, "source", Null)
           h2 == DeleteOutPacketBuffer(h1, o)
           h3 == Free(h2, o, "stats_db.table")
           h4 == Free(h3, o, "stats_db")
           h5 == Free(h4, o, "format_name")
           g  == Set(h5, o, "gs", Null)
<1>0. ForgetOurGroupsock(Free(DeleteTransmissionStatsDb(DeleteOutPacketBuffer(Set(h, o, "source", Null), o), o),
                                            o, "format_name"), o) = g
  BY DEF ForgetOurGroupsock, DeleteTransmissionStatsDb
<1> HIDE DEF h1, h2, h3, h4, h5, g
<1>1. IsHeap(h1) /\ Clean(h, h1, {o})
      /\ Sets(h, h1, o, "source", Null)
  BY SetStep DEF h1
<1>2. Lives(h1, o, "out_buf")
  BY <1>1 DEF Sets
<1>3. IsHeap(h2) /\ Clean(h1, h2, {o})
      /\ Drops(h1, h2, o, {"out_buf", "out_buf.buf"}, {})
  BY <1>1, <1>2, DeleteBufferGives DEF h2
<1>4. Lives(h2, o, "stats_db.table")
  BY <1>1, <1>3 DEF Drops, Sets
<1>5. IsHeap(h3) /\ Clean(h2, h3, {o})
      /\ Frees(h2, h3, o, "stats_db.table")
  BY <1>3, <1>4, FreeStep DEF h3
<1>6. Lives(h3, o, "stats_db")
  BY <1>1, <1>3, <1>5 DEF Drops, Frees, Sets
<1>7. IsHeap(h4) /\ Clean(h3, h4, {o})
      /\ Frees(h3, h4, o, "stats_db")
  BY <1>5, <1>6, FreeStep DEF h4
<1>8. Lives(h4, o, "format_name")
  BY <1>1, <1>3, <1>5, <1>7 DEF Drops, Frees, Sets
<1>9. IsHeap(h5) /\ Clean(h4, h5, {o})
      /\ Frees(h4, h5, o, "format_name")
  BY <1>7, <1>8, FreeStep DEF h5
<1>10. IsHeap(g) /\ Clean(h5, g, {o})
      /\ Sets(h5, g, o, "gs", Null)
  BY <1>9, SetStep DEF g
<1>11. Clean(h, g, {o})
  BY <1>1, <1>3, <1>5, <1>7, <1>9, <1>10, CleanThen
<1>12. Drops(h, g, o, {"out_buf", "out_buf.buf", "stats_db", "stats_db.table", "format_name"}, {"source", "gs"})
  BY <1>1, <1>3, <1>5, <1>7, <1>9, <1>10 DEF Drops, Frees, Sets
<1>13. Ref(g, o, "source") = Null /\ Ref(g, o, "gs") = Null
  BY <1>1, <1>3, <1>5, <1>7, <1>9, <1>10 DEF Drops, Frees, Sets
<1> QED
  BY <1>0, <1>10, <1>11, <1>12, <1>13

SinkTail(h, o) == Free(VideoRtpSinkDeinit(Set(h, o, "source", Null), o), o, "self")

LEMMA SinkTailGives ==
  ASSUME NEW h, NEW o, IsHeap(h),
         \A part \in SinkParts : Lives(h, o, part),
         Ref(h, o, "stop_playing") = "multi_framed",
         <<"late", o, "out_buf">> \in Harmless
  PROVE  LET g == SinkTail(h, o)
         IN  /\ IsHeap(g) /\ Clean(h, g, {o})
             /\ Drops(h, g, o, SinkParts, {"source", "gs"})
<1> DEFINE h1 == ForgetOurGroupsock(Free(DeleteTransmissionStatsDb(DeleteOutPacketBuffer(Set(h, o, "source", Null), o), o),
                                            o, "format_name"), o)
           h2 == RtpInterfaceDeinit(h1, o)
           h3 == Free(h2, o, "rtp_interface")
           h4 == StopPlaying(h3, o)
           h5 == FreeIf(h4, o, "next_task")
           g  == Free(h5, o, "self")
<1>0. SinkTail(h, o) = g
  BY DEF SinkTail, VideoRtpSinkDeinit, MultiFramedRtpSinkDeinit, RtpSinkDeinit, DeleteRtpInterface, MediaSinkDeinit, MediumDeinit
<1> HIDE DEF h1, h2, h3, h4, h5, g
<1>1. Lives(h, o, "out_buf") /\ Lives(h, o, "stats_db") /\ Lives(h, o, "stats_db.table") /\ Lives(h, o, "format_name")
  BY DEF SinkParts
<1>2. IsHeap(h1) /\ Clean(h, h1, {o})
      /\ Drops(h, h1, o, {"out_buf", "out_buf.buf", "stats_db", "stats_db.table", "format_name"}, {"source", "gs"})
      /\ Ref(h1, o, "source") = Null /\ Ref(h1, o, "gs") = Null
  BY <1>1, SinkTailBegins DEF h1
<1>3. IsHeap(h2) /\ Clean(h1, h2, {o})
      /\ Drops(h1, h2, o, {"poll_data", "poll_handle"}, {})
  BY <1>2, RtpInterfaceDeinitGives DEF h2
<1>4. Lives(h2, o, "rtp_interface")
  BY <1>2, <1>3 DEF Drops, SinkParts
<1>5. IsHeap(h3) /\ Clean(h2, h3, {o})
      /\ Frees(h2, h3, o, "rtp_interface")
  BY <1>3, <1>4, FreeStep DEF h3
<1>6. Lives(h3, o, "next_task") /\ Ref(h3, o, "stop_playing") = "multi_framed" /\ Ref(h3, o, "source") = Null
  BY <1>2, <1>3, <1>5 DEF Drops, Frees, SinkParts
<1>7. IsHeap(h4) /\ Clean(h3, h4, {o})
      /\ Sets(h3, h4, o, "source", Null)
  BY <1>5, <1>6, StopIdleSinkGives DEF h4
<1>8. IsHeap(h5) /\ Clean(h4, h5, {o})
      /\ Frees(h4, h5, o, "next_task")
  BY <1>7, FreeIfStep DEF h5
<1>9. Lives(h5, o, "self")
  BY <1>2, <1>3, <1>5, <1>7, <1>8 DEF Drops, Frees, Sets, SinkParts
<1>10. IsHeap(g) /\ Clean(h5, g, {o})
      /\ Frees(h5, g, o, "self")
  BY <1>8, <1>9, FreeStep DEF g
<1>11. Clean(h, g, {o})
  BY <1>2, <1>3, <1>5, <1>7, <1>8, <1>10, CleanThen
<1>12. Drops(h, g, o, SinkParts, {"source", "gs"})
  BY <1>2, <1>3, <1>5, <1>7, <1>8, <1>10 DEF Drops, Frees, Sets, SinkParts
<1> QED
  BY <1>0, <1>10, <1>11, <1>12

LEMMA SinkFreedGives ==
  ASSUME NEW h, NEW o, NEW q, IsHeap(h)
  PROVE  LET g == FreeIf(FreeIf(FreeIf(Set(h, o, "source", q), o, "fmtp_sdp_line"), o, "sps"), o, "pps")
         IN  /\ IsHeap(g) /\ Clean(h, g, {o})
             /\ Drops(h, g, o, {"fmtp_sdp_line", "sps", "pps"}, {"source"}) /\ Ref(g, o, "source") = q
<1> DEFINE h1 == Set(h, o, "source", q)
           h2 == FreeIf(h1, o, "fmtp_sdp_line")
           h3 == FreeIf(h2, o, "sps")
           g  == FreeIf(h3, o, "pps")
<1>0. FreeIf(FreeIf(FreeIf(Set(h, o, "source", q), o, "fmtp_sdp_line"), o, "sps"), o, "pps") = g
  OBVIOUS
<1> HIDE DEF h1, h2, h3, g
<1>1. IsHeap(h1) /\ Clean(h, h1, {o})
      /\ Sets(h, h1, o, "source", q)
  BY SetStep DEF h1
<1>2. IsHeap(h2) /\ Clean(h1, h2, {o})
      /\ Frees(h1, h2, o, "fmtp_sdp_line")
  BY <1>1, FreeIfStep DEF h2
<1>3. IsHeap(h3) /\ Clean(h2, h3, {o})
      /\ Frees(h2, h3, o, "sps")
  BY <1>2, FreeIfStep DEF h3
<1>4. IsHeap(g) /\ Clean(h3, g, {o})
      /\ Frees(h3, g, o, "pps")
  BY <1>3, FreeIfStep DEF g
<1>5. Clean(h, g, {o})
  BY <1>1, <1>2, <1>3, <1>4, CleanThen
<1> QED
  BY <1>0, <1>1, <1>2, <1>3, <1>4, <1>5 DEF Drops, Frees, Sets


SinkUp(h, o) ==
  /\ o \in h.listed /\ \A part \in SinkParts : Lives(h, o, part)
  /\ Ref(h, o, "delete") = "h264_rtp_sink" /\ Ref(h, o, "stop_playing") = "multi_framed"
SinkRest == SinkParts \cup {"fmtp_sdp_line", "sps", "pps"}

LEMMA DeleteIdleSinkGives ==
  ASSUME NEW h, NEW o, IsHeap(h), \A part \in SinkParts : Lives(h, o, part),
         Ref(h, o, "stop_playing") = "multi_framed", Ref(h, o, "our_fragmenter") = Null,
         <<"late", o, "out_buf">> \in Harmless
  PROVE  LET g == DeleteH264VideoRtpSink(h, o)
         IN  IsHeap(g) /\ Clean(h, g, {o}) /\ Drops(h, g, o, SinkRest, {"source", "gs"})
<1> DEFINE h1 == FreeIf(FreeIf(FreeIf(Set(h, o, "source", Null), o, "fmtp_sdp_line"), o, "sps"), o, "pps")
           h2 == StopPlaying(h1, o)
           g  == SinkTail(h2, o)
<1>1. /\ IsHeap(h1) /\ Clean(h, h1, {o})
      /\ Drops(h, h1, o, {"fmtp_sdp_line", "sps", "pps"}, {"source"}) /\ Ref(h1, o, "source") = Null
  BY SinkFreedGives
<1>2. DeleteH264VideoRtpSink(h, o) = g
  BY DEF DeleteH264VideoRtpSink, H264VideoRtpSinkDeinit, H264or5VideoRtpSinkDeinit, SinkTail, CloseBy
<1> HIDE DEF h1, h2, g
<1>3. Lives(h1, o, "next_task") /\ Ref(h1, o, "stop_playing") = "multi_framed"
  BY <1>1 DEF Drops, SinkParts
<1>4. IsHeap(h2) /\ Clean(h1, h2, {o}) /\ Sets(h1, h2, o, "source", Null)
  BY <1>1, <1>3, StopIdleSinkGives DEF h2
<1>5. (\A part \in SinkParts : Lives(h2, o, part)) /\ Ref(h2, o, "stop_playing") = "multi_framed"
  BY <1>1, <1>3, <1>4 DEF Drops, Sets, SinkParts
<1>6. IsHeap(g) /\ Clean(h2, g, {o}) /\ Drops(h2, g, o, SinkParts, {"source", "gs"})
  BY <1>4, <1>5, SinkTailGives DEF g
<1>7. Clean(h, g, {o})
  BY <1>1, <1>4, <1>6, CleanThen
<1>8. Drops(h, g, o, SinkRest, {"source", "gs"})
  BY <1>1, <1>4, <1>6 DEF Drops, Sets, SinkRest
<1> QED
  BY <1>2, <1>6, <1>7, <1>8

LEMMA DeleteBusySinkGives ==
  ASSUME NEW h, NEW o, NEW q, NEW i, NEW p, NEW f, IsHeap(h), \A part \in SinkParts : Lives(h, o, part),
         Ref(h, o, "stop_playing") = "multi_framed", Ref(h, o, "our_fragmenter") = q,
         <<"late", o, "out_buf">> \in Harmless, Server \in h.listed, Server # q, Server # f,
         o \notin {q, i, p, f}, q \notin {i, p, f}, i # f, p # f, q # Null, i # Null,
         FragmenterUp(h, q, i), FramerUp(h, i, p, f)
  PROVE  LET g == DeleteH264VideoRtpSink(h, o)
         IN  /\ IsHeap(g) /\ Clean(h, g, {o, q, f}) /\ Drops(h, g, o, SinkRest, {"source", "gs"})
             /\ Closes(h, g, q, {"self", "next_task", "input_buffer"}) /\ Drops(h, g, f, {"idler"}, {})
<1> DEFINE h1 == FreeIf(FreeIf(FreeIf(Set(h, o, "source", q), o, "fmtp_sdp_line"), o, "sps"), o, "pps")
           h2 == StopPlaying(h1, o)
           h3 == CloseBy(DeleteFragmenter, h2, q)
           g  == SinkTail(h3, o)
<1>1. /\ IsHeap(h1) /\ Clean(h, h1, {o})
      /\ Drops(h, h1, o, {"fmtp_sdp_line", "sps", "pps"}, {"source"}) /\ Ref(h1, o, "source") = q
  BY SinkFreedGives
<1>2. DeleteH264VideoRtpSink(h, o) = g
  BY DEF DeleteH264VideoRtpSink, H264VideoRtpSinkDeinit, H264or5VideoRtpSinkDeinit, SinkTail
<1> HIDE DEF h1, h2, h3, g
<1>3. Lives(h1, o, "next_task") /\ Ref(h1, o, "stop_playing") = "multi_framed"
  BY <1>1 DEF Drops, SinkParts
<1>4. Same(h, h1, q) /\ Same(h, h1, i) /\ Same(h, h1, p) /\ Same(h, h1, f)
  BY <1>1 DEF Clean
<1>5. FragmenterUp(h1, q, i) /\ FramerUp(h1, i, p, f)
  BY <1>4 DEF Same, FragmenterUp, FramerUp, FileUp
<1>6. IsHeap(h2) /\ Clean(h1, h2, {o, f}) /\ Sets(h1, h2, o, "source", Null) /\ Drops(h1, h2, f, {"idler"}, {})
  BY <1>1, <1>3, <1>5, StopBusySinkGives DEF h2
<1>7. Same(h1, h2, q) /\ Same(h1, h2, i) /\ Same(h1, h2, p)
  BY <1>6 DEF Clean
<1>8. FragmenterUp(h2, q, i) /\ FramerUp(h2, i, p, f)
  BY <1>5, <1>6, <1>7 DEF Same, Drops, FragmenterUp, FramerUp, FileUp, FileParts
<1>9. Server \in h2.listed
  <2>1. CASE Server = o
    BY <1>1, <1>6, <2>1 DEF Drops, Sets
  <2>2. CASE Server # o
    <3>1. Same(h, h1, Server) /\ Same(h1, h2, Server)
      BY <1>1, <1>6, <2>2 DEF Clean
    <3> QED
      BY <3>1 DEF Same
  <2> QED
    BY <2>1, <2>2
<1>10. /\ IsHeap(h3) /\ Clean(h2, h3, {q, f})
       /\ Closes(h2, h3, q, {"self", "next_task", "input_buffer"}) /\ Drops(h2, h3, f, {"idler"}, {})
  BY <1>6, <1>8, <1>9, CloseFragmenterGives DEF h3
<1>11. Same(h2, h3, o)
  BY <1>10 DEF Clean
<1>12. (\A part \in SinkParts : Lives(h3, o, part)) /\ Ref(h3, o, "stop_playing") = "multi_framed"
  BY <1>1, <1>3, <1>6, <1>11 DEF Same, Drops, Sets, SinkParts
<1>13. IsHeap(g) /\ Clean(h3, g, {o}) /\ Drops(h3, g, o, SinkParts, {"source", "gs"})
  BY <1>10, <1>12, SinkTailGives DEF g
<1>14. Clean(h, g, {o, q, f})
  <2>1. Clean(h, h1, {o, q, f}) /\ Clean(h1, h2, {o, q, f}) /\ Clean(h2, h3, {o, q, f}) /\ Clean(h3, g, {o, q, f})
    BY <1>1, <1>6, <1>10, <1>13, CleanMore
  <2> QED
    BY <2>1, CleanThen
<1>15. Drops(h, g, o, SinkRest, {"source", "gs"})
  BY <1>1, <1>6, <1>11, <1>13 DEF Same, Drops, Sets, SinkRest
<1>16. Same(h3, g, q) /\ Same(h3, g, f)
  BY <1>13 DEF Clean
<1>17. Closes(h, g, q, {"self", "next_task", "input_buffer"})
  BY <1>4, <1>7, <1>10, <1>16 DEF Same, Closes
<1>18. Drops(h, g, f, {"idler"}, {})
  BY <1>4, <1>6, <1>10, <1>16 DEF Same, Drops
<1> QED
  BY <1>2, <1>13, <1>14, <1>15, <1>17, <1>18

LEMMA CloseIdleSinkGives ==
  ASSUME NEW h, NEW o, IsHeap(h), SinkUp(h, o), Ref(h, o, "our_fragmenter") = Null,
         <<"late", o, "out_buf">> \in Harmless, Server \in h.listed, Server # o, o # Null
  PROVE  LET g == CloseMedium(h, o)
         IN  IsHeap(g) /\ Clean(h, g, {o}) /\ Closes(h, g, o, SinkRest)
<1> DEFINE h1 == [h EXCEPT !.listed = @ \ {o}]
           g  == DeleteH264VideoRtpSink(h1, o)
<1>1. IsHeap(h1) /\ Clean(h, h1, {o}) /\ Delists(h, h1, o) /\ h1.listed # {}
  BY LeftGives
<1>2. o \in h.listed /\ Lives(h, o, "self") /\ Ref(h, o, "delete") = "h264_rtp_sink"
  BY DEF SinkUp, SinkParts
<1>3. Touch(h, o, "self") = h
  BY <1>2, TouchGives
<1>4. DeleteMedium(h1, o) = g
  <2>1. Ref(h1, o, "delete") = "h264_rtp_sink"
    BY <1>1, <1>2 DEF Delists
  <2> QED
    BY <2>1 DEF DeleteMedium
<1>5. CloseMedium(h, o) = g
  BY <1>1, <1>2, <1>3, <1>4 DEF CloseMedium, CloseBy, RemoveMedium
<1> HIDE DEF h1, g
<1>6. /\ \A part \in SinkParts : Lives(h1, o, part)
      /\ Ref(h1, o, "stop_playing") = "multi_framed" /\ Ref(h1, o, "our_fragmenter") = Null
  BY <1>1 DEF Delists, SinkUp
<1>7. IsHeap(g) /\ Clean(h1, g, {o}) /\ Drops(h1, g, o, SinkRest, {"source", "gs"})
  BY <1>1, <1>6, DeleteIdleSinkGives DEF g
<1>8. Clean(h, g, {o})
  BY <1>1, <1>7, CleanThen
<1> QED
  BY <1>1, <1>5, <1>7, <1>8 DEF Delists, Drops, Closes

LEMMA CloseBusySinkGives ==
  ASSUME NEW h, NEW o, NEW q, NEW i, NEW p, NEW f, IsHeap(h), SinkUp(h, o), Ref(h, o, "our_fragmenter") = q,
         <<"late", o, "out_buf">> \in Harmless, Server \in h.listed, Server \notin {o, q, f}, o # Null,
         o \notin {q, i, p, f}, q \notin {i, p, f}, i # f, p # f, q # Null, i # Null,
         FragmenterUp(h, q, i), FramerUp(h, i, p, f)
  PROVE  LET g == CloseMedium(h, o)
         IN  /\ IsHeap(g) /\ Clean(h, g, {o, q, f}) /\ Closes(h, g, o, SinkRest)
             /\ Closes(h, g, q, {"self", "next_task", "input_buffer"}) /\ Drops(h, g, f, {"idler"}, {})
<1> DEFINE h1 == [h EXCEPT !.listed = @ \ {o}]
           g  == DeleteH264VideoRtpSink(h1, o)
<1>1. IsHeap(h1) /\ Clean(h, h1, {o}) /\ Delists(h, h1, o) /\ h1.listed # {}
  BY LeftGives
<1>2. o \in h.listed /\ Lives(h, o, "self") /\ Ref(h, o, "delete") = "h264_rtp_sink"
  BY DEF SinkUp, SinkParts
<1>3. Touch(h, o, "self") = h
  BY <1>2, TouchGives
<1>4. DeleteMedium(h1, o) = g
  <2>1. Ref(h1, o, "delete") = "h264_rtp_sink"
    BY <1>1, <1>2 DEF Delists
  <2> QED
    BY <2>1 DEF DeleteMedium
<1>5. CloseMedium(h, o) = g
  BY <1>1, <1>2, <1>3, <1>4 DEF CloseMedium, CloseBy, RemoveMedium
<1> HIDE DEF h1, g
<1>6. /\ \A part \in SinkParts : Lives(h1, o, part)
      /\ Ref(h1, o, "stop_playing") = "multi_framed" /\ Ref(h1, o, "our_fragmenter") = q
  BY <1>1 DEF Delists, SinkUp
<1>7. Same(h, h1, q) /\ Same(h, h1, i) /\ Same(h, h1, p) /\ Same(h, h1, f) /\ Same(h, h1, Server)
  BY <1>1 DEF Clean
<1>8. FragmenterUp(h1, q, i) /\ FramerUp(h1, i, p, f) /\ Server \in h1.listed
  BY <1>7 DEF Same, FragmenterUp, FramerUp, FileUp
<1>9. /\ IsHeap(g) /\ Clean(h1, g, {o, q, f}) /\ Drops(h1, g, o, SinkRest, {"source", "gs"})
      /\ Closes(h1, g, q, {"self", "next_task", "input_buffer"}) /\ Drops(h1, g, f, {"idler"}, {})
  BY <1>1, <1>6, <1>8, DeleteBusySinkGives DEF g
<1>10. Clean(h, g, {o, q, f})
  <2>1. Clean(h, h1, {o, q, f})
    BY <1>1, CleanMore
  <2> QED
    BY <1>9, <2>1, CleanThen
<1>11. Closes(h, g, q, {"self", "next_task", "input_buffer"}) /\ Drops(h, g, f, {"idler"}, {})
  BY <1>7, <1>9 DEF Same, Closes, Drops
<1> QED
  BY <1>1, <1>5, <1>9, <1>10, <1>11 DEF Delists, Drops, Closes

LEMMA DeleteRtcpGives ==
  ASSUME NEW h, NEW o, NEW gs, IsHeap(h),
         \A part \in RtcpParts : Lives(h, o, part),
         Ref(h, o, "gs") = gs,
         Lives(h, gs, "self"),
         gs # o
  PROVE  LET g == DeleteRtcpInstance(h, o)
         IN  /\ IsHeap(g) /\ Clean(h, g, {o})
             /\ Drops(h, g, o, RtcpParts, {})
<1> DEFINE h1 == Free(h, o, "known_members.table")
           h2 == Free(h1, o, "known_members")
           h3 == DeleteOutPacketBuffer(h2, o)
           h4 == FreeIf(h3, o, "in_buf")
           h5 == RtpInterfaceDeinit(h4, o)
           h6 == FreeIf(h5, o, "next_task")
           g  == Free(h6, o, "self")
<1>0. DeleteRtcpInstance(h, o) = g
  BY DEF DeleteRtcpInstance, RtcpInstanceDeinit, DeleteRtcpMemberDatabase, MediumDeinit
<1> HIDE DEF h1, h2, h3, h4, h5, h6, g
<1>1. Lives(h, o, "known_members.table")
  BY DEF RtcpParts
<1>2. IsHeap(h1) /\ Clean(h, h1, {o})
      /\ Frees(h, h1, o, "known_members.table")
  BY <1>1, FreeStep DEF h1
<1>3. Lives(h1, o, "known_members")
  BY <1>2 DEF Frees, RtcpParts
<1>4. IsHeap(h2) /\ Clean(h1, h2, {o})
      /\ Frees(h1, h2, o, "known_members")
  BY <1>2, <1>3, FreeStep DEF h2
<1>5. Lives(h2, o, "out_buf")
  BY <1>2, <1>4 DEF Frees, RtcpParts
<1>6. IsHeap(h3) /\ Clean(h2, h3, {o})
      /\ Drops(h2, h3, o, {"out_buf", "out_buf.buf"}, {})
  BY <1>4, <1>5, DeleteBufferGives DEF h3
<1>7. IsHeap(h4) /\ Clean(h3, h4, {o})
      /\ Frees(h3, h4, o, "in_buf")
  BY <1>6, FreeIfStep DEF h4
<1>8. Ref(h4, o, "gs") = gs /\ Lives(h4, gs, "self")
  BY <1>2, <1>4, <1>6, <1>7 DEF Clean, Drops, Frees, Same
<1>9. IsHeap(h5) /\ Clean(h4, h5, {o})
      /\ Drops(h4, h5, o, {"poll_data", "poll_handle"}, {})
  BY <1>7, <1>8, RtpInterfaceDeinitGives DEF h5
<1>10. IsHeap(h6) /\ Clean(h5, h6, {o})
      /\ Frees(h5, h6, o, "next_task")
  BY <1>9, FreeIfStep DEF h6
<1>11. Lives(h6, o, "self")
  BY <1>2, <1>4, <1>6, <1>7, <1>9, <1>10 DEF Drops, Frees, RtcpParts
<1>12. IsHeap(g) /\ Clean(h6, g, {o})
      /\ Frees(h6, g, o, "self")
  BY <1>10, <1>11, FreeStep DEF g
<1>13. Clean(h, g, {o})
  BY <1>2, <1>4, <1>6, <1>7, <1>9, <1>10, <1>12, CleanThen
<1>14. Drops(h, g, o, RtcpParts, {})
  BY <1>2, <1>4, <1>6, <1>7, <1>9, <1>10, <1>12 DEF Drops, Frees, RtcpParts
<1> QED
  BY <1>0, <1>12, <1>13, <1>14

RtcpUp(h, o, gs) ==
  /\ o \in h.listed /\ \A part \in RtcpParts : Lives(h, o, part)
  /\ Ref(h, o, "delete") = "rtcp_instance" /\ Ref(h, o, "gs") = gs

LEMMA CloseRtcpGives ==
  ASSUME NEW h, NEW o, NEW gs, IsHeap(h), RtcpUp(h, o, gs), Lives(h, gs, "self"), gs # o,
         Server \in h.listed, Server # o, o # Null
  PROVE  LET g == CloseMedium(h, o)
         IN  IsHeap(g) /\ Clean(h, g, {o}) /\ Closes(h, g, o, RtcpParts)
<1> DEFINE h1 == [h EXCEPT !.listed = @ \ {o}]
           g  == DeleteRtcpInstance(h1, o)
<1>1. IsHeap(h1) /\ Clean(h, h1, {o}) /\ Delists(h, h1, o) /\ h1.listed # {}
  BY LeftGives
<1>2. o \in h.listed /\ Lives(h, o, "self") /\ Ref(h, o, "delete") = "rtcp_instance"
  BY DEF RtcpUp, RtcpParts
<1>3. Touch(h, o, "self") = h
  BY <1>2, TouchGives
<1>4. DeleteMedium(h1, o) = g
  <2>1. Ref(h1, o, "delete") = "rtcp_instance"
    BY <1>1, <1>2 DEF Delists
  <2> QED
    BY <2>1 DEF DeleteMedium
<1>5. CloseMedium(h, o) = g
  BY <1>1, <1>2, <1>3, <1>4 DEF CloseMedium, CloseBy, RemoveMedium
<1> HIDE DEF h1, g
<1>6. (\A part \in RtcpParts : Lives(h1, o, part)) /\ Ref(h1, o, "gs") = gs /\ Lives(h1, gs, "self")
  BY <1>1 DEF Delists, RtcpUp, Clean, Same
<1>7. IsHeap(g) /\ Clean(h1, g, {o}) /\ Drops(h1, g, o, RtcpParts, {})
  BY <1>1, <1>6, DeleteRtcpGives DEF g
<1>8. Clean(h, g, {o})
  BY <1>1, <1>7, CleanThen
<1> QED
  BY <1>1, <1>5, <1>7, <1>8 DEF Delists, Drops, Closes

------------------------------------------------------------------------------
(* The objects of a stream, or of the description of one, by its number. *)

Within(h, o, parts) == \A part : Lives(h, o, part) => part \in parts
Gone(h, o, rest) == o \notin h.listed /\ Within(h, o, rest)

Seen == {"last_seen_sps", "last_seen_pps"}
SourceObjects(s) == {Framer(s), Parser(s), File(s)}
SourceUp(h, s, rest) ==
  /\ FramerUp(h, Framer(s), Parser(s), File(s))
  /\ Within(h, Framer(s), {"self", "next_task"} \cup rest)
  /\ Within(h, Parser(s), {"self", "bank0", "bank1"}) /\ Parser(s) \notin h.listed
  /\ Within(h, File(s), FileParts \cup {"idler"})
SourceGone(h, s, rest) == Gone(h, Framer(s), rest) /\ Gone(h, Parser(s), {}) /\ Gone(h, File(s), {})

LEMMA Names ==
  ASSUME NEW s
  PROVE  /\ Framer(s) \notin {Null, Server, Tables, Parser(s), File(s), Groupsock(s), Sink(s), Fragmenter(s), Rtcp(s)}
         /\ Parser(s) \notin {Null, Server, Tables, File(s), Groupsock(s), Sink(s), Fragmenter(s), Rtcp(s)}
         /\ File(s) \notin {Null, Server, Tables, Groupsock(s), Sink(s), Fragmenter(s), Rtcp(s)}
         /\ Groupsock(s) \notin {Null, Server, Tables, Sink(s), Fragmenter(s), Rtcp(s)}
         /\ Sink(s) \notin {Null, Server, Tables, Fragmenter(s), Rtcp(s)}
         /\ Fragmenter(s) \notin {Null, Server, Tables, Rtcp(s)}
         /\ Rtcp(s) \notin {Null, Server, Tables}
BY DEF Framer, Parser, File, Groupsock, Sink, Fragmenter, Rtcp, Null, Server, Tables

LEMMA MakeSource ==
  ASSUME NEW h, NEW s, NEW rest, IsHeap(h), TablesUp(h), SourceGone(h, s, rest)
  PROVE  LET g == CreateNewStreamSource(h, s)
         IN  IsHeap(g) /\ Clean(h, g, SourceObjects(s)) /\ SourceUp(g, s, rest)
<1> DEFINE f == File(s)
           o == Framer(s)
           p == Parser(s)
           h1 == NewByteStreamFileSource(h, f)
           g  == NewH264VideoStreamFramer(h1, o, f, p)
<1>0. f # Tables /\ o # Tables /\ p # o /\ f # o /\ f # p /\ f # Null
  BY Names
<1>1. CreateNewStreamSource(h, s) = g
  BY DEF CreateNewStreamSource
<1> HIDE DEF f, o, p, h1, g
<1>2. /\ IsHeap(h1) /\ Clean(h, h1, {f}) /\ f \in h1.listed
      /\ Adds(h, h1, f, {"self", "next_task", "fid"}, {"delete", "stop"})
      /\ Ref(h1, f, "delete") = "byte_stream" /\ Ref(h1, f, "stop") = "byte_stream"
  BY <1>0, NewFileGives DEF h1
<1>3. TablesUp(h1)
  BY <1>0, <1>2, TablesStay
<1>4. /\ IsHeap(g) /\ Clean(h1, g, {o, p})
      /\ o \in g.listed /\ (p \in g.listed <=> p \in h1.listed)
      /\ Adds(h1, g, o, {"self", "next_task"}, {"delete", "stop", "input_source", "parser"})
      /\ Adds(h1, g, p, {"self", "bank0", "bank1"}, {"delete"})
      /\ Ref(g, o, "stop") = "mpeg_framer" /\ Ref(g, o, "input_source") = f
      /\ Ref(g, o, "parser") = p /\ Ref(g, o, "delete") = "h264_framer"
  BY <1>0, <1>2, <1>3, NewFramerGives, SMTT(30) DEF g
<1>5. Same(h, h1, o) /\ Same(h, h1, p) /\ Same(h1, g, f)
  BY <1>0, <1>2, <1>4 DEF Clean
<1>6. Clean(h, g, SourceObjects(s))
  <2>1. Clean(h, h1, SourceObjects(s)) /\ Clean(h1, g, SourceObjects(s))
    BY <1>2, <1>4, CleanMore DEF SourceObjects, o, p, f
  <2> QED
    BY <2>1, CleanThen
<1>7. Gone(h, o, rest) /\ Gone(h, p, {}) /\ Gone(h, f, {})
  BY DEF SourceGone, o, p, f
<1>8. FileUp(g, f) /\ Within(g, f, FileParts \cup {"idler"})
  BY <1>2, <1>5, <1>7 DEF Same, Adds, FileUp, FileParts, Within, Gone
<1>9. Lives(g, p, "self") /\ Within(g, p, {"self", "bank0", "bank1"}) /\ p \notin g.listed
  BY <1>4, <1>5, <1>7 DEF Same, Adds, Within, Gone
<1>10. Lives(g, o, "self") /\ Lives(g, o, "next_task") /\ Within(g, o, {"self", "next_task"} \cup rest)
  BY <1>4, <1>5, <1>7 DEF Same, Adds, Within, Gone
<1>11. FramerUp(g, o, p, f)
  BY <1>0, <1>4, <1>8, <1>9, <1>10 DEF FramerUp
<1>12. SourceUp(g, s, rest)
  BY <1>8, <1>9, <1>10, <1>11 DEF SourceUp, o, p, f
<1> QED
  BY <1>1, <1>4, <1>6, <1>12

LEMMA CloseSource ==
  ASSUME NEW h, NEW s, NEW rest, IsHeap(h), Server \in h.listed, SourceUp(h, s, rest)
  PROVE  LET g == CloseMedium(h, Framer(s))
         IN  IsHeap(g) /\ Clean(h, g, SourceObjects(s)) /\ SourceGone(g, s, rest)
<1> DEFINE f == File(s)
           o == Framer(s)
           p == Parser(s)
           g == CloseMedium(h, o)
<1>0. Server \notin {o, p, f} /\ p # o /\ f # o /\ f # p /\ o # Null
  BY Names
<1>1. /\ FramerUp(h, o, p, f) /\ Within(h, o, {"self", "next_task"} \cup rest)
      /\ Within(h, p, {"self", "bank0", "bank1"}) /\ Within(h, f, FileParts \cup {"idler"})
      /\ p \notin h.listed
  BY DEF SourceUp
<1> HIDE DEF f, o, p, g
<1>2. /\ IsHeap(g) /\ Clean(h, g, {o, p, f}) /\ Closes(h, g, o, {"self", "next_task"})
      /\ Drops(h, g, p, {"self", "bank0", "bank1"}, {})
      /\ Closes(h, g, f, {"self", "next_task", "fid", "idler"})
  BY <1>0, <1>1, CloseFramerGives DEF g
<1>3. Gone(g, o, rest) /\ Gone(g, p, {}) /\ Gone(g, f, {})
  BY <1>1, <1>2 DEF Closes, Drops, Gone, Within, FileParts
<1> QED
  BY <1>2, <1>3 DEF SourceGone, SourceObjects, f, o, p, g

(* A sink that was made and not played. *)
SinkIdle(h, s) ==
  /\ SinkUp(h, Sink(s)) /\ Within(h, Sink(s), SinkRest)
  /\ Ref(h, Sink(s), "source") = Null /\ Ref(h, Sink(s), "our_fragmenter") = Null

LEMMA MakeSink ==
  ASSUME NEW h, NEW s, NEW sets, IsHeap(h), TablesUp(h), Gone(h, Sink(s), {}), Lives(h, Groupsock(s), "self"),
         sets \subseteq {"sps", "pps"}
  PROVE  LET g == CreateNewRtpSink(h, s, sets)
         IN  IsHeap(g) /\ Clean(h, g, {Sink(s)}) /\ SinkIdle(g, s)
<1> DEFINE o == Sink(s)
           gs == Groupsock(s)
           g == NewH264VideoRtpSink(h, o, gs, sets)
<1>0. o # Tables /\ gs # o
  BY Names
<1>1. CreateNewRtpSink(h, s, sets) = g
  BY DEF CreateNewRtpSink
<1>2. Gone(h, o, {}) /\ Lives(h, gs, "self")
  OBVIOUS
<1> HIDE DEF o, gs, g
<1>3. IsHeap(g) /\ Clean(h, g, {o}) /\ SinkMade(h, g, o, gs, sets)
  BY <1>0, <1>2, NewSinkGives DEF g
<1>4. SinkUp(g, o) /\ Within(g, o, SinkRest)
  BY <1>2, <1>3 DEF SinkMade, SinkUp, Adds, Within, Gone, SinkRest
<1> QED
  BY <1>1, <1>3, <1>4 DEF SinkMade, SinkIdle, o

LEMMA SinkIsHarmless ==
  ASSUME NEW s \in {Dummy, Stream}
  PROVE  <<"late", Sink(s), "out_buf">> \in Harmless
<1> DEFINE F(t) == <<"late", Sink(t), "out_buf">>
<1>1. F(s) \in {F(t) : t \in {Dummy, Stream}}
  <2> HIDE DEF F
  <2> QED
    OBVIOUS
<1> QED
  BY <1>1 DEF Harmless

LEMMA CloseIdleSink ==
  ASSUME NEW h, NEW s \in {Dummy, Stream}, IsHeap(h), Server \in h.listed, SinkIdle(h, s)
  PROVE  LET g == CloseMedium(h, Sink(s))
         IN  IsHeap(g) /\ Clean(h, g, {Sink(s)}) /\ Gone(g, Sink(s), {})
<1> DEFINE o == Sink(s)
           g == CloseMedium(h, o)
<1>0. o # Server /\ o # Null /\ <<"late", o, "out_buf">> \in Harmless
  BY Names, SinkIsHarmless
<1>1. SinkUp(h, o) /\ Within(h, o, SinkRest) /\ Ref(h, o, "our_fragmenter") = Null
  BY DEF SinkIdle
<1> HIDE DEF o, g
<1>2. IsHeap(g) /\ Clean(h, g, {o}) /\ Closes(h, g, o, SinkRest)
  BY <1>0, <1>1, CloseIdleSinkGives DEF g
<1>3. Gone(g, o, {})
  BY <1>1, <1>2 DEF Closes, Gone, Within
<1> QED
  BY <1>2, <1>3 DEF g, o

LEMMA SourceStays ==
  ASSUME NEW h, NEW g, NEW s, NEW rest, NEW O, Clean(h, g, O), SourceObjects(s) \cap O = {}, SourceUp(h, s, rest)
  PROVE  SourceUp(g, s, rest)
<1>1. Same(h, g, Framer(s)) /\ Same(h, g, Parser(s)) /\ Same(h, g, File(s))
  BY DEF Clean, SourceObjects
<1> QED
  BY <1>1 DEF Same, SourceUp, FramerUp, FileUp, FileParts, Within

LEMMA SinkIdleStays ==
  ASSUME NEW h, NEW g, NEW s, NEW O, Clean(h, g, O), Sink(s) \notin O, SinkIdle(h, s)
  PROVE  SinkIdle(g, s)
<1>1. Same(h, g, Sink(s))
  BY DEF Clean
<1> QED
  BY <1>1 DEF Same, SinkIdle, SinkUp, Within

LEMMA GoneStays ==
  ASSUME NEW h, NEW g, NEW O, NEW o, NEW rest, Clean(h, g, O), o \notin O, Gone(h, o, rest)
  PROVE  Gone(g, o, rest)
BY DEF Clean, Same, Gone, Within

------------------------------------------------------------------------------
(* The lines of one track: what is made to ask for them is gone again. *)

Dummies == SourceObjects(Dummy) \cup {Groupsock(Dummy), Sink(Dummy)}
DummiesGone(h) == SourceGone(h, Dummy, {}) /\ Gone(h, Groupsock(Dummy), {}) /\ Gone(h, Sink(Dummy), {})

Grows(h, g, o, parts, keys) ==
  /\ o \in g.listed <=> o \in h.listed
  /\ \A part : Lives(h, o, part) => Lives(g, o, part)
  /\ \A part : Lives(g, o, part) => Lives(h, o, part) \/ part \in parts
  /\ \A k : k \notin keys => Ref(g, o, k) = Ref(h, o, k)

LinesParts == {"sdp_lines", "track_id", "ip_address_str"}

LEMMA SetLinesGives ==
  ASSUME NEW h, NEW o, IsHeap(h)
  PROVE  LET g == SetSdpLinesFromRtpSink(h, o)
         IN  IsHeap(g) /\ Clean(h, g, {o}) /\ Grows(h, g, o, LinesParts, {"dummy_rtp_sink"})
<1> DEFINE h1 == GetAuxSdpLine(h, o)
           h2 == FreeIf(h1, o, "sdp_lines")
           g  == Make(h2, o, {"sdp_lines", "track_id", "ip_address_str"})
<1>0. SetSdpLinesFromRtpSink(h, o) = g
  BY DEF SetSdpLinesFromRtpSink
<1>1. IsHeap(h1) /\ Clean(h, h1, {o}) /\ Grows(h, h1, o, {}, {"dummy_rtp_sink"})
  <2>1. CASE h1 = h
    BY <2>1, CleanSelf DEF Grows
  <2>2. CASE h1 = Set(h, o, "dummy_rtp_sink", Sink(Dummy))
    <3>1. IsHeap(h1) /\ Clean(h, h1, {o}) /\ Sets(h, h1, o, "dummy_rtp_sink", Sink(Dummy))
      BY <2>2, SetStep
    <3> QED
      BY <3>1 DEF Sets, Grows
  <2> QED
    BY <2>1, <2>2 DEF GetAuxSdpLine
<1> HIDE DEF h1, h2, g
<1>2. IsHeap(h2) /\ Clean(h1, h2, {o}) /\ Frees(h1, h2, o, "sdp_lines")
  BY <1>1, FreeIfStep DEF h2
<1>3. IsHeap(g) /\ Clean(h2, g, {o}) /\ Makes(h2, g, o, {"sdp_lines", "track_id", "ip_address_str"})
  BY <1>2, MakeStep DEF g
<1>4. Clean(h, g, {o})
  BY <1>1, <1>2, <1>3, CleanThen
<1> QED
  BY <1>0, <1>1, <1>2, <1>3, <1>4 DEF Frees, Makes, Grows, LinesParts

LEMMA SdpLinesGives ==
  ASSUME NEW h, NEW o, IsHeap(h), TablesUp(h), Server \in h.listed, DummiesGone(h),
         o \notin Dummies \cup {Tables, Server}
  PROVE  LET g == SdpLines(h, o)
         IN  /\ IsHeap(g) /\ Clean(h, g, Dummies \cup {o}) /\ DummiesGone(g)
             /\ Grows(h, g, o, LinesParts, {"dummy_rtp_sink"})
<1>1. CASE Lives(h, o, "sdp_lines")
  <2>1. SdpLines(h, o) = h
    BY <1>1 DEF SdpLines
  <2> QED
    BY <2>1, CleanSelf DEF Grows
<1>2. CASE ~Lives(h, o, "sdp_lines")
  <2> DEFINE gs == Groupsock(Dummy)
             sink == Sink(Dummy)
             all == Dummies \cup {o}
             h1 == CreateNewStreamSource(h, Dummy)
             h2 == Make(h1, gs, {"self"})
             h3 == CreateNewRtpSink(h2, Dummy, {})
             h4 == SetSdpLinesFromRtpSink(h3, o)
             h5 == CloseMedium(h4, sink)
             h6 == Free(h5, gs, "self")
             g  == CloseMedium(h6, Framer(Dummy))
  <2>0. SdpLines(h, o) = g
    BY <1>2 DEF SdpLines, CreateGroupsock
  <2>a. /\ gs \notin SourceObjects(Dummy) \cup {sink, o, Server, Tables}
        /\ sink \notin SourceObjects(Dummy) \cup {o, Server, Tables}
        /\ o \notin SourceObjects(Dummy) /\ Tables \notin SourceObjects(Dummy) /\ Server \notin SourceObjects(Dummy)
    BY Names DEF Dummies, SourceObjects
  <2>b. /\ SourceObjects(Dummy) \cap {gs} = {} /\ SourceObjects(Dummy) \cap {sink} = {}
        /\ SourceObjects(Dummy) \cap {o} = {}
    BY <2>a
  <2>c. /\ SourceObjects(Dummy) \subseteq all /\ {gs} \subseteq all /\ {sink} \subseteq all /\ {o} \subseteq all
    BY DEF Dummies
  <2>d. Dummy \in {Dummy, Stream} /\ {} \subseteq {"sps", "pps"}
    OBVIOUS
  <2>e. SourceGone(h, Dummy, {}) /\ Gone(h, gs, {}) /\ Gone(h, sink, {})
    BY DEF DummiesGone
  <2> HIDE DEF h1, h2, h3, h4, h5, h6, g, all
  <2>1. IsHeap(h1) /\ Clean(h, h1, SourceObjects(Dummy)) /\ SourceUp(h1, Dummy, {})
    BY <2>e, MakeSource DEF h1
  <2>2. TablesUp(h1) /\ Same(h, h1, Server) /\ Same(h, h1, o) /\ Gone(h1, gs, {}) /\ Gone(h1, sink, {})
    <3>1. TablesUp(h1)
      BY <2>1, <2>a, TablesStay
    <3>2. Same(h, h1, Server) /\ Same(h, h1, o) /\ Same(h, h1, gs) /\ Same(h, h1, sink)
      BY <2>1, <2>a DEF Clean
    <3> QED
      BY <2>e, <3>1, <3>2 DEF Same, Gone, Within
  <2>3. IsHeap(h2) /\ Clean(h1, h2, {gs}) /\ Makes(h1, h2, gs, {"self"})
    BY <2>1, MakeStep DEF h2
  <2>4. TablesUp(h2) /\ Same(h1, h2, Server) /\ Same(h1, h2, o) /\ Same(h1, h2, sink) /\ SourceUp(h2, Dummy, {})
    <3>1. TablesUp(h2)
      BY <2>2, <2>3, <2>a, TablesStay
    <3>2. SourceUp(h2, Dummy, {})
      BY <2>1, <2>3, <2>b, SourceStays
    <3> QED
      BY <2>3, <2>a, <3>1, <3>2 DEF Clean
  <2>5. IsHeap(h3) /\ Clean(h2, h3, {sink}) /\ SinkIdle(h3, Dummy)
    <3>1. Gone(h2, sink, {}) /\ Lives(h2, gs, "self")
      BY <2>2, <2>3, <2>4 DEF Same, Gone, Within, Makes
    <3> QED
      BY <2>3, <2>4, <2>d, <3>1, MakeSink DEF h3
  <2>6. Same(h2, h3, Server) /\ Same(h2, h3, o) /\ Same(h2, h3, gs) /\ SourceUp(h3, Dummy, {})
    <3>1. SourceUp(h3, Dummy, {})
      BY <2>4, <2>5, <2>b, SourceStays
    <3> QED
      BY <2>5, <2>a, <3>1 DEF Clean
  <2>7. IsHeap(h4) /\ Clean(h3, h4, {o}) /\ Grows(h3, h4, o, LinesParts, {"dummy_rtp_sink"})
    BY <2>5, SetLinesGives DEF h4
  <2>8. Same(h3, h4, Server) /\ Same(h3, h4, gs) /\ SourceUp(h4, Dummy, {}) /\ SinkIdle(h4, Dummy)
    <3>1. SourceUp(h4, Dummy, {})
      BY <2>6, <2>7, <2>b, SourceStays
    <3>2. SinkIdle(h4, Dummy)
      BY <2>5, <2>7, <2>a, SinkIdleStays
    <3> QED
      BY <2>7, <2>a, <3>1, <3>2 DEF Clean
  <2>9. IsHeap(h5) /\ Clean(h4, h5, {sink}) /\ Gone(h5, sink, {})
    <3>1. Server \in h4.listed
      BY <2>2, <2>4, <2>6, <2>8 DEF Same
    <3> QED
      BY <2>7, <2>8, <2>d, <3>1, CloseIdleSink DEF h5
  <2>10. Same(h4, h5, Server) /\ Same(h4, h5, o) /\ Same(h4, h5, gs) /\ SourceUp(h5, Dummy, {})
    <3>1. SourceUp(h5, Dummy, {})
      BY <2>8, <2>9, <2>b, SourceStays
    <3> QED
      BY <2>9, <2>a, <3>1 DEF Clean
  <2>11. IsHeap(h6) /\ Clean(h5, h6, {gs}) /\ Frees(h5, h6, gs, "self")
    <3>1. Lives(h5, gs, "self")
      BY <2>3, <2>6, <2>8, <2>10 DEF Same, Makes
    <3> QED
      BY <2>9, <3>1, FreeStep DEF h6
  <2>12. Same(h5, h6, Server) /\ Same(h5, h6, o) /\ Same(h5, h6, sink) /\ SourceUp(h6, Dummy, {})
    <3>1. SourceUp(h6, Dummy, {})
      BY <2>10, <2>11, <2>b, SourceStays
    <3> QED
      BY <2>11, <2>a, <3>1 DEF Clean
  <2>13. IsHeap(g) /\ Clean(h6, g, SourceObjects(Dummy)) /\ SourceGone(g, Dummy, {})
    <3>1. Server \in h6.listed
      BY <2>2, <2>4, <2>6, <2>8, <2>10, <2>12 DEF Same
    <3> QED
      BY <2>11, <2>12, <3>1, CloseSource DEF g
  <2>14. Same(h6, g, o) /\ Same(h6, g, gs) /\ Same(h6, g, sink)
    BY <2>13, <2>a DEF Clean
  <2>15. Clean(h, g, all)
    <3>1. /\ Clean(h, h1, all) /\ Clean(h1, h2, all) /\ Clean(h2, h3, all) /\ Clean(h3, h4, all)
          /\ Clean(h4, h5, all) /\ Clean(h5, h6, all) /\ Clean(h6, g, all)
      BY <2>1, <2>3, <2>5, <2>7, <2>9, <2>11, <2>13, <2>c, CleanMore
    <3> QED
      BY <3>1, CleanThen
  <2>16. Grows(h, g, o, LinesParts, {"dummy_rtp_sink"})
    BY <2>2, <2>4, <2>6, <2>7, <2>10, <2>12, <2>14 DEF Same, Grows
  <2>17. Gone(g, sink, {})
    BY <2>9, <2>12, <2>14 DEF Same, Gone, Within
  <2>18. Gone(g, gs, {})
    <3>1. Gone(h5, gs, {"self"})
      BY <2>2, <2>3, <2>6, <2>8, <2>10 DEF Same, Gone, Within, Makes
    <3> QED
      BY <2>11, <2>14, <3>1 DEF Same, Gone, Within, Frees
  <2> QED
    BY <2>0, <2>13, <2>15, <2>16, <2>17, <2>18 DEF DummiesGone, all
<1> QED
  BY <1>1, <1>2

------------------------------------------------------------------------------
(* A session and its subsessions. *)

Tracks == 1 .. NumTracks
Tracked == {Subsession(t) : t \in Tracks}
StreamObjects == SourceObjects(Stream) \cup {Groupsock(Stream), Sink(Stream), Fragmenter(Stream), Rtcp(Stream)}
SessionObjects == {Session} \cup Tracked

(* The subsessions, each with the next one, and the session. *)
Node(t) == IF t = NumTracks + 1 THEN Null ELSE Subsession(t)
TrackUp(h, t) ==
  /\ Subsession(t) \in h.listed /\ \A part \in SubsessionParts : Lives(h, Subsession(t), part)
  /\ Within(h, Subsession(t), SubsessionParts \cup LinesParts)
  /\ Ref(h, Subsession(t), "delete") = "h264_subsession"
TrackRest == {"file_name", "ip_address_str"}
Linked(h) ==
  /\ Ref(h, Session, "head") = Node(1)
  /\ \A t \in Tracks : TrackUp(h, t) /\ Ref(h, Subsession(t), "next") = Node(t + 1)
SessionUp(h) ==
  /\ Session \in h.listed /\ \A part \in SessionParts : Lives(h, Session, part)
  /\ Within(h, Session, SessionParts \cup {"ip_address_str"})
  /\ Ref(h, Session, "delete") = "server_media_session" /\ Linked(h)
SessionGone(h) ==
  /\ Gone(h, Session, {"ip_address_str"})
  /\ \A t \in Tracks : Gone(h, Subsession(t), TrackRest)

ServerUp(h) ==
  /\ TablesUp(h) /\ Tables \notin h.listed
  /\ Server \in h.listed /\ Ref(h, Server, "delete") = "rtsp_server"
  /\ Lives(h, Server, "self") /\ Lives(h, Server, "client_connections")


OnlyTracks(h) == \A o \in h.listed : Ref(h, o, "delete") = "h264_subsession" => o \in Tracked

LEMMA TrackNames ==
  /\ \A t : Subsession(t) \notin {Null, Server, Tables, Session} \cup Dummies
  /\ Session \notin {Null, Server, Tables} \cup Dummies
  /\ \A t, u : Subsession(t) = Subsession(u) => t = u
  /\ \A t : Subsession(t)[2] = t
<1>1. ASSUME NEW t PROVE Subsession(t) \notin {Null, Server, Tables, Session} \cup Dummies
  BY DEF Subsession, Null, Server, Tables, Session, Dummies, SourceObjects, Framer, Parser, File, Groupsock, Sink
<1>2. Session \notin {Null, Server, Tables} \cup Dummies
  BY DEF Null, Server, Tables, Session, Dummies, SourceObjects, Framer, Parser, File, Groupsock, Sink
<1>3. ASSUME NEW t, NEW u, Subsession(t) = Subsession(u) PROVE t = u
  BY <1>3 DEF Subsession
<1>4. ASSUME NEW t PROVE Subsession(t)[2] = t
  BY DEF Subsession
<1> QED
  BY <1>1, <1>2, <1>3, <1>4

(* The subsessions after the first t ones. *)
After(t) == [i \in 1 .. (NumTracks - t) |-> Subsession(t + i)]

LEMMA AfterInSteps ==
  /\ After(NumTracks) = << >>
  /\ \A t \in 1 .. NumTracks : After(t - 1) = <<Subsession(t)>> \o After(t)
<1>0. NumTracks \in Nat
  BY DescriptionAssumption
<1>1. After(NumTracks) = << >>
  BY <1>0 DEF After
<1>2. ASSUME NEW t \in 1 .. NumTracks PROVE After(t - 1) = <<Subsession(t)>> \o After(t)
  <2> DEFINE S == {Subsession(u) : u \in Nat}
             first == <<Subsession(t)>>
             n == NumTracks - t
             all == first \o After(t)
  <2>1. n \in Nat /\ t \in Nat /\ n + 1 = NumTracks - (t - 1)
    BY <1>0
  <2>2. After(t) = [i \in 1 .. n |-> Subsession(t + i)] /\ After(t) \in Seq(S) /\ Len(After(t)) = n
    <3>1. \A i \in 1 .. n : Subsession(t + i) \in S
      BY <2>1
    <3> HIDE DEF S
    <3> QED
      BY <2>1, <3>1 DEF After
  <2>3. first \in Seq(S) /\ Len(first) = 1 /\ first[1] = Subsession(t)
    <3>1. Subsession(t) \in S
      BY <2>1
    <3> HIDE DEF S
    <3> QED
      BY <3>1
  <2> HIDE DEF first, n, S
  <2>4. /\ all \in Seq(S) /\ Len(all) = n + 1
        /\ \A i \in 1 .. n + 1 : all[i] = IF i <= 1 THEN first[i] ELSE After(t)[i - 1]
    <3>1. /\ all \in Seq(S) /\ Len(all) = Len(first) + Len(After(t))
          /\ \A i \in 1 .. Len(first) + Len(After(t)) :
               all[i] = IF i <= Len(first) THEN first[i] ELSE After(t)[i - Len(first)]
      BY <2>2, <2>3, ConcatProperties
    <3>2. Len(first) + Len(After(t)) = n + 1
      BY <2>1, <2>2, <2>3
    <3> QED
      BY <2>3, <3>1, <3>2
  <2>5. all = [i \in 1 .. n + 1 |-> all[i]]
    BY <2>1, <2>4, LenProperties
  <2>6. ASSUME NEW i \in 1 .. n + 1 PROVE all[i] = Subsession(t - 1 + i)
    <3>1. CASE i = 1
      BY <2>1, <2>3, <2>4, <3>1
    <3>2. CASE i # 1
      <4>1. i - 1 \in 1 .. n /\ t + (i - 1) = t - 1 + i /\ ~(i <= 1)
        BY <2>1, <3>2
      <4>2. After(t)[i - 1] = Subsession(t + (i - 1))
        <5> DEFINE F(j) == Subsession(t + j)
        <5>1. After(t) = [j \in 1 .. n |-> F(j)]
          BY <2>2
        <5> HIDE DEF F
        <5>2. After(t)[i - 1] = F(i - 1)
          BY <4>1, <5>1
        <5> QED
          BY <5>2 DEF F
      <4> QED
        BY <2>4, <4>1, <4>2
    <3> QED
      BY <3>1, <3>2
  <2>7. After(t - 1) = [i \in 1 .. n + 1 |-> Subsession(t - 1 + i)]
    BY <2>1 DEF After
  <2> HIDE DEF all
  <2>8. all = [i \in 1 .. n + 1 |-> Subsession(t - 1 + i)]
    BY <2>5, <2>6
  <2> QED
    BY <2>7, <2>8 DEF all, first
<1> QED
  BY <1>1, <1>2

LinkedIn(f, h) ==
  f = [s \in {Null} \cup {m \in h.listed : Ref(h, m, "delete") = "h264_subsession"} |->
         IF s = Null THEN << >> ELSE <<s>> \o f[Ref(h, s, "next")]]

LEMMA LinkedSteps ==
  ASSUME NEW h, NEW f, LinkedIn(f, h)
  PROVE  /\ f[Null] = << >>
         /\ \A s \in h.listed : s # Null /\ Ref(h, s, "delete") = "h264_subsession" => f[s] = <<s>> \o f[Ref(h, s, "next")]
<1> DEFINE F(s) == IF s = Null THEN << >> ELSE <<s>> \o f[Ref(h, s, "next")]
           D == {Null} \cup {m \in h.listed : Ref(h, m, "delete") = "h264_subsession"}
<1>1. ASSUME NEW s \in D PROVE f[s] = F(s)
  <2> DEFINE g == [j \in D |-> F(j)]
  <2>1. f = g
    BY DEF LinkedIn
  <2>2. g[s] = F(s)
    OBVIOUS
  <2> HIDE DEF g, F
  <2> QED
    BY <2>1, <2>2
<1>2. Null \in D /\ \A s \in h.listed : Ref(h, s, "delete") = "h264_subsession" => s \in D
  OBVIOUS
<1> HIDE DEF D
<1> QED
  BY <1>1, <1>2

LEMMA LinkedExists ==
  ASSUME NEW h, Linked(h), OnlyTracks(h)
  PROVE  \E f : LinkedIn(f, h)
<1> DEFINE D == {Null} \cup {m \in h.listed : Ref(h, m, "delete") = "h264_subsession"}
           f == [s \in D |-> IF s = Null THEN << >> ELSE After(s[2] - 1)]
           F(s) == IF s = Null THEN << >> ELSE <<s>> \o f[Ref(h, s, "next")]
<1>0. NumTracks \in Nat
  BY DescriptionAssumption
<1>1. \A s \in D : s # Null => s \in Tracked
  BY DEF OnlyTracks
<1>2. Null \in D /\ \A t \in Tracks : Subsession(t) \in D
  BY DEF Linked, TrackUp
<1>3. f[Null] = << >> /\ \A t \in Tracks : f[Subsession(t)] = After(t - 1)
  <2> HIDE DEF D
  <2>1. f[Null] = << >>
    BY <1>2
  <2>2. ASSUME NEW t \in Tracks PROVE f[Subsession(t)] = After(t - 1)
    <3>1. Subsession(t) \in D /\ Subsession(t) # Null /\ Subsession(t)[2] = t
      BY <1>2, TrackNames
    <3> QED
      BY <3>1
  <2> QED
    BY <2>1, <2>2
<1>4. ASSUME NEW t \in Tracks PROVE f[Node(t + 1)] = After(t)
  <2>1. CASE t = NumTracks
    BY <1>3, <2>1, AfterInSteps DEF Node
  <2>2. CASE t # NumTracks
    <3>1. t + 1 \in Tracks /\ (t + 1) - 1 = t /\ t + 1 # NumTracks + 1
      BY <1>0, <2>2 DEF Tracks
    <3> HIDE DEF f
    <3> QED
      BY <1>3, <3>1 DEF Node
  <2> QED
    BY <2>1, <2>2
<1>5. f = [s \in D |-> f[s]]
  OBVIOUS
<1>6. ASSUME NEW s \in D PROVE f[s] = F(s)
  <2>1. CASE s = Null
    BY <1>3, <2>1
  <2>2. CASE s # Null
    <3>1. PICK t \in Tracks : s = Subsession(t)
      BY <1>1, <2>2 DEF Tracked
    <3>2. Ref(h, s, "next") = Node(t + 1)
      BY <3>1 DEF Linked
    <3>3. After(t - 1) = <<s>> \o After(t)
      BY <3>1, AfterInSteps DEF Tracks
    <3> HIDE DEF f, D
    <3> QED
      BY <1>3, <1>4, <2>2, <3>1, <3>2, <3>3
  <2> QED
    BY <2>1, <2>2
<1>7. f = [s \in D |-> F(s)]
  <2> HIDE DEF F, D, f
  <2> QED
    BY <1>5, <1>6
<1>8. LinkedIn(f, h)
  BY <1>7 DEF LinkedIn
<1> HIDE DEF f
<1> QED
  BY <1>8

LEMMA SubsessionsGives ==
  ASSUME NEW h, Linked(h), OnlyTracks(h)
  PROVE  Subsessions(h, Session) = After(0)
<1> DEFINE f == CHOOSE g : LinkedIn(g, h)
<1>0. NumTracks \in Nat
  BY DescriptionAssumption
<1>1. Subsessions(h, Session) = f[Ref(h, Session, "head")]
  BY DEF Subsessions, LinkedIn
<1>2. LinkedIn(f, h)
  BY LinkedExists
<1> HIDE DEF f
<1>3. f[Null] = << >>
  BY <1>2, LinkedSteps
<1>4. ASSUME NEW t \in Tracks PROVE f[Subsession(t)] = <<Subsession(t)>> \o f[Node(t + 1)]
  <2>1. Subsession(t) \in h.listed /\ Ref(h, Subsession(t), "delete") = "h264_subsession" /\ Subsession(t) # Null
    BY TrackNames DEF Linked, TrackUp
  <2>2. Ref(h, Subsession(t), "next") = Node(t + 1)
    BY DEF Linked
  <2> QED
    BY <1>2, <2>1, <2>2, LinkedSteps
<1> DEFINE S == {i \in Nat : i <= NumTracks => f[Node(NumTracks - i + 1)] = After(NumTracks - i)}
<1>5. 0 \in S
  BY <1>0, <1>3, AfterInSteps DEF Node
<1>6. ASSUME NEW i \in 1 .. NumTracks, i - 1 \in S PROVE i \in S
  <2> DEFINE t == NumTracks - i + 1
  <2>1. t \in Tracks /\ i \in Nat /\ t # NumTracks + 1 /\ NumTracks - (i - 1) = t /\ NumTracks - i = t - 1
        /\ i - 1 <= NumTracks
    BY <1>0 DEF Tracks
  <2>2. f[Node(t + 1)] = After(t)
    BY <1>6, <2>1
  <2> HIDE DEF t
  <2>3. f[Node(t)] = <<Subsession(t)>> \o After(t)
    BY <1>4, <2>1, <2>2 DEF Node
  <2>4. f[Node(t)] = After(t - 1)
    BY <2>1, <2>3, AfterInSteps DEF Tracks
  <2>5. t = NumTracks - i + 1
    BY DEF t
  <2> QED
    BY <2>1, <2>4, <2>5
<1>7. NumTracks \in S
  <2> HIDE DEF S
  <2>1. 0 .. NumTracks \subseteq S
    BY <1>0, <1>5, <1>6, CountingUp
  <2> QED
    BY <1>0, <2>1
<1>8. f[Node(1)] = After(0)
  BY <1>0, <1>7
<1>9. Ref(h, Session, "head") = Node(1)
  BY DEF Linked
<1> QED
  BY <1>1, <1>8, <1>9

------------------------------------------------------------------------------
(* The recursive functions: each exists, because it does for the first steps. *)

AddTrack(h, t) == AddSubsession(NewH264FileSubsession(h, Subsession(t)), Session, Subsession(t))
DescribeTrack(h, i, chain) == SdpLines(h, chain[i])
BeginTrack(h, i, chain) == CloseBy(BeginDelete, h, chain[i])
EndTrack(h, i, chain) == DeleteH264FileSubsession(h, chain[Len(chain) + 1 - i])
CloseClient(h, i, media, sessions) ==
  IF Ref(h, sessions[i], "our_server_media_session") # media THEN h
  ELSE DeleteRtspClientSession(h, sessions[i])

AddedUpTo(f, n, h) ==
  f = [i \in 0 .. n |-> IF i = 0 THEN h ELSE AddTrack(f[i - 1], i)]

LEMMA AddedSteps ==
  ASSUME NEW h, NEW n \in Nat, NEW f, AddedUpTo(f, n, h)
  PROVE  f[0] = h /\ \A i \in 1 .. n : f[i] = AddTrack(f[i - 1], i)
<1> DEFINE F(i) == IF i = 0 THEN h ELSE AddTrack(f[i - 1], i)
<1>1. ASSUME NEW i \in 0 .. n PROVE f[i] = F(i)
  <2> DEFINE g == [j \in 0 .. n |-> F(j)]
  <2>1. f = g
    BY DEF AddedUpTo
  <2>2. g[i] = F(i)
    OBVIOUS
  <2> HIDE DEF g, F
  <2> QED
    BY <2>1, <2>2
<1>2. 0 \in 0 .. n /\ \A i \in 1 .. n : i \in 0 .. n /\ i # 0
  OBVIOUS
<1> QED
  BY <1>1, <1>2

LEMMA AddedExists ==
  ASSUME NEW h, NEW n \in Nat
  PROVE  \E f : AddedUpTo(f, n, h)
<1> DEFINE S == {m \in Nat : \E f : AddedUpTo(f, m, h)}
<1>1. 0 \in S
  <2> DEFINE f == [r \in 0 .. 0 |-> h]
             F(r) == IF r = 0 THEN h ELSE AddTrack(f[r - 1], r)
  <2>1. \A r \in 0 .. 0 : F(r) = h
    OBVIOUS
  <2>2. f = [r \in 0 .. 0 |-> F(r)]
    <3> HIDE DEF F
    <3> QED
      BY <2>1
  <2>3. AddedUpTo(f, 0, h)
    BY <2>2 DEF AddedUpTo
  <2> HIDE DEF f
  <2> QED
    BY <2>3
<1>2. ASSUME NEW i \in 1 .. n, i - 1 \in S PROVE i \in S
  <2>1. PICK f : AddedUpTo(f, i - 1, h)
    BY <1>2
  <2> DEFINE last == AddTrack(f[i - 1], i)
             g == [r \in 0 .. i |-> IF r = i THEN last ELSE f[r]]
             G(r) == IF r = 0 THEN h ELSE AddTrack(g[r - 1], r)
  <2>2. g[i] = last /\ (\A r \in 0 .. i - 1 : g[r] = f[r]) /\ g = [r \in 0 .. i |-> g[r]]
    OBVIOUS
  <2>3. f[0] = h /\ \A r \in 1 .. i - 1 : f[r] = AddTrack(f[r - 1], r)
    <3>1. i - 1 \in Nat
      OBVIOUS
    <3> QED
      BY <2>1, <3>1, AddedSteps
  <2> HIDE DEF g
  <2>4. ASSUME NEW r \in 0 .. i PROVE g[r] = G(r)
    <3>1. CASE r = 0
      <4>1. 0 \in 0 .. i - 1
        OBVIOUS
      <4>2. g[0] = h
        BY <2>2, <2>3, <4>1
      <4> QED
        BY <3>1, <4>2
    <3>2. CASE r \in 1 .. i - 1
      <4>1. r \in 0 .. i - 1 /\ r - 1 \in 0 .. i - 1 /\ r # 0
        BY <3>2
      <4>2. g[r] = f[r] /\ g[r - 1] = f[r - 1]
        BY <2>2, <4>1
      <4> QED
        BY <2>3, <3>2, <4>1, <4>2
    <3>3. CASE r = i
      <4>1. i - 1 \in 0 .. i - 1 /\ r # 0
        BY <3>3
      <4>2. g[i - 1] = f[i - 1]
        BY <2>2, <4>1
      <4> QED
        BY <2>2, <3>3, <4>1, <4>2
    <3> QED
      BY <3>1, <3>2, <3>3
  <2>5. g = [r \in 0 .. i |-> G(r)]
    <3> HIDE DEF G
    <3> QED
      BY <2>2, <2>4
  <2>6. AddedUpTo(g, i, h)
    BY <2>5 DEF AddedUpTo
  <2> QED
    BY <2>6
<1>3. 0 .. n \subseteq S
  <2> HIDE DEF S
  <2> QED
    BY <1>1, <1>2, CountingUp
<1> QED
  BY <1>3

DescribedUpTo(f, n, h, chain) ==
  f = [i \in 0 .. n |-> IF i = 0 THEN h ELSE DescribeTrack(f[i - 1], i, chain)]

LEMMA DescribedSteps ==
  ASSUME NEW h, NEW chain, NEW n \in Nat, NEW f, DescribedUpTo(f, n, h, chain)
  PROVE  f[0] = h /\ \A i \in 1 .. n : f[i] = DescribeTrack(f[i - 1], i, chain)
<1> DEFINE F(i) == IF i = 0 THEN h ELSE DescribeTrack(f[i - 1], i, chain)
<1>1. ASSUME NEW i \in 0 .. n PROVE f[i] = F(i)
  <2> DEFINE g == [j \in 0 .. n |-> F(j)]
  <2>1. f = g
    BY DEF DescribedUpTo
  <2>2. g[i] = F(i)
    OBVIOUS
  <2> HIDE DEF g, F
  <2> QED
    BY <2>1, <2>2
<1>2. 0 \in 0 .. n /\ \A i \in 1 .. n : i \in 0 .. n /\ i # 0
  OBVIOUS
<1> QED
  BY <1>1, <1>2

LEMMA DescribedExists ==
  ASSUME NEW h, NEW chain, NEW n \in Nat
  PROVE  \E f : DescribedUpTo(f, n, h, chain)
<1> DEFINE S == {m \in Nat : \E f : DescribedUpTo(f, m, h, chain)}
<1>1. 0 \in S
  <2> DEFINE f == [r \in 0 .. 0 |-> h]
             F(r) == IF r = 0 THEN h ELSE DescribeTrack(f[r - 1], r, chain)
  <2>1. \A r \in 0 .. 0 : F(r) = h
    OBVIOUS
  <2>2. f = [r \in 0 .. 0 |-> F(r)]
    <3> HIDE DEF F
    <3> QED
      BY <2>1
  <2>3. DescribedUpTo(f, 0, h, chain)
    BY <2>2 DEF DescribedUpTo
  <2> HIDE DEF f
  <2> QED
    BY <2>3
<1>2. ASSUME NEW i \in 1 .. n, i - 1 \in S PROVE i \in S
  <2>1. PICK f : DescribedUpTo(f, i - 1, h, chain)
    BY <1>2
  <2> DEFINE last == DescribeTrack(f[i - 1], i, chain)
             g == [r \in 0 .. i |-> IF r = i THEN last ELSE f[r]]
             G(r) == IF r = 0 THEN h ELSE DescribeTrack(g[r - 1], r, chain)
  <2>2. g[i] = last /\ (\A r \in 0 .. i - 1 : g[r] = f[r]) /\ g = [r \in 0 .. i |-> g[r]]
    OBVIOUS
  <2>3. f[0] = h /\ \A r \in 1 .. i - 1 : f[r] = DescribeTrack(f[r - 1], r, chain)
    <3>1. i - 1 \in Nat
      OBVIOUS
    <3> QED
      BY <2>1, <3>1, DescribedSteps
  <2> HIDE DEF g
  <2>4. ASSUME NEW r \in 0 .. i PROVE g[r] = G(r)
    <3>1. CASE r = 0
      <4>1. 0 \in 0 .. i - 1
        OBVIOUS
      <4>2. g[0] = h
        BY <2>2, <2>3, <4>1
      <4> QED
        BY <3>1, <4>2
    <3>2. CASE r \in 1 .. i - 1
      <4>1. r \in 0 .. i - 1 /\ r - 1 \in 0 .. i - 1 /\ r # 0
        BY <3>2
      <4>2. g[r] = f[r] /\ g[r - 1] = f[r - 1]
        BY <2>2, <4>1
      <4> QED
        BY <2>3, <3>2, <4>1, <4>2
    <3>3. CASE r = i
      <4>1. i - 1 \in 0 .. i - 1 /\ r # 0
        BY <3>3
      <4>2. g[i - 1] = f[i - 1]
        BY <2>2, <4>1
      <4> QED
        BY <2>2, <3>3, <4>1, <4>2
    <3> QED
      BY <3>1, <3>2, <3>3
  <2>5. g = [r \in 0 .. i |-> G(r)]
    <3> HIDE DEF G
    <3> QED
      BY <2>2, <2>4
  <2>6. DescribedUpTo(g, i, h, chain)
    BY <2>5 DEF DescribedUpTo
  <2> QED
    BY <2>6
<1>3. 0 .. n \subseteq S
  <2> HIDE DEF S
  <2> QED
    BY <1>1, <1>2, CountingUp
<1> QED
  BY <1>3

BegunUpTo(f, n, h, chain) ==
  f = [i \in 0 .. n |-> IF i = 0 THEN h ELSE BeginTrack(f[i - 1], i, chain)]

LEMMA BegunSteps ==
  ASSUME NEW h, NEW chain, NEW n \in Nat, NEW f, BegunUpTo(f, n, h, chain)
  PROVE  f[0] = h /\ \A i \in 1 .. n : f[i] = BeginTrack(f[i - 1], i, chain)
<1> DEFINE F(i) == IF i = 0 THEN h ELSE BeginTrack(f[i - 1], i, chain)
<1>1. ASSUME NEW i \in 0 .. n PROVE f[i] = F(i)
  <2> DEFINE g == [j \in 0 .. n |-> F(j)]
  <2>1. f = g
    BY DEF BegunUpTo
  <2>2. g[i] = F(i)
    OBVIOUS
  <2> HIDE DEF g, F
  <2> QED
    BY <2>1, <2>2
<1>2. 0 \in 0 .. n /\ \A i \in 1 .. n : i \in 0 .. n /\ i # 0
  OBVIOUS
<1> QED
  BY <1>1, <1>2

LEMMA BegunExists ==
  ASSUME NEW h, NEW chain, NEW n \in Nat
  PROVE  \E f : BegunUpTo(f, n, h, chain)
<1> DEFINE S == {m \in Nat : \E f : BegunUpTo(f, m, h, chain)}
<1>1. 0 \in S
  <2> DEFINE f == [r \in 0 .. 0 |-> h]
             F(r) == IF r = 0 THEN h ELSE BeginTrack(f[r - 1], r, chain)
  <2>1. \A r \in 0 .. 0 : F(r) = h
    OBVIOUS
  <2>2. f = [r \in 0 .. 0 |-> F(r)]
    <3> HIDE DEF F
    <3> QED
      BY <2>1
  <2>3. BegunUpTo(f, 0, h, chain)
    BY <2>2 DEF BegunUpTo
  <2> HIDE DEF f
  <2> QED
    BY <2>3
<1>2. ASSUME NEW i \in 1 .. n, i - 1 \in S PROVE i \in S
  <2>1. PICK f : BegunUpTo(f, i - 1, h, chain)
    BY <1>2
  <2> DEFINE last == BeginTrack(f[i - 1], i, chain)
             g == [r \in 0 .. i |-> IF r = i THEN last ELSE f[r]]
             G(r) == IF r = 0 THEN h ELSE BeginTrack(g[r - 1], r, chain)
  <2>2. g[i] = last /\ (\A r \in 0 .. i - 1 : g[r] = f[r]) /\ g = [r \in 0 .. i |-> g[r]]
    OBVIOUS
  <2>3. f[0] = h /\ \A r \in 1 .. i - 1 : f[r] = BeginTrack(f[r - 1], r, chain)
    <3>1. i - 1 \in Nat
      OBVIOUS
    <3> QED
      BY <2>1, <3>1, BegunSteps
  <2> HIDE DEF g
  <2>4. ASSUME NEW r \in 0 .. i PROVE g[r] = G(r)
    <3>1. CASE r = 0
      <4>1. 0 \in 0 .. i - 1
        OBVIOUS
      <4>2. g[0] = h
        BY <2>2, <2>3, <4>1
      <4> QED
        BY <3>1, <4>2
    <3>2. CASE r \in 1 .. i - 1
      <4>1. r \in 0 .. i - 1 /\ r - 1 \in 0 .. i - 1 /\ r # 0
        BY <3>2
      <4>2. g[r] = f[r] /\ g[r - 1] = f[r - 1]
        BY <2>2, <4>1
      <4> QED
        BY <2>3, <3>2, <4>1, <4>2
    <3>3. CASE r = i
      <4>1. i - 1 \in 0 .. i - 1 /\ r # 0
        BY <3>3
      <4>2. g[i - 1] = f[i - 1]
        BY <2>2, <4>1
      <4> QED
        BY <2>2, <3>3, <4>1, <4>2
    <3> QED
      BY <3>1, <3>2, <3>3
  <2>5. g = [r \in 0 .. i |-> G(r)]
    <3> HIDE DEF G
    <3> QED
      BY <2>2, <2>4
  <2>6. BegunUpTo(g, i, h, chain)
    BY <2>5 DEF BegunUpTo
  <2> QED
    BY <2>6
<1>3. 0 .. n \subseteq S
  <2> HIDE DEF S
  <2> QED
    BY <1>1, <1>2, CountingUp
<1> QED
  BY <1>3

EndedUpTo(f, n, h, chain) ==
  f = [i \in 0 .. n |-> IF i = 0 THEN h ELSE EndTrack(f[i - 1], i, chain)]

LEMMA EndedSteps ==
  ASSUME NEW h, NEW chain, NEW n \in Nat, NEW f, EndedUpTo(f, n, h, chain)
  PROVE  f[0] = h /\ \A i \in 1 .. n : f[i] = EndTrack(f[i - 1], i, chain)
<1> DEFINE F(i) == IF i = 0 THEN h ELSE EndTrack(f[i - 1], i, chain)
<1>1. ASSUME NEW i \in 0 .. n PROVE f[i] = F(i)
  <2> DEFINE g == [j \in 0 .. n |-> F(j)]
  <2>1. f = g
    BY DEF EndedUpTo
  <2>2. g[i] = F(i)
    OBVIOUS
  <2> HIDE DEF g, F
  <2> QED
    BY <2>1, <2>2
<1>2. 0 \in 0 .. n /\ \A i \in 1 .. n : i \in 0 .. n /\ i # 0
  OBVIOUS
<1> QED
  BY <1>1, <1>2

LEMMA EndedExists ==
  ASSUME NEW h, NEW chain, NEW n \in Nat
  PROVE  \E f : EndedUpTo(f, n, h, chain)
<1> DEFINE S == {m \in Nat : \E f : EndedUpTo(f, m, h, chain)}
<1>1. 0 \in S
  <2> DEFINE f == [r \in 0 .. 0 |-> h]
             F(r) == IF r = 0 THEN h ELSE EndTrack(f[r - 1], r, chain)
  <2>1. \A r \in 0 .. 0 : F(r) = h
    OBVIOUS
  <2>2. f = [r \in 0 .. 0 |-> F(r)]
    <3> HIDE DEF F
    <3> QED
      BY <2>1
  <2>3. EndedUpTo(f, 0, h, chain)
    BY <2>2 DEF EndedUpTo
  <2> HIDE DEF f
  <2> QED
    BY <2>3
<1>2. ASSUME NEW i \in 1 .. n, i - 1 \in S PROVE i \in S
  <2>1. PICK f : EndedUpTo(f, i - 1, h, chain)
    BY <1>2
  <2> DEFINE last == EndTrack(f[i - 1], i, chain)
             g == [r \in 0 .. i |-> IF r = i THEN last ELSE f[r]]
             G(r) == IF r = 0 THEN h ELSE EndTrack(g[r - 1], r, chain)
  <2>2. g[i] = last /\ (\A r \in 0 .. i - 1 : g[r] = f[r]) /\ g = [r \in 0 .. i |-> g[r]]
    OBVIOUS
  <2>3. f[0] = h /\ \A r \in 1 .. i - 1 : f[r] = EndTrack(f[r - 1], r, chain)
    <3>1. i - 1 \in Nat
      OBVIOUS
    <3> QED
      BY <2>1, <3>1, EndedSteps
  <2> HIDE DEF g
  <2>4. ASSUME NEW r \in 0 .. i PROVE g[r] = G(r)
    <3>1. CASE r = 0
      <4>1. 0 \in 0 .. i - 1
        OBVIOUS
      <4>2. g[0] = h
        BY <2>2, <2>3, <4>1
      <4> QED
        BY <3>1, <4>2
    <3>2. CASE r \in 1 .. i - 1
      <4>1. r \in 0 .. i - 1 /\ r - 1 \in 0 .. i - 1 /\ r # 0
        BY <3>2
      <4>2. g[r] = f[r] /\ g[r - 1] = f[r - 1]
        BY <2>2, <4>1
      <4> QED
        BY <2>3, <3>2, <4>1, <4>2
    <3>3. CASE r = i
      <4>1. i - 1 \in 0 .. i - 1 /\ r # 0
        BY <3>3
      <4>2. g[i - 1] = f[i - 1]
        BY <2>2, <4>1
      <4> QED
        BY <2>2, <3>3, <4>1, <4>2
    <3> QED
      BY <3>1, <3>2, <3>3
  <2>5. g = [r \in 0 .. i |-> G(r)]
    <3> HIDE DEF G
    <3> QED
      BY <2>2, <2>4
  <2>6. EndedUpTo(g, i, h, chain)
    BY <2>5 DEF EndedUpTo
  <2> QED
    BY <2>6
<1>3. 0 .. n \subseteq S
  <2> HIDE DEF S
  <2> QED
    BY <1>1, <1>2, CountingUp
<1> QED
  BY <1>3

ClosedUpTo(f, n, h, media, sessions) ==
  f = [i \in 0 .. n |-> IF i = 0 THEN h ELSE CloseClient(f[i - 1], i, media, sessions)]

LEMMA ClosedSteps ==
  ASSUME NEW h, NEW media, NEW sessions, NEW n \in Nat, NEW f, ClosedUpTo(f, n, h, media, sessions)
  PROVE  f[0] = h /\ \A i \in 1 .. n : f[i] = CloseClient(f[i - 1], i, media, sessions)
<1> DEFINE F(i) == IF i = 0 THEN h ELSE CloseClient(f[i - 1], i, media, sessions)
<1>1. ASSUME NEW i \in 0 .. n PROVE f[i] = F(i)
  <2> DEFINE g == [j \in 0 .. n |-> F(j)]
  <2>1. f = g
    BY DEF ClosedUpTo
  <2>2. g[i] = F(i)
    OBVIOUS
  <2> HIDE DEF g, F
  <2> QED
    BY <2>1, <2>2
<1>2. 0 \in 0 .. n /\ \A i \in 1 .. n : i \in 0 .. n /\ i # 0
  OBVIOUS
<1> QED
  BY <1>1, <1>2

LEMMA ClosedExists ==
  ASSUME NEW h, NEW media, NEW sessions, NEW n \in Nat
  PROVE  \E f : ClosedUpTo(f, n, h, media, sessions)
<1> DEFINE S == {m \in Nat : \E f : ClosedUpTo(f, m, h, media, sessions)}
<1>1. 0 \in S
  <2> DEFINE f == [r \in 0 .. 0 |-> h]
             F(r) == IF r = 0 THEN h ELSE CloseClient(f[r - 1], r, media, sessions)
  <2>1. \A r \in 0 .. 0 : F(r) = h
    OBVIOUS
  <2>2. f = [r \in 0 .. 0 |-> F(r)]
    <3> HIDE DEF F
    <3> QED
      BY <2>1
  <2>3. ClosedUpTo(f, 0, h, media, sessions)
    BY <2>2 DEF ClosedUpTo
  <2> HIDE DEF f
  <2> QED
    BY <2>3
<1>2. ASSUME NEW i \in 1 .. n, i - 1 \in S PROVE i \in S
  <2>1. PICK f : ClosedUpTo(f, i - 1, h, media, sessions)
    BY <1>2
  <2> DEFINE last == CloseClient(f[i - 1], i, media, sessions)
             g == [r \in 0 .. i |-> IF r = i THEN last ELSE f[r]]
             G(r) == IF r = 0 THEN h ELSE CloseClient(g[r - 1], r, media, sessions)
  <2>2. g[i] = last /\ (\A r \in 0 .. i - 1 : g[r] = f[r]) /\ g = [r \in 0 .. i |-> g[r]]
    OBVIOUS
  <2>3. f[0] = h /\ \A r \in 1 .. i - 1 : f[r] = CloseClient(f[r - 1], r, media, sessions)
    <3>1. i - 1 \in Nat
      OBVIOUS
    <3> QED
      BY <2>1, <3>1, ClosedSteps
  <2> HIDE DEF g
  <2>4. ASSUME NEW r \in 0 .. i PROVE g[r] = G(r)
    <3>1. CASE r = 0
      <4>1. 0 \in 0 .. i - 1
        OBVIOUS
      <4>2. g[0] = h
        BY <2>2, <2>3, <4>1
      <4> QED
        BY <3>1, <4>2
    <3>2. CASE r \in 1 .. i - 1
      <4>1. r \in 0 .. i - 1 /\ r - 1 \in 0 .. i - 1 /\ r # 0
        BY <3>2
      <4>2. g[r] = f[r] /\ g[r - 1] = f[r - 1]
        BY <2>2, <4>1
      <4> QED
        BY <2>3, <3>2, <4>1, <4>2
    <3>3. CASE r = i
      <4>1. i - 1 \in 0 .. i - 1 /\ r # 0
        BY <3>3
      <4>2. g[i - 1] = f[i - 1]
        BY <2>2, <4>1
      <4> QED
        BY <2>2, <3>3, <4>1, <4>2
    <3> QED
      BY <3>1, <3>2, <3>3
  <2>5. g = [r \in 0 .. i |-> G(r)]
    <3> HIDE DEF G
    <3> QED
      BY <2>2, <2>4
  <2>6. ClosedUpTo(g, i, h, media, sessions)
    BY <2>5 DEF ClosedUpTo
  <2> QED
    BY <2>6
<1>3. 0 .. n \subseteq S
  <2> HIDE DEF S
  <2> QED
    BY <1>1, <1>2, CountingUp
<1> QED
  BY <1>3

LEMMA NewSubsessionsGives ==
  ASSUME NEW h
  PROVE  \E f : AddedUpTo(f, NumTracks, h) /\ NewSubsessions(h) = f[NumTracks]
<1> DEFINE f == CHOOSE g : AddedUpTo(g, NumTracks, h)
<1>1. NumTracks \in Nat
  BY DescriptionAssumption
<1>2. NewSubsessions(h) = f[NumTracks]
  BY DEF NewSubsessions, AddedUpTo, AddTrack
<1>3. AddedUpTo(f, NumTracks, h)
  <2>1. \E g : AddedUpTo(g, NumTracks, h)
    BY <1>1, AddedExists
  <2> QED
    BY <2>1
<1> HIDE DEF f
<1> QED
  BY <1>2, <1>3

LEMMA GenerateGives ==
  ASSUME NEW h, NEW o, Len(Subsessions(h, o)) \in Nat
  PROVE  LET chain == Subsessions(h, o)
         IN  \E f : /\ DescribedUpTo(f, Len(chain), h, chain)
                    /\ GenerateSdpDescription(h, o) = Make(f[Len(chain)], o, {"ip_address_str"})
<1> DEFINE chain == Subsessions(h, o)
           f == CHOOSE g : DescribedUpTo(g, Len(chain), h, chain)
<1>1. GenerateSdpDescription(h, o) = Make(f[Len(chain)], o, {"ip_address_str"})
  BY DEF GenerateSdpDescription, DescribedUpTo, DescribeTrack
<1>2. DescribedUpTo(f, Len(chain), h, chain)
  <2>1. \E g : DescribedUpTo(g, Len(chain), h, chain)
    BY DescribedExists
  <2> QED
    BY <2>1
<1> HIDE DEF f
<1> QED
  BY <1>1, <1>2

LEMMA DeleteAllGives ==
  ASSUME NEW h, NEW o, Len(Subsessions(h, o)) \in Nat
  PROVE  LET chain == Subsessions(h, o)
         IN  \E f, e : /\ BegunUpTo(f, Len(chain), h, chain)
                       /\ EndedUpTo(e, Len(chain), f[Len(chain)], chain)
                       /\ DeleteAllSubsessions(h, o) = Set(Set(e[Len(chain)], o, "head", Null), o, "tail", Null)
<1> DEFINE chain == Subsessions(h, o)
           n == Len(chain)
           f == CHOOSE g : BegunUpTo(g, n, h, chain)
           e == CHOOSE g : EndedUpTo(g, n, f[n], chain)
<1>1. DeleteAllSubsessions(h, o) = Set(Set(e[n], o, "head", Null), o, "tail", Null)
  BY DEF DeleteAllSubsessions, BegunUpTo, EndedUpTo, BeginTrack, EndTrack
<1>2. BegunUpTo(f, n, h, chain)
  <2>1. \E g : BegunUpTo(g, n, h, chain)
    BY BegunExists
  <2> QED
    BY <2>1
<1>3. EndedUpTo(e, n, f[n], chain)
  <2> HIDE DEF f
  <2>1. \E g : EndedUpTo(g, n, f[n], chain)
    BY EndedExists
  <2> QED
    BY <2>1
<1> HIDE DEF f, e
<1> QED
  BY <1>1, <1>2, <1>3

LEMMA CloseAllGives ==
  ASSUME NEW h, NEW media, Len(SetToSeq(ClientSessions(h))) \in Nat
  PROVE  LET sessions == SetToSeq(ClientSessions(h))
         IN  \E f : /\ ClosedUpTo(f, Len(sessions), h, media, sessions)
                    /\ CloseAllClientSessions(h, media) = f[Len(sessions)]
<1> DEFINE sessions == SetToSeq(ClientSessions(h))
           f == CHOOSE g : ClosedUpTo(g, Len(sessions), h, media, sessions)
<1>1. CloseAllClientSessions(h, media) = f[Len(sessions)]
  BY DEF CloseAllClientSessions, ClosedUpTo, CloseClient
<1>2. ClosedUpTo(f, Len(sessions), h, media, sessions)
  <2>1. \E g : ClosedUpTo(g, Len(sessions), h, media, sessions)
    BY ClosedExists
  <2> QED
    BY <2>1
<1> HIDE DEF f
<1> QED
  BY <1>1, <1>2

------------------------------------------------------------------------------
(* A session that is made, track by track. *)

Keeps(h, g, p) ==
  /\ p \in g.listed <=> p \in h.listed
  /\ \A part : Lives(g, p, part) <=> Lives(h, p, part)

Built(h, t) ==
  /\ Session \in h.listed /\ \A part \in SessionParts : Lives(h, Session, part)
  /\ Within(h, Session, SessionParts \cup {"ip_address_str"})
  /\ Ref(h, Session, "delete") = "server_media_session"
  /\ Ref(h, Session, "head") = IF t = 0 THEN Null ELSE Subsession(1)
  /\ Ref(h, Session, "tail") = IF t = 0 THEN Null ELSE Subsession(t)
  /\ Ref(h, Session, "reference_count") = 0 /\ Ref(h, Session, "delete_when_unreferenced") = FALSE
  /\ \A u \in 1 .. t : TrackUp(h, u) /\ Ref(h, Subsession(u), "next") = IF u = t THEN Null ELSE Subsession(u + 1)
  /\ \A u \in t + 1 .. NumTracks : Gone(h, Subsession(u), TrackRest)

LEMMA LinkGives ==
  ASSUME NEW h, NEW t \in Tracks, IsHeap(h),
         Ref(h, Session, "tail") = IF t = 1 THEN Null ELSE Subsession(t - 1)
  PROVE  LET g == IF Ref(h, Session, "tail") = Null THEN Set(h, Session, "head", Subsession(t))
                  ELSE Set(h, Ref(h, Session, "tail"), "next", Subsession(t))
         IN  /\ IsHeap(g) /\ Clean(h, g, SessionObjects)
             /\ \A p : Keeps(h, g, p)
             /\ \A k : k # "head" => Ref(g, Session, k) = Ref(h, Session, k)
             /\ Ref(g, Session, "head") = IF t = 1 THEN Subsession(t) ELSE Ref(h, Session, "head")
             /\ \A u \in Tracks : \A k : k # "next" => Ref(g, Subsession(u), k) = Ref(h, Subsession(u), k)
             /\ \A u \in Tracks : Ref(g, Subsession(u), "next") =
                                   IF u = t - 1 THEN Subsession(t) ELSE Ref(h, Subsession(u), "next")
<1> DEFINE x == IF t = 1 THEN Session ELSE Subsession(t - 1)
           f == IF t = 1 THEN "head" ELSE "next"
           g == Set(h, x, f, Subsession(t))
<1>0. NumTracks \in Nat /\ t \in Nat
  BY DescriptionAssumption DEF Tracks
<1>1. (IF Ref(h, Session, "tail") = Null THEN Set(h, Session, "head", Subsession(t))
       ELSE Set(h, Ref(h, Session, "tail"), "next", Subsession(t))) = g
  BY TrackNames
<1>2. x \in SessionObjects
  <2>1. CASE t = 1
    BY <2>1 DEF SessionObjects
  <2>2. CASE t # 1
    <3>1. t - 1 \in Tracks
      BY <1>0, <2>2 DEF Tracks
    <3> QED
      BY <2>2, <3>1 DEF SessionObjects, Tracked
  <2> QED
    BY <2>1, <2>2
<1>3. \A u \in Tracks : u # 0
  BY DEF Tracks
<1>4. /\ x = Session <=> t = 1
      /\ \A u \in Tracks : x = Subsession(u) <=> u = t - 1
  BY <1>0, <1>3, TrackNames
<1>5. IsHeap(g) /\ Clean(h, g, {x}) /\ Sets(h, g, x, f, Subsession(t))
  BY SetStep
<1>6. IsHeap(g) /\ SameBlocks(h, g) /\ \A p, k : Ref(g, p, k) = IF p = x /\ k = f THEN Subsession(t) ELSE Ref(h, p, k)
  BY SetGives
<1> HIDE DEF g, x
<1>7. Clean(h, g, SessionObjects)
  BY <1>2, <1>5, CleanMore
<1>8. \A p : Keeps(h, g, p)
  BY <1>6 DEF SameBlocks, Keeps, Lives
<1>9. \A k : k # "head" => Ref(g, Session, k) = Ref(h, Session, k)
  BY <1>4, <1>6
<1>10. Ref(g, Session, "head") = IF t = 1 THEN Subsession(t) ELSE Ref(h, Session, "head")
  BY <1>4, <1>6
<1>11. ASSUME NEW u \in Tracks
       PROVE  /\ \A k : k # "next" => Ref(g, Subsession(u), k) = Ref(h, Subsession(u), k)
              /\ Ref(g, Subsession(u), "next") = IF u = t - 1 THEN Subsession(t) ELSE Ref(h, Subsession(u), "next")
  <2>1. u = t - 1 => t # 1
    BY <1>3
  <2> QED
    BY <1>4, <1>6, <2>1
<1> QED
  BY <1>1, <1>5, <1>7, <1>8, <1>9, <1>10, <1>11

LEMMA AddTrackGives ==
  ASSUME NEW h, NEW t \in Tracks, IsHeap(h), TablesUp(h), Built(h, t - 1)
  PROVE  LET g == AddTrack(h, t)
         IN  IsHeap(g) /\ Clean(h, g, SessionObjects) /\ Built(g, t)
<1> DEFINE s == Subsession(t)
           h1 == NewH264FileSubsession(h, s)
           h2 == IF Ref(h1, Session, "tail") = Null THEN Set(h1, Session, "head", s)
                 ELSE Set(h1, Ref(h1, Session, "tail"), "next", s)
           h3 == Set(h2, Session, "tail", s)
           g  == Set(h3, s, "parent_session", Session)
<1>0. NumTracks \in Nat /\ t \in Nat /\ t # 0
  BY DescriptionAssumption DEF Tracks
<1>a. /\ s # Tables /\ Session # s /\ s # Null /\ \A u \in Tracks : Subsession(u) # Session
      /\ \A u \in Tracks : Subsession(u) = s => u = t
  BY TrackNames
<1>b. {s} \subseteq SessionObjects /\ {Session} \subseteq SessionObjects
  BY DEF SessionObjects, Tracked
<1>c. s = Subsession(t)
  OBVIOUS
<1>1. AddTrack(h, t) = IF Ref(h1, s, "parent_session") # Null THEN h1 ELSE g
  BY DEF AddTrack, AddSubsession
<1> HIDE DEF h1, h2, h3, g, s
<1>2. /\ IsHeap(h1) /\ Clean(h, h1, {s}) /\ s \in h1.listed
      /\ Adds(h, h1, s, SubsessionParts, {"delete", "next", "parent_session", "dummy_rtp_sink"})
      /\ Ref(h1, s, "next") = Null /\ Ref(h1, s, "parent_session") = Null /\ Ref(h1, s, "delete") = "h264_subsession"
  BY <1>a, NewSubsessionGives DEF h1
<1>3. AddTrack(h, t) = g
  BY <1>1, <1>2
<1>4. Same(h, h1, Session) /\ \A u \in Tracks : u # t => Same(h, h1, Subsession(u))
  BY <1>2, <1>a DEF Clean
<1>5. Ref(h1, Session, "tail") = IF t = 1 THEN Null ELSE Subsession(t - 1)
  BY <1>0, <1>4 DEF Same, Built
<1>6. /\ IsHeap(h2) /\ Clean(h1, h2, SessionObjects)
      /\ \A p : Keeps(h1, h2, p)
      /\ \A k : k # "head" => Ref(h2, Session, k) = Ref(h1, Session, k)
      /\ Ref(h2, Session, "head") = IF t = 1 THEN s ELSE Ref(h1, Session, "head")
      /\ \A u \in Tracks : \A k : k # "next" => Ref(h2, Subsession(u), k) = Ref(h1, Subsession(u), k)
      /\ \A u \in Tracks : Ref(h2, Subsession(u), "next") =
                            IF u = t - 1 THEN s ELSE Ref(h1, Subsession(u), "next")
  BY <1>2, <1>5, LinkGives DEF h2, s
<1>7. IsHeap(h3) /\ Clean(h2, h3, {Session}) /\ Sets(h2, h3, Session, "tail", s)
  BY <1>6, SetStep DEF h3
<1>8. IsHeap(g) /\ Clean(h3, g, {s}) /\ Sets(h3, g, s, "parent_session", Session)
  BY <1>7, SetStep DEF g
<1>9. Clean(h, g, SessionObjects)
  <2>1. Clean(h, h1, SessionObjects) /\ Clean(h2, h3, SessionObjects) /\ Clean(h3, g, SessionObjects)
    BY <1>2, <1>7, <1>8, <1>b, CleanMore
  <2> QED
    BY <1>6, <2>1, CleanThen
<1>10. Same(h2, h3, s) /\ (\A u \in Tracks : Same(h2, h3, Subsession(u)))
  BY <1>7, <1>a DEF Clean
<1>11. Same(h3, g, Session) /\ \A u \in Tracks : u # t => Same(h3, g, Subsession(u))
  BY <1>8, <1>a DEF Clean
<1>12. /\ \A k : k \notin {"head", "tail"} => Ref(g, Session, k) = Ref(h, Session, k)
       /\ Ref(g, Session, "head") = IF t = 1 THEN s ELSE Ref(h, Session, "head")
       /\ Ref(g, Session, "tail") = s
  BY <1>4, <1>6, <1>7, <1>11 DEF Same, Sets
<1>13. Keeps(h, g, Session)
  BY <1>4, <1>6, <1>7, <1>11 DEF Same, Sets, Keeps
<1>14. TrackUp(g, t) /\ Ref(g, s, "next") = Null
  <2>1. Gone(h, s, TrackRest)
    BY <1>0, <1>c DEF Built, Tracks
  <2>2. Keeps(h1, g, s)
    BY <1>6, <1>8, <1>10 DEF Same, Sets, Keeps
  <2>3. t # t - 1
    BY <1>0
  <2>4. Ref(g, s, "delete") = "h264_subsession" /\ Ref(g, s, "next") = Null
    BY <1>2, <1>6, <1>8, <1>10, <1>c, <2>3 DEF Same, Sets
  <2>5. \A part \in SubsessionParts : Lives(g, s, part)
    BY <1>2, <2>2 DEF Adds, Keeps
  <2>6. Within(g, s, SubsessionParts \cup LinesParts)
    BY <1>2, <2>1, <2>2 DEF Adds, Keeps, Gone, Within, TrackRest, SubsessionParts, LinesParts
  <2>7. s \in g.listed
    BY <1>2, <2>2 DEF Keeps
  <2> QED
    BY <2>4, <2>5, <2>6, <2>7, <1>c DEF TrackUp
<1>15. ASSUME NEW u \in Tracks, u # t
       PROVE  /\ Keeps(h, g, Subsession(u))
              /\ Ref(g, Subsession(u), "delete") = Ref(h, Subsession(u), "delete")
              /\ Ref(g, Subsession(u), "next") = IF u = t - 1 THEN s ELSE Ref(h, Subsession(u), "next")
  <2>1. Same(h, h1, Subsession(u)) /\ Same(h2, h3, Subsession(u)) /\ Same(h3, g, Subsession(u))
    BY <1>4, <1>10, <1>11, <1>15
  <2>2. /\ Keeps(h1, h2, Subsession(u))
        /\ Ref(h2, Subsession(u), "delete") = Ref(h1, Subsession(u), "delete")
        /\ Ref(h2, Subsession(u), "next") = IF u = t - 1 THEN s ELSE Ref(h1, Subsession(u), "next")
    BY <1>6
  <2>3. Keeps(h, g, Subsession(u))
    BY <2>1, <2>2 DEF Same, Keeps
  <2> QED
    BY <2>1, <2>2, <2>3 DEF Same
<1>16. ASSUME NEW u \in 1 .. t
       PROVE  TrackUp(g, u) /\ Ref(g, Subsession(u), "next") = IF u = t THEN Null ELSE Subsession(u + 1)
  <2>1. CASE u = t
    BY <1>14, <1>c, <2>1
  <2>2. CASE u # t
    <3>1. u \in Tracks /\ u \in 1 .. t - 1
      BY <1>0, <2>2 DEF Tracks
    <3>2. TrackUp(h, u) /\ Ref(h, Subsession(u), "next") = IF u = t - 1 THEN Null ELSE Subsession(u + 1)
      BY <3>1 DEF Built
    <3>3. TrackUp(g, u)
      BY <1>15, <2>2, <3>1, <3>2 DEF TrackUp, Keeps, Within
    <3>4. u = t - 1 => u + 1 = t
      BY <1>0, <3>1
    <3> QED
      BY <1>15, <1>c, <2>2, <3>1, <3>2, <3>3, <3>4
  <2> QED
    BY <2>1, <2>2
<1>17. ASSUME NEW u \in t + 1 .. NumTracks PROVE Gone(g, Subsession(u), TrackRest)
  <2>1. u \in Tracks /\ u # t /\ u \in (t - 1) + 1 .. NumTracks
    BY <1>0 DEF Tracks
  <2>2. Gone(h, Subsession(u), TrackRest)
    BY <2>1 DEF Built
  <2> QED
    BY <1>15, <2>1, <2>2 DEF Gone, Within, Keeps
<1>18. /\ Session \in g.listed /\ \A part \in SessionParts : Lives(g, Session, part)
       /\ Within(g, Session, SessionParts \cup {"ip_address_str"})
  BY <1>13 DEF Built, Keeps, Within
<1>19. Ref(g, Session, "head") = IF t = 0 THEN Null ELSE Subsession(1)
  <2>1. Ref(h, Session, "head") = IF t - 1 = 0 THEN Null ELSE Subsession(1)
    BY DEF Built
  <2> QED
    BY <1>0, <1>12, <1>c, <2>1
<1>20. Ref(g, Session, "tail") = IF t = 0 THEN Null ELSE Subsession(t)
  BY <1>0, <1>12, <1>c
<1>21. /\ Ref(g, Session, "delete") = "server_media_session" /\ Ref(g, Session, "reference_count") = 0
       /\ Ref(g, Session, "delete_when_unreferenced") = FALSE
  BY <1>12 DEF Built
<1> QED
  BY <1>3, <1>8, <1>9, <1>16, <1>17, <1>18, <1>19, <1>20, <1>21 DEF Built

LEMMA MakeSession ==
  ASSUME NEW h, IsHeap(h), TablesUp(h), SessionGone(h)
  PROVE  LET g == NewSubsessions(NewServerMediaSession(h, Session))
         IN  /\ IsHeap(g) /\ Clean(h, g, SessionObjects) /\ SessionUp(g)
             /\ Ref(g, Session, "reference_count") = 0 /\ Ref(g, Session, "delete_when_unreferenced") = FALSE
<1> DEFINE h1 == NewServerMediaSession(h, Session)
           g  == NewSubsessions(h1)
<1>0. NumTracks \in Nat /\ Session # Tables /\ Tables \notin SessionObjects
      /\ (\A t : Session # Subsession(t)) /\ {Session} \subseteq SessionObjects
  BY DescriptionAssumption, TrackNames DEF SessionObjects, Tracked
<1> HIDE DEF h1, g
<1>1. /\ IsHeap(h1) /\ Clean(h, h1, {Session}) /\ Session \in h1.listed
      /\ Adds(h, h1, Session, SessionParts, SessionFields)
      /\ Ref(h1, Session, "reference_count") = 0 /\ Ref(h1, Session, "delete_when_unreferenced") = FALSE
      /\ Ref(h1, Session, "head") = Null /\ Ref(h1, Session, "tail") = Null
      /\ Ref(h1, Session, "delete") = "server_media_session"
  BY <1>0, NewSessionGives DEF h1
<1>2. TablesUp(h1)
  BY <1>0, <1>1, TablesStay
<1>3. Built(h1, 0)
  <2>1. (\A part \in SessionParts : Lives(h1, Session, part)) /\ Within(h1, Session, SessionParts \cup {"ip_address_str"})
    BY <1>1 DEF Adds, SessionGone, Gone, Within
  <2>2. ASSUME NEW t \in Tracks PROVE Gone(h1, Subsession(t), TrackRest)
    <3>1. Subsession(t) \notin {Session} /\ Gone(h, Subsession(t), TrackRest)
      BY <1>0 DEF SessionGone
    <3> QED
      BY <1>1, <3>1, GoneStays
  <2>3. \A u \in 0 + 1 .. NumTracks : u \in Tracks
    BY <1>0 DEF Tracks
  <2>4. \A u \in 1 .. 0 : FALSE
    OBVIOUS
  <2> QED
    BY <1>1, <2>1, <2>2, <2>3, <2>4 DEF Built
<1>4. PICK f : AddedUpTo(f, NumTracks, h1) /\ g = f[NumTracks]
  BY NewSubsessionsGives DEF g
<1>5. f[0] = h1 /\ \A t \in 1 .. NumTracks : f[t] = AddTrack(f[t - 1], t)
  BY <1>0, <1>4, AddedSteps
<1> DEFINE S == {t \in Nat : IsHeap(f[t]) /\ Clean(h1, f[t], SessionObjects) /\ Built(f[t], t)}
<1>6. 0 \in S
  BY <1>1, <1>3, <1>5, CleanSelf
<1>7. ASSUME NEW t \in 1 .. NumTracks, t - 1 \in S PROVE t \in S
  <2> DEFINE k == f[t - 1]
  <2>1. IsHeap(k) /\ Clean(h1, k, SessionObjects) /\ Built(k, t - 1) /\ t \in Tracks
    BY <1>7 DEF Tracks
  <2>2. f[t] = AddTrack(k, t)
    BY <1>5
  <2> HIDE DEF k
  <2>3. TablesUp(k)
    BY <1>0, <1>2, <2>1, TablesStay
  <2>4. IsHeap(f[t]) /\ Clean(k, f[t], SessionObjects) /\ Built(f[t], t)
    BY <2>1, <2>2, <2>3, AddTrackGives
  <2>5. Clean(h1, f[t], SessionObjects)
    BY <2>1, <2>4, CleanThen
  <2> QED
    BY <2>4, <2>5
<1>8. NumTracks \in S
  <2> HIDE DEF S
  <2>1. 0 .. NumTracks \subseteq S
    BY <1>0, <1>6, <1>7, CountingUp
  <2> QED
    BY <1>0, <2>1
<1>9. IsHeap(g) /\ Clean(h1, g, SessionObjects) /\ Built(g, NumTracks)
  BY <1>4, <1>8
<1>10. Clean(h, g, SessionObjects)
  <2>1. Clean(h, h1, SessionObjects)
    BY <1>0, <1>1, CleanMore
  <2> QED
    BY <1>9, <2>1, CleanThen
<1>11. SessionUp(g)
  <2>1. Ref(g, Session, "head") = Node(1)
    <3>1. NumTracks = 0 <=> 1 = NumTracks + 1
      BY <1>0
    <3> QED
      BY <1>9, <3>1 DEF Built, Node
  <2>2. ASSUME NEW t \in Tracks PROVE TrackUp(g, t) /\ Ref(g, Subsession(t), "next") = Node(t + 1)
    <3>1. t = NumTracks <=> t + 1 = NumTracks + 1
      BY <1>0 DEF Tracks
    <3> QED
      BY <1>9, <3>1 DEF Built, Node, Tracks
  <2> QED
    BY <1>9, <2>1, <2>2 DEF Built, SessionUp, Linked
<1>12. Ref(g, Session, "reference_count") = 0 /\ Ref(g, Session, "delete_when_unreferenced") = FALSE
  BY <1>9 DEF Built
<1> QED
  BY <1>9, <1>10, <1>11, <1>12 DEF g, h1

(* A description: the lines of each track, and an address. *)

LEMMA AfterNone ==
  /\ Len(After(0)) = NumTracks /\ \A t \in Tracks : After(0)[t] = Subsession(t)
<1> DEFINE F(i) == Subsession(0 + i)
           G(i) == Subsession(i)
           S == {Subsession(u) : u \in Nat}
<1>0. NumTracks \in Nat /\ NumTracks - 0 = NumTracks
  BY DescriptionAssumption
<1>1. After(0) = [i \in 1 .. NumTracks |-> F(i)]
  BY <1>0 DEF After
<1>2. \A i \in 1 .. NumTracks : F(i) \in S /\ F(i) = Subsession(i)
  OBVIOUS
<1> HIDE DEF F, S
<1>3. After(0) \in Seq(S) /\ Len(After(0)) = NumTracks
  BY <1>0, <1>1, <1>2
<1>4. \A t \in 1 .. NumTracks : After(0)[t] = F(t)
  BY <1>1
<1> QED
  BY <1>2, <1>3, <1>4 DEF Tracks

LEMMA DescribeSessionGives ==
  ASSUME NEW h, IsHeap(h), TablesUp(h), Server \in h.listed, DummiesGone(h), SessionUp(h), OnlyTracks(h)
  PROVE  LET g == GenerateSdpDescription(h, Session)
         IN  /\ IsHeap(g) /\ Clean(h, g, Dummies \cup SessionObjects) /\ DummiesGone(g) /\ SessionUp(g)
             /\ \A k : Ref(g, Session, k) = Ref(h, Session, k)
<1> DEFINE all == Dummies \cup SessionObjects
           chain == After(0)
<1>0. /\ NumTracks \in Nat /\ Tables \notin all /\ Server \notin all /\ Session \notin Dummies
      /\ (\A t : Session # Subsession(t) /\ Subsession(t) \notin Dummies)
      /\ {Session} \subseteq all /\ \A t \in Tracks : Dummies \cup {Subsession(t)} \subseteq all
  <2>1. NumTracks \in Nat
    BY DescriptionAssumption
  <2>2. Tables \notin Dummies /\ Server \notin Dummies
    BY Names DEF Dummies, SourceObjects
  <2>3. Session \notin {Tables, Server} /\ \A t : Subsession(t) \notin {Tables, Server}
    BY TrackNames
  <2>4. Tables \notin all /\ Server \notin all
    BY <2>2, <2>3 DEF SessionObjects, Tracked
  <2>5. Session \notin Dummies /\ \A t : Session # Subsession(t) /\ Subsession(t) \notin Dummies
    BY TrackNames
  <2>6. {Session} \subseteq all /\ \A t \in Tracks : Dummies \cup {Subsession(t)} \subseteq all
    BY DEF SessionObjects, Tracked
  <2> QED
    BY <2>1, <2>4, <2>5, <2>6
<1>1. Subsessions(h, Session) = chain /\ Len(chain) = NumTracks /\ \A t \in Tracks : chain[t] = Subsession(t)
  BY SubsessionsGives, AfterNone DEF SessionUp
<1>2. PICK f : /\ DescribedUpTo(f, NumTracks, h, chain)
               /\ GenerateSdpDescription(h, Session) = Make(f[NumTracks], Session, {"ip_address_str"})
  <2> HIDE DEF chain
  <2>1. Len(Subsessions(h, Session)) \in Nat
    BY <1>0, <1>1
  <2> QED
    BY <1>1, <2>1, GenerateGives
<1> HIDE DEF chain, all
<1>3. f[0] = h /\ \A t \in 1 .. NumTracks : f[t] = DescribeTrack(f[t - 1], t, chain)
  <2>1. NumTracks \in Nat /\ DescribedUpTo(f, NumTracks, h, chain)
    BY <1>0, <1>2
  <2>2. \A n \in Nat : DescribedUpTo(f, n, h, chain) =>
          f[0] = h /\ \A i \in 1 .. n : f[i] = DescribeTrack(f[i - 1], i, chain)
    BY DescribedSteps
  <2> QED
    BY <2>1, <2>2
<1> DEFINE Written(g) == \A t \in Tracks : Grows(h, g, Subsession(t), LinesParts, {"dummy_rtp_sink"})
           S == {t \in Nat : /\ IsHeap(f[t]) /\ Clean(h, f[t], all) /\ DummiesGone(f[t])
                             /\ Same(h, f[t], Session) /\ Written(f[t])}
<1>4. 0 \in S
  <2>1. Same(h, h, Session) /\ Written(h) /\ Clean(h, h, all)
    BY CleanSelf DEF Same, Grows
  <2> HIDE DEF Written
  <2> QED
    BY <1>3, <2>1
<1>5. ASSUME NEW t \in 1 .. NumTracks, t - 1 \in S PROVE t \in S
  <2> DEFINE k == f[t - 1]
             g == f[t]
             s == Subsession(t)
  <2>1. IsHeap(k) /\ Clean(h, k, all) /\ DummiesGone(k) /\ Same(h, k, Session) /\ Written(k) /\ t \in Tracks
    BY <1>5 DEF Tracks
  <2>2. g = SdpLines(k, s)
    BY <1>1, <1>3, <2>1 DEF DescribeTrack
  <2>3. TablesUp(k) /\ Server \in k.listed /\ s \notin Dummies \cup {Tables, Server}
    <3>1. TablesUp(k)
      BY <1>0, <2>1, TablesStay
    <3>2. Server \in k.listed
      BY <1>0, <2>1 DEF Clean, Same
    <3> QED
      BY <3>1, <3>2, TrackNames
  <2> HIDE DEF k, g, s, Written
  <2>4. /\ IsHeap(g) /\ Clean(k, g, Dummies \cup {s}) /\ DummiesGone(g)
        /\ Grows(k, g, s, LinesParts, {"dummy_rtp_sink"})
    BY <2>1, <2>2, <2>3, SdpLinesGives
  <2>5. Clean(k, g, all)
    BY <1>0, <2>1, <2>4, CleanMore DEF s
  <2>6. Clean(h, g, all)
    BY <2>1, <2>5, CleanThen
  <2>7. Session \notin Dummies \cup {s}
    BY <1>0 DEF s
  <2>8. Same(k, g, Session)
    BY <2>4, <2>7 DEF Clean
  <2>9. Same(h, g, Session)
    BY <2>1, <2>8 DEF Same
  <2>10. ASSUME NEW u \in Tracks PROVE Grows(h, g, Subsession(u), LinesParts, {"dummy_rtp_sink"})
    <3>1. Grows(h, k, Subsession(u), LinesParts, {"dummy_rtp_sink"})
      BY <2>1 DEF Written
    <3>2. CASE Subsession(u) = s
      BY <2>4, <3>1, <3>2 DEF Grows
    <3>3. CASE Subsession(u) # s
      <4>1. Same(k, g, Subsession(u))
        BY <1>0, <2>4, <3>3 DEF Clean
      <4> QED
        BY <3>1, <4>1 DEF Grows, Same
    <3> QED
      BY <3>2, <3>3
  <2> QED
    BY <2>4, <2>6, <2>9, <2>10 DEF g, Written
<1>6. NumTracks \in S
  <2> HIDE DEF S
  <2>1. 0 .. NumTracks \subseteq S
    BY <1>0, <1>4, <1>5, CountingUp
  <2> QED
    BY <1>0, <2>1
<1> DEFINE k == f[NumTracks]
           g == Make(k, Session, {"ip_address_str"})
<1>7. IsHeap(k) /\ Clean(h, k, all) /\ DummiesGone(k) /\ Same(h, k, Session) /\ Written(k)
  BY <1>6
<1> HIDE DEF k, g
<1>8. IsHeap(g) /\ Clean(k, g, {Session}) /\ Makes(k, g, Session, {"ip_address_str"})
  BY <1>7, MakeStep DEF g
<1>9. Clean(h, g, all)
  BY <1>0, <1>7, <1>8, CleanTwice
<1>10. DummiesGone(g)
  <2>1. ASSUME NEW o \in Dummies PROVE Same(k, g, o)
    BY <1>0, <1>8 DEF Clean
  <2>2. /\ Same(k, g, Framer(Dummy)) /\ Same(k, g, Parser(Dummy)) /\ Same(k, g, File(Dummy))
        /\ Same(k, g, Groupsock(Dummy)) /\ Same(k, g, Sink(Dummy))
    BY <2>1 DEF Dummies, SourceObjects
  <2> QED
    BY <1>7, <2>2 DEF DummiesGone, SourceGone, Gone, Within, Same
<1>11. \A j : Ref(g, Session, j) = Ref(h, Session, j)
  BY <1>7, <1>8 DEF Same, Makes
<1>12. SessionUp(g)
  <2>1. /\ Session \in g.listed /\ (\A part \in SessionParts : Lives(g, Session, part))
        /\ Within(g, Session, SessionParts \cup {"ip_address_str"})
    BY <1>7, <1>8 DEF Same, Makes, SessionUp, Within
  <2>2. Ref(g, Session, "delete") = "server_media_session" /\ Ref(g, Session, "head") = Node(1)
    BY <1>11 DEF SessionUp, Linked
  <2>3. ASSUME NEW t \in Tracks PROVE TrackUp(g, t) /\ Ref(g, Subsession(t), "next") = Node(t + 1)
    <3>1. Same(k, g, Subsession(t)) /\ Grows(h, k, Subsession(t), LinesParts, {"dummy_rtp_sink"})
      BY <1>0, <1>7, <1>8 DEF Clean
    <3>2. TrackUp(h, t) /\ Ref(h, Subsession(t), "next") = Node(t + 1)
      BY DEF SessionUp, Linked
    <3>3. "next" \notin {"dummy_rtp_sink"} /\ "delete" \notin {"dummy_rtp_sink"}
      OBVIOUS
    <3>4. Ref(g, Subsession(t), "next") = Node(t + 1) /\ Ref(g, Subsession(t), "delete") = "h264_subsession"
      BY <3>1, <3>2, <3>3 DEF Same, Grows, TrackUp
    <3>5. /\ Subsession(t) \in g.listed /\ (\A part \in SubsessionParts : Lives(g, Subsession(t), part))
          /\ Within(g, Subsession(t), SubsessionParts \cup LinesParts)
      BY <3>1, <3>2 DEF Same, Grows, TrackUp, Within
    <3> QED
      BY <3>4, <3>5 DEF TrackUp
  <2> QED
    BY <2>1, <2>2, <2>3 DEF SessionUp, Linked
<1> QED
  BY <1>2, <1>8, <1>9, <1>10, <1>11, <1>12 DEF g, k, all

------------------------------------------------------------------------------
(* The end of a session: its tracks are begun in order and ended in reverse. *)

Half(h, t) ==
  /\ Subsession(t) \notin h.listed /\ Lives(h, Subsession(t), "self")
  /\ Within(h, Subsession(t), {"self", "next_task"} \cup TrackRest)

LEMMA DeinitTrackGives ==
  ASSUME NEW h, NEW o, IsHeap(h), Lives(h, o, "destination_hash_table")
  PROVE  LET g == H264FileSubsessionDeinit(h, o)
         IN  /\ IsHeap(g) /\ Clean(h, g, {o})
             /\ Drops(h, g, o, {"aux_sdp_line", "sdp_lines", "destination_hash_table", "track_id"}, {})
<1> DEFINE h1 == FreeIf(h, o, "aux_sdp_line")
           h2 == FreeIf(h1, o, "sdp_lines")
           h3 == Free(h2, o, "destination_hash_table")
           g  == FreeIf(h3, o, "track_id")
<1>0. H264FileSubsessionDeinit(h, o) = g
  BY DEF H264FileSubsessionDeinit, FileSubsessionDeinit, OnDemandSubsessionDeinit, ServerMediaSubsessionDeinit
<1> HIDE DEF h1, h2, h3, g
<1>1. IsHeap(h1) /\ Clean(h, h1, {o}) /\ Frees(h, h1, o, "aux_sdp_line")
  BY FreeIfStep DEF h1
<1>2. IsHeap(h2) /\ Clean(h1, h2, {o}) /\ Frees(h1, h2, o, "sdp_lines")
  BY <1>1, FreeIfStep DEF h2
<1>3. Lives(h2, o, "destination_hash_table")
  BY <1>1, <1>2 DEF Frees
<1>4. IsHeap(h3) /\ Clean(h2, h3, {o}) /\ Frees(h2, h3, o, "destination_hash_table")
  BY <1>2, <1>3, FreeStep DEF h3
<1>5. IsHeap(g) /\ Clean(h3, g, {o}) /\ Frees(h3, g, o, "track_id")
  BY <1>4, FreeIfStep DEF g
<1>6. Clean(h, g, {o})
  BY <1>1, <1>2, <1>4, <1>5, CleanThen
<1> QED
  BY <1>0, <1>1, <1>2, <1>4, <1>5, <1>6 DEF Frees, Drops

LEMMA BeginTrackGives ==
  ASSUME NEW h, NEW t, IsHeap(h), Server \in h.listed, TrackUp(h, t)
  PROVE  LET g == CloseBy(BeginDelete, h, Subsession(t))
         IN  IsHeap(g) /\ Clean(h, g, {Subsession(t)}) /\ Half(g, t)
<1> DEFINE o == Subsession(t)
           h1 == [h EXCEPT !.listed = @ \ {o}]
           g == H264FileSubsessionDeinit(h1, o)
<1>0. o # Server /\ o # Null
  BY TrackNames
<1>1. IsHeap(h1) /\ Clean(h, h1, {o}) /\ Delists(h, h1, o) /\ h1.listed # {}
  BY <1>0, LeftGives
<1>2. /\ o \in h.listed /\ (\A part \in SubsessionParts : Lives(h, o, part))
      /\ Within(h, o, SubsessionParts \cup LinesParts) /\ Ref(h, o, "delete") = "h264_subsession"
  BY DEF TrackUp
<1>3. Touch(h, o, "self") = h
  BY <1>2, TouchGives DEF SubsessionParts
<1>4. BeginDelete(h1, o) = g
  <2>1. Ref(h1, o, "delete") = "h264_subsession"
    BY <1>1, <1>2 DEF Delists
  <2> QED
    BY <2>1 DEF BeginDelete
<1>5. CloseBy(BeginDelete, h, o) = g
  BY <1>0, <1>1, <1>2, <1>3, <1>4 DEF CloseBy, RemoveMedium
<1> HIDE DEF o, h1, g
<1>6. Lives(h1, o, "destination_hash_table")
  BY <1>1, <1>2 DEF Delists, SubsessionParts
<1>7. /\ IsHeap(g) /\ Clean(h1, g, {o})
      /\ Drops(h1, g, o, {"aux_sdp_line", "sdp_lines", "destination_hash_table", "track_id"}, {})
  BY <1>1, <1>6, DeinitTrackGives DEF g
<1>8. Clean(h, g, {o})
  BY <1>1, <1>7, CleanThen
<1>9. o \notin g.listed /\ Lives(g, o, "self") /\ Within(g, o, {"self", "next_task"} \cup TrackRest)
  BY <1>1, <1>2, <1>7 DEF Delists, Drops, Within, SubsessionParts, LinesParts, TrackRest
<1> QED
  BY <1>5, <1>7, <1>8, <1>9 DEF Half, o

LEMMA EndTrackGives ==
  ASSUME NEW h, NEW t, IsHeap(h), Half(h, t)
  PROVE  LET g == DeleteH264FileSubsession(h, Subsession(t))
         IN  IsHeap(g) /\ Clean(h, g, {Subsession(t)}) /\ Gone(g, Subsession(t), TrackRest)
<1> DEFINE o == Subsession(t)
           h1 == FreeIf(h, o, "next_task")
           g  == Free(h1, o, "self")
<1>0. DeleteH264FileSubsession(h, o) = g
  BY DEF DeleteH264FileSubsession, MediumDeinit
<1>1. o \notin h.listed /\ Lives(h, o, "self") /\ Within(h, o, {"self", "next_task"} \cup TrackRest)
  BY DEF Half
<1> HIDE DEF o, h1, g
<1>2. IsHeap(h1) /\ Clean(h, h1, {o}) /\ Frees(h, h1, o, "next_task")
  BY FreeIfStep DEF h1
<1>3. Lives(h1, o, "self")
  BY <1>1, <1>2 DEF Frees
<1>4. IsHeap(g) /\ Clean(h1, g, {o}) /\ Frees(h1, g, o, "self")
  BY <1>2, <1>3, FreeStep DEF g
<1>5. Clean(h, g, {o})
  BY <1>2, <1>4, CleanThen
<1>6. Gone(g, o, TrackRest)
  BY <1>1, <1>2, <1>4 DEF Frees, Gone, Within
<1> QED
  BY <1>0, <1>4, <1>5, <1>6 DEF o

LEMMA DeleteTracksGives ==
  ASSUME NEW h, IsHeap(h), Server \in h.listed, Linked(h), OnlyTracks(h)
  PROVE  LET g == DeleteAllSubsessions(h, Session)
         IN  /\ IsHeap(g) /\ Clean(h, g, SessionObjects) /\ Keeps(h, g, Session)
             /\ \A t \in Tracks : Gone(g, Subsession(t), TrackRest)
<1> DEFINE chain == After(0)
           n == NumTracks
<1>0. /\ n \in Nat /\ Server \notin Tracked /\ Session \notin Tracked /\ Tracked \subseteq SessionObjects
      /\ \A t \in Tracks : {Subsession(t)} \subseteq Tracked
      /\ {Session} \subseteq SessionObjects
  <2>1. \A t : Subsession(t) \notin {Server, Session}
    BY TrackNames
  <2>2. Server \notin Tracked /\ Session \notin Tracked
    BY <2>1 DEF Tracked
  <2>3. n \in Nat
    BY DescriptionAssumption
  <2>4. \A t \in Tracks : {Subsession(t)} \subseteq Tracked
    BY DEF Tracked
  <2> QED
    BY <2>2, <2>3, <2>4 DEF SessionObjects
<1>1. Subsessions(h, Session) = chain /\ Len(chain) = n /\ \A t \in Tracks : chain[t] = Subsession(t)
  BY SubsessionsGives, AfterNone
<1>2. PICK f, e : /\ BegunUpTo(f, n, h, chain) /\ EndedUpTo(e, n, f[n], chain)
                  /\ DeleteAllSubsessions(h, Session) = Set(Set(e[n], Session, "head", Null), Session, "tail", Null)
  <2> HIDE DEF chain
  <2>1. Len(Subsessions(h, Session)) \in Nat
    BY <1>0, <1>1
  <2> QED
    BY <1>1, <2>1, DeleteAllGives
<1> HIDE DEF chain
<1>3. f[0] = h /\ \A t \in 1 .. n : f[t] = BeginTrack(f[t - 1], t, chain)
  <2>1. n \in Nat
    BY <1>0
  <2> QED
    BY <1>2, <2>1, BegunSteps
<1>4. e[0] = f[n] /\ \A t \in 1 .. n : e[t] = EndTrack(e[t - 1], t, chain)
  <2> DEFINE last == f[n]
  <2>1. n \in Nat /\ EndedUpTo(e, n, last, chain)
    BY <1>0, <1>2
  <2> HIDE DEF last, n
  <2>2. e[0] = last /\ \A t \in 1 .. n : e[t] = EndTrack(e[t - 1], t, chain)
    BY <2>1, EndedSteps
  <2> QED
    BY <2>2 DEF last
<1> HIDE DEF n
<1>d. n = NumTracks
  BY DEF n
<1>t. Tracks = 1 .. n
  BY <1>d DEF Tracks
<1> DEFINE Begun(g, t) == \A u \in Tracks : IF u <= t THEN Half(g, u) ELSE TrackUp(g, u)
           S == {t \in Nat : IsHeap(f[t]) /\ Clean(h, f[t], Tracked) /\ Begun(f[t], t)}
<1>5. 0 \in S
  <2>1. Clean(h, h, Tracked)
    BY CleanSelf
  <2>2. Begun(h, 0)
    <3>1. \A u \in Tracks : ~(u <= 0)
      BY <1>0, <1>t
    <3> QED
      BY <3>1 DEF Linked
  <2> HIDE DEF Begun
  <2> QED
    BY <1>3, <2>1, <2>2
<1>6. ASSUME NEW t \in 1 .. n, t - 1 \in S PROVE t \in S
  <2> DEFINE k == f[t - 1]
             g == f[t]
  <2>1. IsHeap(k) /\ Clean(h, k, Tracked) /\ Begun(k, t - 1) /\ t \in Tracks /\ t \in Nat
    BY <1>0, <1>6, <1>t
  <2>2. g = CloseBy(BeginDelete, k, Subsession(t))
    BY <1>1, <1>3, <2>1 DEF BeginTrack
  <2> HIDE DEF k, g
  <2>3. Server \in k.listed
    BY <1>0, <2>1 DEF Clean, Same
  <2>4. TrackUp(k, t)
    <3>1. ~(t <= t - 1)
      BY <2>1
    <3> QED
      BY <2>1, <3>1
  <2>5. IsHeap(g) /\ Clean(k, g, {Subsession(t)}) /\ Half(g, t)
    BY <2>1, <2>2, <2>3, <2>4, BeginTrackGives
  <2>6. Clean(h, g, Tracked)
    <3>1. Clean(k, g, Tracked)
      BY <1>0, <2>1, <2>5, CleanMore
    <3> QED
      BY <2>1, <3>1, CleanThen
  <2>7. ASSUME NEW u \in Tracks PROVE IF u <= t THEN Half(g, u) ELSE TrackUp(g, u)
    <3>1. CASE u = t
      <4>1. u <= t
        BY <2>1, <3>1
      <4> QED
        BY <2>5, <3>1, <4>1
    <3>2. CASE u # t
      <4>1. Subsession(u) \notin {Subsession(t)}
        BY <3>2, TrackNames
      <4>2. Same(k, g, Subsession(u))
        BY <2>5, <4>1 DEF Clean
      <4>3. u <= t <=> u <= t - 1
        BY <1>0, <1>t, <2>1, <3>2
      <4>4. IF u <= t - 1 THEN Half(k, u) ELSE TrackUp(k, u)
        BY <2>1
      <4>5. Half(k, u) => Half(g, u)
        BY <4>2 DEF Same, Half, Within
      <4>6. TrackUp(k, u) => TrackUp(g, u)
        BY <4>2 DEF Same, TrackUp, Within
      <4> QED
        BY <4>3, <4>4, <4>5, <4>6
    <3> QED
      BY <3>1, <3>2
  <2> HIDE DEF Begun
  <2>8. Begun(g, t)
    BY <2>7 DEF Begun
  <2> QED
    BY <2>1, <2>5, <2>6, <2>8 DEF g
<1>7. n \in S
  <2> HIDE DEF S
  <2>1. 0 .. n \subseteq S
    BY <1>0, <1>5, <1>6, CountingUp
  <2> QED
    BY <1>0, <2>1
<1>8. IsHeap(f[n]) /\ Clean(h, f[n], Tracked) /\ \A u \in Tracks : Half(f[n], u)
  <2>1. \A u \in Tracks : u <= n
    BY <1>0, <1>t
  <2> QED
    BY <1>7, <2>1
<1> DEFINE Ended(g, t) == \A u \in Tracks : IF u > n - t THEN Gone(g, Subsession(u), TrackRest) ELSE Half(g, u)
           T == {t \in Nat : IsHeap(e[t]) /\ Clean(h, e[t], Tracked) /\ Ended(e[t], t)}
<1>9. 0 \in T
  <2>1. \A u \in Tracks : ~(u > n - 0)
    BY <1>0, <1>t
  <2>2. Ended(f[n], 0)
    BY <1>8, <2>1
  <2> HIDE DEF Ended
  <2> QED
    BY <1>4, <1>8, <2>2
<1>10. ASSUME NEW i \in 1 .. n, i - 1 \in T PROVE i \in T
  <2> DEFINE k == e[i - 1]
             g == e[i]
             t == n + 1 - i
  <2>1. IsHeap(k) /\ Clean(h, k, Tracked) /\ Ended(k, i - 1) /\ t \in Tracks /\ i \in Nat /\ n - (i - 1) = t /\ n - i = t - 1
    BY <1>0, <1>10, <1>t
  <2>2. g = DeleteH264FileSubsession(k, Subsession(t))
    BY <1>1, <1>4, <1>d, <2>1 DEF EndTrack
  <2> HIDE DEF k, g, t
  <2>3. Half(k, t)
    <3>1. ~(t > t)
      BY <1>t, <2>1
    <3> QED
      BY <2>1, <3>1
  <2>4. IsHeap(g) /\ Clean(k, g, {Subsession(t)}) /\ Gone(g, Subsession(t), TrackRest)
    BY <2>1, <2>2, <2>3, EndTrackGives
  <2>5. Clean(h, g, Tracked)
    <3>1. Clean(k, g, Tracked)
      BY <1>0, <2>1, <2>4, CleanMore
    <3> QED
      BY <2>1, <3>1, CleanThen
  <2>6. ASSUME NEW u \in Tracks PROVE IF u > n - i THEN Gone(g, Subsession(u), TrackRest) ELSE Half(g, u)
    <3>1. CASE u = t
      <4>1. u > n - i
        BY <1>t, <2>1, <3>1
      <4> QED
        BY <2>4, <3>1, <4>1
    <3>2. CASE u # t
      <4>1. Subsession(u) \notin {Subsession(t)}
        BY <3>2, TrackNames
      <4>2. Same(k, g, Subsession(u))
        BY <2>4, <4>1 DEF Clean
      <4>3. u > n - i <=> u > n - (i - 1)
        BY <1>0, <1>t, <2>1, <3>2
      <4>4. IF u > n - (i - 1) THEN Gone(k, Subsession(u), TrackRest) ELSE Half(k, u)
        BY <2>1
      <4>5. Half(k, u) => Half(g, u)
        BY <4>2 DEF Same, Half, Within
      <4>6. Gone(k, Subsession(u), TrackRest) => Gone(g, Subsession(u), TrackRest)
        BY <4>2 DEF Same, Gone, Within
      <4> QED
        BY <4>3, <4>4, <4>5, <4>6
    <3> QED
      BY <3>1, <3>2
  <2> HIDE DEF Ended
  <2>7. Ended(g, i)
    BY <2>6 DEF Ended
  <2> QED
    BY <2>1, <2>4, <2>5, <2>7 DEF g
<1>11. n \in T
  <2> HIDE DEF T
  <2>1. 0 .. n \subseteq T
    BY <1>0, <1>9, <1>10, CountingUp
  <2> QED
    BY <1>0, <2>1
<1> DEFINE k == e[n]
           k1 == Set(k, Session, "head", Null)
           g == Set(k1, Session, "tail", Null)
<1>12. IsHeap(k) /\ Clean(h, k, Tracked) /\ \A u \in Tracks : Gone(k, Subsession(u), TrackRest)
  <2>1. \A u \in Tracks : u > n - n
    BY <1>0, <1>t
  <2> QED
    BY <1>11, <2>1
<1> HIDE DEF k, k1, g
<1>13. IsHeap(k1) /\ Clean(k, k1, {Session}) /\ Sets(k, k1, Session, "head", Null)
  BY <1>12, SetStep DEF k1
<1>14. IsHeap(g) /\ Clean(k1, g, {Session}) /\ Sets(k1, g, Session, "tail", Null)
  BY <1>13, SetStep DEF g
<1>15. Clean(k, g, {Session})
  BY <1>13, <1>14, CleanThen
<1>16. Clean(h, g, SessionObjects)
  BY <1>0, <1>12, <1>15, CleanTwice
<1>17. Keeps(h, g, Session)
  <2>1. Same(h, k, Session)
    BY <1>0, <1>12 DEF Clean
  <2> QED
    BY <1>13, <1>14, <2>1 DEF Same, Sets, Keeps
<1>18. ASSUME NEW t \in Tracks PROVE Gone(g, Subsession(t), TrackRest)
  <2>1. Subsession(t) \notin {Session}
    BY TrackNames
  <2> QED
    BY <1>12, <1>15, <2>1, GoneStays
<1> QED
  BY <1>2, <1>14, <1>16, <1>17, <1>18 DEF g, k1, k

LEMMA CloseSessionGives ==
  ASSUME NEW h, IsHeap(h), Server \in h.listed, SessionUp(h), OnlyTracks(h)
  PROVE  LET g == CloseMedium(h, Session)
         IN  IsHeap(g) /\ Clean(h, g, SessionObjects) /\ SessionGone(g)
<1> DEFINE o == Session
           h1 == [h EXCEPT !.listed = @ \ {o}]
           h2 == DeleteAllSubsessions(h1, o)
           h3 == FreeIf(h2, o, "stream_name")
           h4 == FreeIf(h3, o, "info")
           h5 == FreeIf(h4, o, "description")
           h6 == FreeIf(h5, o, "misc")
           h7 == FreeIf(h6, o, "next_task")
           g  == Free(h7, o, "self")
<1>0. o # Server /\ o # Null /\ (\A t : Subsession(t) # o) /\ {o} \subseteq SessionObjects
      /\ Server \notin SessionObjects
  BY TrackNames DEF SessionObjects, Tracked
<1>1. IsHeap(h1) /\ Clean(h, h1, {o}) /\ Delists(h, h1, o) /\ h1.listed # {}
  BY <1>0, LeftGives
<1>2. /\ o \in h.listed /\ (\A part \in SessionParts : Lives(h, o, part))
      /\ Within(h, o, SessionParts \cup {"ip_address_str"})
      /\ Ref(h, o, "delete") = "server_media_session" /\ Linked(h)
  BY DEF SessionUp
<1>3. Touch(h, o, "self") = h
  BY <1>2, TouchGives DEF SessionParts
<1>4. DeleteMedium(h1, o) = g
  <2>1. Ref(h1, o, "delete") = "server_media_session"
    BY <1>1, <1>2 DEF Delists
  <2> QED
    BY <2>1 DEF DeleteMedium, DeleteServerMediaSession, ServerMediaSessionDeinit, MediumDeinit
<1>5. CloseMedium(h, o) = g
  BY <1>0, <1>1, <1>2, <1>3, <1>4 DEF CloseMedium, CloseBy, RemoveMedium
<1>n. o = Session
  OBVIOUS
<1> HIDE DEF o, h1, h2, h3, h4, h5, h6, h7, g
<1>6. Linked(h1) /\ OnlyTracks(h1) /\ Server \in h1.listed
  <2>1. ASSUME NEW p, p # o PROVE Same(h, h1, p)
    BY <1>1, <2>1 DEF Clean
  <2>2. Ref(h1, Session, "head") = Node(1)
    BY <1>1, <1>2, <1>n DEF Delists, Linked
  <2>3. ASSUME NEW t \in Tracks PROVE TrackUp(h1, t) /\ Ref(h1, Subsession(t), "next") = Node(t + 1)
    <3>1. Same(h, h1, Subsession(t)) /\ TrackUp(h, t) /\ Ref(h, Subsession(t), "next") = Node(t + 1)
      BY <1>0, <1>2, <2>1 DEF Linked
    <3> QED
      BY <3>1 DEF Same, TrackUp, Within
  <2>4. OnlyTracks(h1)
    BY <1>1, <2>1 DEF Same, OnlyTracks, Delists
  <2>5. Server \in h1.listed
    BY <1>0, <2>1 DEF Same
  <2> QED
    BY <2>2, <2>3, <2>4, <2>5 DEF Linked
<1>7. /\ IsHeap(h2) /\ Clean(h1, h2, SessionObjects) /\ Keeps(h1, h2, o)
      /\ \A t \in Tracks : Gone(h2, Subsession(t), TrackRest)
  BY <1>1, <1>6, <1>n, DeleteTracksGives DEF h2
<1>8. IsHeap(h3) /\ Clean(h2, h3, {o}) /\ Frees(h2, h3, o, "stream_name")
  BY <1>7, FreeIfStep DEF h3
<1>9. IsHeap(h4) /\ Clean(h3, h4, {o}) /\ Frees(h3, h4, o, "info")
  BY <1>8, FreeIfStep DEF h4
<1>10. IsHeap(h5) /\ Clean(h4, h5, {o}) /\ Frees(h4, h5, o, "description")
  BY <1>9, FreeIfStep DEF h5
<1>11. IsHeap(h6) /\ Clean(h5, h6, {o}) /\ Frees(h5, h6, o, "misc")
  BY <1>10, FreeIfStep DEF h6
<1>12. IsHeap(h7) /\ Clean(h6, h7, {o}) /\ Frees(h6, h7, o, "next_task")
  BY <1>11, FreeIfStep DEF h7
<1>13. Lives(h7, o, "self")
  BY <1>1, <1>2, <1>7, <1>8, <1>9, <1>10, <1>11, <1>12 DEF Delists, Keeps, Frees, SessionParts
<1>14. IsHeap(g) /\ Clean(h7, g, {o}) /\ Frees(h7, g, o, "self")
  BY <1>12, <1>13, FreeStep DEF g
<1>15. Clean(h2, g, {o})
  BY <1>8, <1>9, <1>10, <1>11, <1>12, <1>14, CleanThen
<1>16. Clean(h, g, SessionObjects)
  <2>1. Clean(h, h1, SessionObjects) /\ Clean(h2, g, SessionObjects)
    BY <1>0, <1>1, <1>15, CleanMore
  <2> QED
    BY <1>7, <2>1, CleanThen
<1>17. Gone(g, o, {"ip_address_str"})
  <2>1. o \notin g.listed
    BY <1>1, <1>7, <1>8, <1>9, <1>10, <1>11, <1>12, <1>14 DEF Delists, Keeps, Frees
  <2>2. Within(g, o, {"ip_address_str"})
    BY <1>1, <1>2, <1>7, <1>8, <1>9, <1>10, <1>11, <1>12, <1>14 DEF Delists, Keeps, Frees, SessionParts, Within
  <2> QED
    BY <2>1, <2>2 DEF Gone
<1>18. ASSUME NEW t \in Tracks PROVE Gone(g, Subsession(t), TrackRest)
  <2>1. Subsession(t) \notin {o}
    BY <1>0
  <2> QED
    BY <1>7, <1>15, <2>1, GoneStays
<1> QED
  BY <1>5, <1>14, <1>16, <1>17, <1>18, <1>n DEF SessionGone

------------------------------------------------------------------------------
(* A stream: its source, its sink with the fragmenter, its RTCP instance. *)

(* The sink of a stream with its fragmenter. *)
SinkBusy(h) ==
  /\ SinkUp(h, Sink(Stream)) /\ Within(h, Sink(Stream), SinkRest)
  /\ Ref(h, Sink(Stream), "source") \in {Null, Fragmenter(Stream)}
  /\ Ref(h, Sink(Stream), "our_fragmenter") = Fragmenter(Stream)
  /\ FragmenterUp(h, Fragmenter(Stream), Framer(Stream))
  /\ Within(h, Fragmenter(Stream), {"self", "next_task", "input_buffer"})
SinkReady(h) == SinkIdle(h, Stream) /\ Gone(h, Fragmenter(Stream), {})
SinkGone(h) == Gone(h, Sink(Stream), {}) /\ Gone(h, Fragmenter(Stream), {})

StreamPart(h, has, reads) ==
  /\ IF Framer(Stream) \in has THEN SourceUp(h, Stream, Seen) ELSE SourceGone(h, Stream, Seen)
  /\ IF Groupsock(Stream) \in has
     THEN Lives(h, Groupsock(Stream), "self") /\ Gone(h, Groupsock(Stream), {"self"})
     ELSE Gone(h, Groupsock(Stream), {})
  /\ IF Sink(Stream) \in has
     THEN Framer(Stream) \in has /\ Groupsock(Stream) \in has /\ (SinkReady(h) \/ SinkBusy(h))
     ELSE SinkGone(h) /\ ~reads
  /\ IF Rtcp(Stream) \in has
     THEN /\ Sink(Stream) \in has /\ RtcpUp(h, Rtcp(Stream), Groupsock(Stream))
          /\ Within(h, Rtcp(Stream), RtcpParts)
     ELSE Gone(h, Rtcp(Stream), {})


LEMMA SameShapes ==
  ASSUME NEW h, NEW g
  PROVE  /\ \A o, i : Same(h, g, o) /\ FragmenterUp(h, o, i) => FragmenterUp(g, o, i)
         /\ \A o : Same(h, g, o) /\ FileUp(h, o) => FileUp(g, o)
         /\ \A o, parts : Same(h, g, o) /\ Within(h, o, parts) => Within(g, o, parts)
         /\ \A o, parts : Same(h, g, o) /\ Gone(h, o, parts) => Gone(g, o, parts)
BY DEF Same, FragmenterUp, FileUp, Within, Gone

(* The file of a source is the only part of it that a stop or a read touches. *)
LEMMA SourceWithFile ==
  ASSUME NEW h, NEW g, NEW rest, SourceUp(h, Stream, rest),
         Same(h, g, Framer(Stream)), Same(h, g, Parser(Stream)),
         FileUp(g, File(Stream)), Within(g, File(Stream), FileParts \cup {"idler"})
  PROVE  SourceUp(g, Stream, rest)
<1>1. /\ FramerUp(h, Framer(Stream), Parser(Stream), File(Stream))
      /\ Within(h, Framer(Stream), {"self", "next_task"} \cup rest)
      /\ Within(h, Parser(Stream), {"self", "bank0", "bank1"}) /\ Parser(Stream) \notin h.listed
  BY DEF SourceUp
<1>2. FramerUp(g, Framer(Stream), Parser(Stream), File(Stream))
  BY <1>1 DEF FramerUp, Same
<1>3. /\ Within(g, Framer(Stream), {"self", "next_task"} \cup rest)
      /\ Within(g, Parser(Stream), {"self", "bank0", "bank1"}) /\ Parser(Stream) \notin g.listed
  BY <1>1 DEF Within, Same
<1> QED
  BY <1>2, <1>3 DEF SourceUp

LEMMA FileWithoutIdler ==
  ASSUME NEW h, NEW g, SourceUp(h, Stream, Seen), Drops(h, g, File(Stream), {"idler"}, {})
  PROVE  FileUp(g, File(Stream)) /\ Within(g, File(Stream), FileParts \cup {"idler"})
<1>1. FileUp(h, File(Stream)) /\ Within(h, File(Stream), FileParts \cup {"idler"})
  BY DEF SourceUp, FramerUp
<1> QED
  BY <1>1 DEF FileUp, FileParts, Within, Drops

LEMMA PlayGives ==
  ASSUME NEW h, IsHeap(h), TablesUp(h), SourceUp(h, Stream, Seen), SinkReady(h) \/ SinkBusy(h),
         Ref(h, Sink(Stream), "source") = Null
  PROVE  LET g == ByteStreamFileSourceRead(
                    StartPlaying(h, Sink(Stream), Framer(Stream), Fragmenter(Stream)), File(Stream))
         IN  /\ IsHeap(g) /\ Clean(h, g, {Sink(Stream), Fragmenter(Stream), File(Stream)})
             /\ SourceUp(g, Stream, Seen) /\ SinkBusy(g)
<1> DEFINE o == Sink(Stream)
           q == Fragmenter(Stream)
           i == Framer(Stream)
           f == File(Stream)
           p == Parser(Stream)
           h1 == Set(h, o, "source", i)
           h2 == IF Ref(h1, o, "our_fragmenter") = Null
                 THEN Set(NewFragmenter(h1, q, Ref(h1, o, "source")), o, "our_fragmenter", q)
                 ELSE Set(h1, Ref(h1, o, "our_fragmenter"), "input_source", Ref(h1, o, "source"))
           h3 == Set(h2, o, "source", q)
           g  == Make(Touch(h3, f, "self"), f, {"idler"})
           all == {o, q, f}
<1>0. o \notin {q, i, f, p, Tables, Null} /\ q \notin {i, f, p, Tables, Null} /\ f \notin {i, p, Tables}
  BY Names
<1>1. ByteStreamFileSourceRead(StartPlaying(h, o, i, q), f) = g
  BY DEF ByteStreamFileSourceRead, StartPlaying, ContinuePlaying, ReassignInputSource
<1>2. SinkUp(h, o) /\ Within(h, o, SinkRest)
  BY DEF SinkReady, SinkBusy, SinkIdle
<1>3. \/ Ref(h, o, "our_fragmenter") = Null /\ Gone(h, q, {})
      \/ /\ Ref(h, o, "our_fragmenter") = q /\ FragmenterUp(h, q, i)
         /\ Within(h, q, {"self", "next_task", "input_buffer"})
  BY DEF SinkReady, SinkBusy, SinkIdle
<1>s. FramerUp(h, i, p, f) /\ FileUp(h, f) /\ Within(h, f, FileParts \cup {"idler"})
  BY DEF SourceUp, FramerUp
<1>n. o = Sink(Stream) /\ q = Fragmenter(Stream) /\ i = Framer(Stream) /\ f = File(Stream) /\ p = Parser(Stream)
  OBVIOUS
<1> HIDE DEF o, q, i, f, p, h1, h2, h3, g
<1>4. IsHeap(h1) /\ Clean(h, h1, {o}) /\ Sets(h, h1, o, "source", i)
  BY SetStep DEF h1
<1>5. TablesUp(h1) /\ Same(h, h1, q)
  <2>1. TablesUp(h1)
    BY <1>0, <1>4, TablesStay
  <2> QED
    BY <1>0, <1>4, <2>1 DEF Clean
<1>6. /\ IsHeap(h2) /\ Clean(h1, h2, {o, q}) /\ Keeps(h1, h2, o)
      /\ \A k : k # "our_fragmenter" => Ref(h2, o, k) = Ref(h1, o, k)
      /\ Ref(h2, o, "our_fragmenter") = q
      /\ FragmenterUp(h2, q, i) /\ Within(h2, q, {"self", "next_task", "input_buffer"})
  <2>1. CASE Ref(h, o, "our_fragmenter") = Null /\ Gone(h, q, {})
    <3> DEFINE k == NewFragmenter(h1, q, i)
    <3>1. h2 = Set(k, o, "our_fragmenter", q)
      BY <1>4, <2>1 DEF h2, Sets
    <3> HIDE DEF k
    <3>2. /\ IsHeap(k) /\ Clean(h1, k, {q}) /\ q \in k.listed
          /\ Adds(h1, k, q, {"self", "next_task", "input_buffer"}, {"delete", "stop", "input_source"})
          /\ Ref(k, q, "delete") = "fragmenter" /\ Ref(k, q, "stop") = "fragmenter" /\ Ref(k, q, "input_source") = i
      BY <1>0, <1>4, <1>5, NewFragmenterGives DEF k
    <3>3. IsHeap(h2) /\ Clean(k, h2, {o}) /\ Sets(k, h2, o, "our_fragmenter", q)
      BY <3>1, <3>2, SetStep
    <3>4. Same(h1, k, o) /\ Same(k, h2, q)
      BY <1>0, <3>2, <3>3 DEF Clean
    <3>5. Gone(h1, q, {})
      BY <1>5, <2>1, SameShapes
    <3>6. FragmenterUp(k, q, i) /\ Within(k, q, {"self", "next_task", "input_buffer"})
      BY <3>2, <3>5 DEF Adds, Gone, Within, FragmenterUp
    <3>7. FragmenterUp(h2, q, i) /\ Within(h2, q, {"self", "next_task", "input_buffer"})
      BY <3>4, <3>6, SameShapes
    <3>8. Clean(h1, h2, {o, q})
      BY <3>2, <3>3, CleanTwice
    <3>9. Keeps(h1, h2, o) /\ Ref(h2, o, "our_fragmenter") = q
      BY <3>3, <3>4 DEF Same, Sets, Keeps
    <3>10. \A j : j # "our_fragmenter" => Ref(h2, o, j) = Ref(h1, o, j)
      BY <3>3, <3>4 DEF Same, Sets
    <3> QED
      BY <3>3, <3>7, <3>8, <3>9, <3>10
  <2>2. CASE /\ Ref(h, o, "our_fragmenter") = q /\ FragmenterUp(h, q, i)
             /\ Within(h, q, {"self", "next_task", "input_buffer"})
    <3>1. h2 = Set(h1, q, "input_source", i)
      BY <1>0, <1>4, <2>2 DEF h2, Sets
    <3>2. IsHeap(h2) /\ Clean(h1, h2, {q}) /\ Sets(h1, h2, q, "input_source", i)
      BY <1>4, <3>1, SetStep
    <3>3. Same(h1, h2, o)
      BY <1>0, <3>2 DEF Clean
    <3>4. FragmenterUp(h1, q, i) /\ Within(h1, q, {"self", "next_task", "input_buffer"})
      BY <1>5, <2>2, SameShapes
    <3>5. FragmenterUp(h2, q, i) /\ Within(h2, q, {"self", "next_task", "input_buffer"})
      BY <3>2, <3>4 DEF Sets, FragmenterUp, Within
    <3>6. Clean(h1, h2, {o, q})
      BY <3>2, CleanMore
    <3>7. Keeps(h1, h2, o) /\ \A j : Ref(h2, o, j) = Ref(h1, o, j)
      BY <3>3 DEF Same, Keeps
    <3>8. Ref(h1, o, "our_fragmenter") = q
      BY <1>4, <2>2 DEF Sets
    <3> QED
      BY <3>2, <3>5, <3>6, <3>7, <3>8
  <2> QED
    BY <1>3, <2>1, <2>2
<1>7. IsHeap(h3) /\ Clean(h2, h3, {o}) /\ Sets(h2, h3, o, "source", q)
  BY <1>6, SetStep DEF h3
<1>8. Clean(h, h3, {o, q})
  <2>1. Clean(h, h1, {o, q}) /\ Clean(h2, h3, {o, q})
    BY <1>4, <1>7, CleanMore
  <2> QED
    BY <1>6, <2>1, CleanThen
<1>9. Same(h, h3, i) /\ Same(h, h3, p) /\ Same(h, h3, f) /\ Same(h2, h3, q)
  BY <1>0, <1>7, <1>8 DEF Clean
<1>10. g = Make(h3, f, {"idler"})
  <2>1. Lives(h3, f, "self")
    BY <1>9, <1>s DEF Same, FileUp, FileParts
  <2> QED
    BY <2>1, TouchGives DEF g
<1>11. IsHeap(g) /\ Clean(h3, g, {f}) /\ Makes(h3, g, f, {"idler"})
  BY <1>7, <1>10, MakeStep
<1>12. Same(h3, g, o) /\ Same(h3, g, q) /\ Same(h3, g, i) /\ Same(h3, g, p)
  BY <1>0, <1>11 DEF Clean
<1>13. Clean(h, g, all)
  <2>1. {o, q} \subseteq all /\ {f} \subseteq all
    OBVIOUS
  <2> HIDE DEF all
  <2> QED
    BY <1>8, <1>11, <2>1, CleanTwice
<1>14. FileUp(g, f) /\ Within(g, f, FileParts \cup {"idler"})
  <2>1. FileUp(h3, f) /\ Within(h3, f, FileParts \cup {"idler"})
    BY <1>9, <1>s, SameShapes
  <2> QED
    BY <1>11, <2>1 DEF FileUp, FileParts, Within, Makes
<1>15. SourceUp(g, Stream, Seen)
  <2>1. Same(h, g, i) /\ Same(h, g, p)
    BY <1>9, <1>12 DEF Same
  <2> QED
    BY <1>14, <2>1, <1>n, SourceWithFile
<1>16. FragmenterUp(g, q, i) /\ Within(g, q, {"self", "next_task", "input_buffer"})
  BY <1>6, <1>9, <1>12, SameShapes
<1>17. SinkUp(g, o) /\ Within(g, o, SinkRest)
  BY <1>2, <1>4, <1>6, <1>7, <1>12 DEF Sets, Keeps, Same, SinkUp, Within
<1>18. Ref(g, o, "source") = q /\ Ref(g, o, "our_fragmenter") = q
  BY <1>6, <1>7, <1>12 DEF Sets, Same
<1>19. SinkBusy(g)
  BY <1>16, <1>17, <1>18, <1>n DEF SinkBusy
<1> QED
  BY <1>1, <1>11, <1>13, <1>15, <1>19, <1>n DEF all

LEMMA StreamIsHarmless == <<"late", Sink(Stream), "out_buf">> \in Harmless
BY SinkIsHarmless

LEMMA StopGives ==
  ASSUME NEW h, IsHeap(h), SourceUp(h, Stream, Seen), SinkReady(h) \/ SinkBusy(h)
  PROVE  LET g == StopPlaying(h, Sink(Stream))
         IN  /\ IsHeap(g) /\ Clean(h, g, {Sink(Stream), File(Stream)})
             /\ SourceUp(g, Stream, Seen) /\ (SinkReady(g) \/ SinkBusy(g)) /\ (SinkBusy(h) => SinkBusy(g))
<1> DEFINE o == Sink(Stream)
           q == Fragmenter(Stream)
           i == Framer(Stream)
           f == File(Stream)
           p == Parser(Stream)
           g == StopPlaying(h, o)
<1>0. o \notin {q, i, f, p, Null} /\ q \notin {i, f, p, Null} /\ f \notin {i, p} /\ i # Null
      /\ <<"late", o, "out_buf">> \in Harmless
  BY Names, StreamIsHarmless
<1>1. SinkUp(h, o) /\ Within(h, o, SinkRest)
  BY DEF SinkReady, SinkBusy, SinkIdle
<1>2. Lives(h, o, "next_task") /\ Ref(h, o, "stop_playing") = "multi_framed"
  BY <1>1 DEF SinkUp, SinkParts
<1>s. FramerUp(h, i, p, f) /\ FileUp(h, f) /\ Within(h, f, FileParts \cup {"idler"})
  BY DEF SourceUp, FramerUp
<1>n. o = Sink(Stream) /\ q = Fragmenter(Stream) /\ i = Framer(Stream) /\ f = File(Stream) /\ p = Parser(Stream)
  OBVIOUS
<1>3. SinkReady(h) => Ref(h, o, "source") = Null /\ Ref(h, o, "our_fragmenter") = Null /\ Gone(h, q, {})
  BY DEF SinkReady, SinkIdle
<1>4. SinkBusy(h) => /\ Ref(h, o, "source") \in {Null, q} /\ Ref(h, o, "our_fragmenter") = q
                     /\ FragmenterUp(h, q, i) /\ Within(h, q, {"self", "next_task", "input_buffer"})
  BY DEF SinkBusy
<1> HIDE DEF o, q, i, f, p, g
<1>5. /\ IsHeap(g) /\ Clean(h, g, {o, f}) /\ Sets(h, g, o, "source", Null)
      /\ FileUp(g, f) /\ Within(g, f, FileParts \cup {"idler"})
  <2>1. CASE Ref(h, o, "source") = Null
    <3>1. IsHeap(g) /\ Clean(h, g, {o}) /\ Sets(h, g, o, "source", Null)
      BY <1>0, <1>2, <2>1, StopIdleSinkGives DEF g
    <3>2. Clean(h, g, {o, f})
      BY <3>1, CleanMore
    <3>3. Same(h, g, f)
      BY <1>0, <3>1 DEF Clean
    <3> QED
      BY <1>s, <3>1, <3>2, <3>3, SameShapes
  <2>2. CASE Ref(h, o, "source") = q
    <3>1. SinkBusy(h)
      BY <1>0, <1>3, <2>2
    <3>2. FragmenterUp(h, q, i)
      BY <1>4, <3>1
    <3>3. IsHeap(g) /\ Clean(h, g, {o, f}) /\ Sets(h, g, o, "source", Null) /\ Drops(h, g, f, {"idler"}, {})
      BY <1>0, <1>2, <1>s, <2>2, <3>2, StopBusySinkGives DEF g
    <3> QED
      BY <3>3, <1>n, FileWithoutIdler
  <2> QED
    BY <1>3, <1>4, <2>1, <2>2
<1>6. Same(h, g, i) /\ Same(h, g, p) /\ Same(h, g, q)
  BY <1>0, <1>5 DEF Clean
<1>7. SourceUp(g, Stream, Seen)
  BY <1>5, <1>6, <1>n, SourceWithFile
<1>8. SinkUp(g, o) /\ Within(g, o, SinkRest) /\ Ref(g, o, "source") = Null
      /\ Ref(g, o, "our_fragmenter") = Ref(h, o, "our_fragmenter")
  BY <1>1, <1>5 DEF Sets, SinkUp, Within
<1>9. SinkReady(h) => SinkReady(g)
  <2>1. Gone(h, q, {}) => Gone(g, q, {})
    BY <1>6, SameShapes
  <2> QED
    BY <1>3, <1>8, <1>n, <2>1 DEF SinkReady, SinkIdle
<1>10. SinkBusy(h) => SinkBusy(g)
  <2>1. FragmenterUp(h, q, i) => FragmenterUp(g, q, i)
    BY <1>6, SameShapes
  <2>2. Within(h, q, {"self", "next_task", "input_buffer"}) => Within(g, q, {"self", "next_task", "input_buffer"})
    BY <1>6, SameShapes
  <2> QED
    BY <1>4, <1>8, <1>n, <2>1, <2>2 DEF SinkBusy
<1> QED
  BY <1>5, <1>7, <1>9, <1>10, <1>n DEF g

LEMMA CloseSinkGives ==
  ASSUME NEW h, IsHeap(h), Server \in h.listed, SourceUp(h, Stream, Seen), SinkReady(h) \/ SinkBusy(h)
  PROVE  LET g == CloseMedium(h, Sink(Stream))
         IN  /\ IsHeap(g) /\ Clean(h, g, {Sink(Stream), Fragmenter(Stream), File(Stream)})
             /\ SourceUp(g, Stream, Seen) /\ SinkGone(g)
<1> DEFINE o == Sink(Stream)
           q == Fragmenter(Stream)
           i == Framer(Stream)
           f == File(Stream)
           p == Parser(Stream)
           g == CloseMedium(h, o)
<1>0. o \notin {q, i, f, p, Null, Server} /\ q \notin {i, f, p, Null, Server} /\ f \notin {i, p, Server} /\ i # Null
      /\ p # f /\ i # f /\ <<"late", o, "out_buf">> \in Harmless
  BY Names, StreamIsHarmless
<1>1. SinkUp(h, o) /\ Within(h, o, SinkRest)
  BY DEF SinkReady, SinkBusy, SinkIdle
<1>s. FramerUp(h, i, p, f) /\ FileUp(h, f) /\ Within(h, f, FileParts \cup {"idler"})
  BY DEF SourceUp, FramerUp
<1>n. o = Sink(Stream) /\ q = Fragmenter(Stream) /\ i = Framer(Stream) /\ f = File(Stream) /\ p = Parser(Stream)
  OBVIOUS
<1>3. SinkReady(h) => Ref(h, o, "our_fragmenter") = Null /\ Gone(h, q, {})
  BY DEF SinkReady, SinkIdle
<1>4. SinkBusy(h) => /\ Ref(h, o, "our_fragmenter") = q
                     /\ FragmenterUp(h, q, i) /\ Within(h, q, {"self", "next_task", "input_buffer"})
  BY DEF SinkBusy
<1> HIDE DEF o, q, i, f, p, g
<1>5. /\ IsHeap(g) /\ Clean(h, g, {o, q, f}) /\ Closes(h, g, o, SinkRest) /\ Gone(g, q, {})
      /\ FileUp(g, f) /\ Within(g, f, FileParts \cup {"idler"})
  <2>1. CASE SinkReady(h)
    <3>1. IsHeap(g) /\ Clean(h, g, {o}) /\ Closes(h, g, o, SinkRest)
      BY <1>0, <1>1, <1>3, <2>1, CloseIdleSinkGives DEF g
    <3>2. Clean(h, g, {o, q, f})
      BY <3>1, CleanMore
    <3>3. Same(h, g, f) /\ Same(h, g, q)
      BY <1>0, <3>1 DEF Clean
    <3> QED
      BY <1>3, <1>s, <2>1, <3>1, <3>2, <3>3, SameShapes
  <2>2. CASE SinkBusy(h)
    <3>1. /\ IsHeap(g) /\ Clean(h, g, {o, q, f}) /\ Closes(h, g, o, SinkRest)
          /\ Closes(h, g, q, {"self", "next_task", "input_buffer"}) /\ Drops(h, g, f, {"idler"}, {})
      <4>1. /\ Server \notin {o, q, f} /\ o \notin {q, i, p, f} /\ q \notin {i, p, f}
            /\ FragmenterUp(h, q, i) /\ Ref(h, o, "our_fragmenter") = q
        BY <1>0, <1>4, <2>2
      <4> QED
        BY <1>0, <1>1, <1>s, <4>1, CloseBusySinkGives DEF g
    <3>2. Gone(g, q, {})
      BY <1>4, <2>2, <3>1 DEF Closes, Gone, Within
    <3> QED
      BY <3>1, <3>2, <1>n, FileWithoutIdler
  <2> QED
    BY <2>1, <2>2
<1>6. Same(h, g, i) /\ Same(h, g, p)
  BY <1>0, <1>5 DEF Clean
<1>7. SourceUp(g, Stream, Seen)
  BY <1>5, <1>6, <1>n, SourceWithFile
<1>8. Gone(g, o, {})
  BY <1>1, <1>5 DEF Closes, Gone, Within
<1> QED
  BY <1>5, <1>7, <1>8, <1>n DEF g, SinkGone

LEMMA CloseRtcpOfStream ==
  ASSUME NEW h, IsHeap(h), Server \in h.listed, RtcpUp(h, Rtcp(Stream), Groupsock(Stream)),
         Within(h, Rtcp(Stream), RtcpParts), Lives(h, Groupsock(Stream), "self")
  PROVE  LET g == CloseMedium(h, Rtcp(Stream))
         IN  IsHeap(g) /\ Clean(h, g, {Rtcp(Stream)}) /\ Gone(g, Rtcp(Stream), {})
<1> DEFINE o == Rtcp(Stream)
           gs == Groupsock(Stream)
           g == CloseMedium(h, o)
<1>0. gs # o /\ Server # o /\ o # Null
  BY Names
<1>1. RtcpUp(h, o, gs) /\ Within(h, o, RtcpParts) /\ Lives(h, gs, "self")
  OBVIOUS
<1> HIDE DEF o, gs, g
<1>2. IsHeap(g) /\ Clean(h, g, {o}) /\ Closes(h, g, o, RtcpParts)
  BY <1>0, <1>1, CloseRtcpGives DEF g
<1>3. Gone(g, o, {})
  BY <1>1, <1>2 DEF Closes, Gone, Within
<1> QED
  BY <1>2, <1>3 DEF g, o

LEMMA MakeRtcpOfStream ==
  ASSUME NEW h, IsHeap(h), TablesUp(h), Lives(h, Groupsock(Stream), "self"), Gone(h, Rtcp(Stream), {})
  PROVE  LET g == NewRtcpInstance(h, Rtcp(Stream), Groupsock(Stream), Sink(Stream))
         IN  /\ IsHeap(g) /\ Clean(h, g, {Rtcp(Stream)})
             /\ RtcpUp(g, Rtcp(Stream), Groupsock(Stream)) /\ Within(g, Rtcp(Stream), RtcpParts)
<1> DEFINE o == Rtcp(Stream)
           gs == Groupsock(Stream)
           g == NewRtcpInstance(h, o, gs, Sink(Stream))
<1>0. gs # o /\ o # Tables
  BY Names
<1>1. Lives(h, gs, "self") /\ Gone(h, o, {})
  OBVIOUS
<1> HIDE DEF o, gs, g
<1>2. /\ IsHeap(g) /\ Clean(h, g, {o}) /\ o \in g.listed /\ Adds(h, g, o, RtcpParts, {"delete", "gs", "sink"})
      /\ Ref(g, o, "gs") = gs /\ Ref(g, o, "delete") = "rtcp_instance"
  BY <1>0, <1>1, NewRtcpGives DEF g
<1>3. RtcpUp(g, o, gs) /\ Within(g, o, RtcpParts)
  BY <1>1, <1>2 DEF Adds, Gone, Within, RtcpUp
<1> QED
  BY <1>2, <1>3 DEF g, o, gs

(* A unit that is seen leaves a copy with the framer. *)
LEMMA SaveGives ==
  ASSUME NEW h, NEW part \in Seen, IsHeap(h), SourceUp(h, Stream, Seen)
  PROVE  LET g == Make(FreeIf(Touch(h, Parser(Stream), "self"), Framer(Stream), part), Framer(Stream), {part})
         IN  IsHeap(g) /\ Clean(h, g, {Framer(Stream)}) /\ SourceUp(g, Stream, Seen)
<1> DEFINE o == Framer(Stream)
           p == Parser(Stream)
           f == File(Stream)
           h1 == FreeIf(h, o, part)
           g == Make(h1, o, {part})
<1>0. o \notin {p, f}
  BY Names
<1>1. FramerUp(h, o, p, f) /\ Within(h, o, {"self", "next_task"} \cup Seen) /\ Within(h, p, {"self", "bank0", "bank1"})
      /\ Within(h, f, FileParts \cup {"idler"}) /\ FileUp(h, f) /\ p \notin h.listed /\ Lives(h, p, "self")
  BY DEF SourceUp, FramerUp
<1>2. Touch(h, p, "self") = h
  BY <1>1, TouchGives
<1>n. o = Framer(Stream) /\ p = Parser(Stream) /\ f = File(Stream)
  OBVIOUS
<1> HIDE DEF o, p, f, h1, g
<1>3. IsHeap(h1) /\ Clean(h, h1, {o}) /\ Frees(h, h1, o, part)
  BY FreeIfStep DEF h1
<1>4. IsHeap(g) /\ Clean(h1, g, {o}) /\ Makes(h1, g, o, {part})
  BY <1>3, MakeStep DEF g
<1>5. Clean(h, g, {o})
  BY <1>3, <1>4, CleanThen
<1>6. Same(h, g, p) /\ Same(h, g, f)
  BY <1>0, <1>5 DEF Clean
<1>7. Lives(g, o, "self") /\ Lives(g, o, "next_task") /\ Within(g, o, {"self", "next_task"} \cup Seen)
  <2>1. part \notin {"self", "next_task"}
    BY DEF Seen
  <2> QED
    BY <1>1, <1>3, <1>4, <2>1 DEF Frees, Makes, Within, FramerUp
<1>8. Lives(g, p, "self") /\ FileUp(g, f) /\ Within(g, p, {"self", "bank0", "bank1"})
      /\ Within(g, f, FileParts \cup {"idler"}) /\ p \notin g.listed
  <2>1. FileUp(g, f) /\ Within(g, p, {"self", "bank0", "bank1"}) /\ Within(g, f, FileParts \cup {"idler"})
    BY <1>1, <1>6, SameShapes
  <2> QED
    BY <1>1, <1>6, <2>1 DEF Same
<1>9. FramerUp(g, o, p, f)
  BY <1>1, <1>3, <1>4, <1>7, <1>8 DEF Frees, Makes, FramerUp
<1> QED
  BY <1>2, <1>4, <1>5, <1>7, <1>8, <1>9, <1>n DEF SourceUp, g, h1

(* The line is written anew. *)
LEMMA LineGives ==
  ASSUME NEW h, IsHeap(h), SinkReady(h) \/ SinkBusy(h)
  PROVE  LET g == Make(FreeIf(h, Sink(Stream), "fmtp_sdp_line"), Sink(Stream), {"fmtp_sdp_line"})
         IN  /\ IsHeap(g) /\ Clean(h, g, {Sink(Stream)})
             /\ (SinkReady(g) \/ SinkBusy(g)) /\ (SinkBusy(h) => SinkBusy(g))
<1> DEFINE o == Sink(Stream)
           q == Fragmenter(Stream)
           i == Framer(Stream)
           h1 == FreeIf(h, o, "fmtp_sdp_line")
           g == Make(h1, o, {"fmtp_sdp_line"})
<1>0. o # q
  BY Names
<1>n. o = Sink(Stream) /\ q = Fragmenter(Stream) /\ i = Framer(Stream)
  OBVIOUS
<1>1. SinkUp(h, o) /\ Within(h, o, SinkRest)
  BY DEF SinkReady, SinkBusy, SinkIdle
<1> HIDE DEF o, q, i, h1, g
<1>3. IsHeap(h1) /\ Clean(h, h1, {o}) /\ Frees(h, h1, o, "fmtp_sdp_line")
  BY FreeIfStep DEF h1
<1>4. IsHeap(g) /\ Clean(h1, g, {o}) /\ Makes(h1, g, o, {"fmtp_sdp_line"})
  BY <1>3, MakeStep DEF g
<1>5. Clean(h, g, {o})
  BY <1>3, <1>4, CleanThen
<1>6. Same(h, g, q)
  BY <1>0, <1>5 DEF Clean
<1>7. \A k : Ref(g, o, k) = Ref(h, o, k)
  BY <1>3, <1>4 DEF Frees, Makes
<1>8. SinkUp(g, o)
  BY <1>1, <1>3, <1>4, <1>7 DEF Frees, Makes, SinkUp, SinkParts
<1>9. Within(g, o, SinkRest)
  BY <1>1, <1>3, <1>4 DEF Frees, Makes, Within, SinkRest
<1>10. Gone(h, q, {}) => Gone(g, q, {})
  BY <1>6, SameShapes
<1>11. FragmenterUp(h, q, i) => FragmenterUp(g, q, i)
  BY <1>6, SameShapes
<1>12. Within(h, q, {"self", "next_task", "input_buffer"}) => Within(g, q, {"self", "next_task", "input_buffer"})
  BY <1>6, SameShapes
<1>13. SinkReady(h) => SinkReady(g)
  BY <1>7, <1>8, <1>9, <1>10, <1>n DEF SinkReady, SinkIdle
<1>14. SinkBusy(h) => SinkBusy(g)
  BY <1>7, <1>8, <1>9, <1>11, <1>12, <1>n DEF SinkBusy
<1> QED
  BY <1>4, <1>5, <1>13, <1>14, <1>n DEF g, h1

LEMMA MakeStream ==
  ASSUME NEW h, NEW sets, IsHeap(h), TablesUp(h), SourceGone(h, Stream, Seen), Gone(h, Groupsock(Stream), {}),
         SinkGone(h), sets \subseteq {"sps", "pps"}
  PROVE  LET g == CreateNewRtpSink(CreateGroupsock(CreateNewStreamSource(h, Stream), Stream), Stream, sets)
         IN  /\ IsHeap(g) /\ Clean(h, g, SourceObjects(Stream) \cup {Groupsock(Stream), Sink(Stream)})
             /\ SourceUp(g, Stream, Seen) /\ SinkReady(g)
             /\ Lives(g, Groupsock(Stream), "self") /\ Gone(g, Groupsock(Stream), {"self"})
<1> DEFINE gs == Groupsock(Stream)
           o == Sink(Stream)
           q == Fragmenter(Stream)
           S == SourceObjects(Stream)
           all == S \cup {gs, o}
           h1 == CreateNewStreamSource(h, Stream)
           h2 == Make(h1, gs, {"self"})
           g  == CreateNewRtpSink(h2, Stream, sets)
<1>0. /\ gs \notin S \cup {o, q, Tables} /\ o \notin S \cup {q, Tables} /\ q \notin S /\ Tables \notin S
      /\ S \subseteq all /\ {gs} \subseteq all /\ {o} \subseteq all /\ S \cap {gs} = {} /\ S \cap {o} = {}
  BY Names DEF SourceObjects
<1>1. CreateNewRtpSink(CreateGroupsock(CreateNewStreamSource(h, Stream), Stream), Stream, sets) = g
  BY DEF CreateGroupsock
<1>n. gs = Groupsock(Stream) /\ o = Sink(Stream) /\ q = Fragmenter(Stream) /\ S = SourceObjects(Stream)
  OBVIOUS
<1>z. Gone(h, gs, {}) /\ Gone(h, o, {}) /\ Gone(h, q, {})
  BY DEF SinkGone
<1> HIDE DEF gs, o, q, S, all, h1, h2, g
<1>2. IsHeap(h1) /\ Clean(h, h1, S) /\ SourceUp(h1, Stream, Seen)
  BY <1>n, MakeSource DEF h1
<1>3. TablesUp(h1) /\ Gone(h1, gs, {}) /\ Gone(h1, o, {}) /\ Gone(h1, q, {})
  BY <1>0, <1>2, <1>z, TablesStay, GoneStays
<1>4. IsHeap(h2) /\ Clean(h1, h2, {gs}) /\ Makes(h1, h2, gs, {"self"})
  BY <1>2, MakeStep DEF h2
<1>5. SourceUp(h2, Stream, Seen)
  BY <1>0, <1>2, <1>4, <1>n, SourceStays
<1>6. TablesUp(h2) /\ Gone(h2, o, {}) /\ Gone(h2, q, {})
  <2>1. Tables \notin {gs} /\ o \notin {gs} /\ q \notin {gs}
    BY <1>0
  <2> QED
    BY <1>3, <1>4, <2>1, TablesStay, GoneStays
<1>7. Lives(h2, gs, "self") /\ Gone(h2, gs, {"self"})
  BY <1>3, <1>4 DEF Makes, Gone, Within
<1>8. IsHeap(g) /\ Clean(h2, g, {o}) /\ SinkIdle(g, Stream)
  BY <1>4, <1>6, <1>7, <1>n, MakeSink DEF g
<1>9. SourceUp(g, Stream, Seen)
  BY <1>0, <1>5, <1>8, <1>n, SourceStays
<1>10. Same(h2, g, gs) /\ Same(h2, g, q)
  BY <1>0, <1>8 DEF Clean
<1>11. Lives(g, gs, "self") /\ Gone(g, gs, {"self"}) /\ Gone(g, q, {})
  <2>1. Gone(g, gs, {"self"}) /\ Gone(g, q, {})
    BY <1>6, <1>7, <1>10, SameShapes
  <2> QED
    BY <1>7, <1>10, <2>1 DEF Same
<1>12. Clean(h, g, all)
  <2>1. Clean(h, h1, all) /\ Clean(h1, h2, all) /\ Clean(h2, g, all)
    BY <1>0, <1>2, <1>4, <1>8, CleanMore
  <2> QED
    BY <2>1, CleanThen
<1> QED
  BY <1>1, <1>8, <1>9, <1>11, <1>12, <1>n DEF SinkReady, all

------------------------------------------------------------------------------
(* What a server with clients is made of, part by part. *)

ClientObjects == {ClientSession(i) : i \in Sessions}
ConnectionObjects == {Connection(c) : c \in Connections}
UserObjects == {Database} \cup {Password(user) : user \in Users}

(* A client session that is to go may have lost its timer. *)
ClientLeft(h, o) ==
  /\ Lives(h, o, "self") /\ Lives(h, o, "liveness_check_task")
  /\ Gone(h, o, {"self", "liveness_check_task", "stream_states", "server_media_subsession_iterator"})
  /\ Ref(h, o, "our_server_media_session") \in {Null, Session}
ClientUp(h, o) == ClientLeft(h, o) /\ Ref(h, o, "liveness_check_task") # Null
ClientRest == {"liveness_check_task", "server_media_subsession_iterator"}
ClientPart(h) ==
  /\ IsFiniteSet(ClientSessions(h)) /\ ClientSessions(h) \subseteq ClientObjects
  /\ \A o \in ClientSessions(h) : ClientUp(h, o)
  /\ \A o \in ClientObjects : o \notin ClientSessions(h) => Gone(h, o, ClientRest)

(* The client sessions that hold the stream, and the stream: it is there as  *)
(* long as it is offered or held, and counts who holds it.                   *)
Tied(h) == {o \in ClientSessions(h) : Ref(h, o, "our_server_media_session") = Session}
SessionWith(h, has, tied) ==
  /\ LookupServerMediaSession(h) \in {Null, Session}
  /\ IF Session \in has \/ LookupServerMediaSession(h) = Session \/ tied # {}
     THEN SessionUp(h) /\ Ref(h, Session, "reference_count") = Cardinality(tied)
     ELSE SessionGone(h)
  /\ Session \in has => LookupServerMediaSession(h) = Null /\ tied = {}
  /\ LookupServerMediaSession(h) = Session \/ Session \in has
       => Ref(h, Session, "delete_when_unreferenced") = FALSE
SessionPart(h, has) == SessionWith(h, has, Tied(h))

(* A connection with a nonce has a realm, and none before it is accepted. *)
ConnectionUp(h, o) ==
  /\ o \notin h.listed
  /\ Ref(h, o, "nonce") # Null => Lives(h, o, "realm")
  /\ ~Lives(h, o, "self") =>
       /\ ~Lives(h, o, "our_socket")
       /\ Ref(h, o, "realm") = Null /\ Ref(h, o, "nonce") = Null
ConnectionPart(h) == \A o \in ConnectionObjects : ConnectionUp(h, o)

DatabaseParts == {"self", "table", "realm"}
DatabasePart(h) ==
  /\ Gone(h, Database, DatabaseParts)
  /\ Lives(h, Database, "self") => \A part \in DatabaseParts : Lives(h, Database, part)
  /\ ~Lives(h, Database, "self") => Gone(h, Database, {})
  /\ \A user \in Users : Gone(h, Password(user), IF Lives(h, Database, "self") THEN {"self"} ELSE {})

Objects ==
  {Tables, Server} \cup Dummies \cup StreamObjects \cup SessionObjects
  \cup ClientObjects \cup ConnectionObjects \cup UserObjects
NoOther(h) == \A o : o \notin Objects => Gone(h, o, {})

Up(h, has, reads) ==
  /\ IsHeap(h) /\ ServerUp(h) /\ DummiesGone(h) /\ StreamPart(h, has, reads)
  /\ ClientPart(h) /\ SessionPart(h, has) /\ ConnectionPart(h) /\ DatabasePart(h) /\ NoOther(h)

(* No server came to be: at most its socket was made.                        *)
Down(h, has, reads) ==
  /\ h.listed = {} /\ h.faults = {} /\ has = {} /\ ~reads /\ ~Lives(h, Server, "self")
  /\ \A b \in h.live : b[1] = Server

(* A stream was deleted with its clients, and looked at after its end.       *)
Late(h) ==
  /\ h.faults \subseteq Harmless \cup {<<"late", Session, "self">>}
  /\ \A o \in ClientSessions(h) : Ref(h, o, "our_server_media_session") = Null

Told(h) == challenge = [c \in Connections |-> [realm |-> Ref(h, Connection(c), "realm"),
                                               nonce |-> Ref(h, Connection(c), "nonce")]]
IInv ==
  /\ Runs => Told(heap) /\ (Up(heap, held, reading) \/ Down(heap, held, reading))
  /\ ReleasedOnce /\ AdmittedAsChallenged

(* Whose name an object bears. *)

LEMMA Bearers ==
  /\ \A o \in {Tables, Server} : o[1] \in {"tables", "server"}
  /\ \A o \in Dummies : o[1] \in {"framer", "parser", "file", "groupsock", "sink"} /\ o[2] = 0
  /\ \A o \in StreamObjects : o[1] \in {"framer", "parser", "file", "groupsock", "sink", "fragmenter", "rtcp"} /\ o[2] = 1
  /\ \A o \in SessionObjects : o[1] \in {"session", "subsession"}
  /\ \A o \in ClientObjects : o[1] = "client_session"
  /\ \A o \in ConnectionObjects : o[1] = "connection"
  /\ \A o \in UserObjects : o[1] \in {"database", "password"}
<1>1. \A o \in {Tables, Server} : o[1] \in {"tables", "server"}
  BY DEF Tables, Server
<1>2. \A o \in Dummies : o[1] \in {"framer", "parser", "file", "groupsock", "sink"} /\ o[2] = 0
  BY DEF Dummies, SourceObjects, Framer, Parser, File, Groupsock, Sink, Dummy
<1>3. \A o \in StreamObjects : o[1] \in {"framer", "parser", "file", "groupsock", "sink", "fragmenter", "rtcp"} /\ o[2] = 1
  BY DEF StreamObjects, SourceObjects, Framer, Parser, File, Groupsock, Sink, Fragmenter, Rtcp, Stream
<1>4. \A o \in SessionObjects : o[1] \in {"session", "subsession"}
  BY DEF SessionObjects, Tracked, Session, Subsession
<1>5. \A o \in ClientObjects : o[1] = "client_session"
  BY DEF ClientObjects, ClientSession
<1>6. \A o \in ConnectionObjects : o[1] = "connection"
  BY DEF ConnectionObjects, Connection
<1>7. \A o \in UserObjects : o[1] \in {"database", "password"}
  BY DEF UserObjects, Database, Password
<1> QED
  BY <1>1, <1>2, <1>3, <1>4, <1>5, <1>6, <1>7

LEMMA Apart ==
  /\ {Tables, Server} \cap (Dummies \cup StreamObjects \cup SessionObjects \cup ClientObjects \cup ConnectionObjects \cup UserObjects) = {}
  /\ Dummies \cap (StreamObjects \cup SessionObjects \cup ClientObjects \cup ConnectionObjects \cup UserObjects) = {}
  /\ StreamObjects \cap (SessionObjects \cup ClientObjects \cup ConnectionObjects \cup UserObjects) = {}
  /\ SessionObjects \cap (ClientObjects \cup ConnectionObjects \cup UserObjects) = {}
  /\ ClientObjects \cap (ConnectionObjects \cup UserObjects) = {}
  /\ ConnectionObjects \cap UserObjects = {}
  /\ Tables # Server
<1>1. Tables # Server
  BY DEF Tables, Server
<1>2. \A o : (o \in Dummies => o[2] = 0) /\ (o \in StreamObjects => o[2] = 1)
  BY Bearers
<1>3. Dummies \cap StreamObjects = {}
  BY <1>2
<1>4. /\ {Tables, Server} \cap (Dummies \cup StreamObjects \cup SessionObjects \cup ClientObjects \cup ConnectionObjects \cup UserObjects) = {}
      /\ Dummies \cap (SessionObjects \cup ClientObjects \cup ConnectionObjects \cup UserObjects) = {}
      /\ StreamObjects \cap (SessionObjects \cup ClientObjects \cup ConnectionObjects \cup UserObjects) = {}
  BY Bearers
<1>5. /\ SessionObjects \cap (ClientObjects \cup ConnectionObjects \cup UserObjects) = {}
      /\ ClientObjects \cap (ConnectionObjects \cup UserObjects) = {}
      /\ ConnectionObjects \cap UserObjects = {}
  BY Bearers
<1> QED
  BY <1>1, <1>3, <1>4, <1>5

(* Each part stays as it is where nothing of its objects changes. *)

Alike(h, g, S) == \A p \in S : Same(h, g, p)

LEMMA CleanAlike ==
  ASSUME NEW h, NEW g, NEW O, NEW S, Clean(h, g, O), O \cap S = {}
  PROVE  Alike(h, g, S)
BY DEF Clean, Alike

LEMMA ServerStays ==
  ASSUME NEW h, NEW g, Alike(h, g, {Tables, Server}), ServerUp(h)
  PROVE  ServerUp(g)
<1>1. Same(h, g, Tables) /\ Same(h, g, Server)
  BY DEF Alike
<1> QED
  BY <1>1 DEF Same, ServerUp, TablesUp

LEMMA DummiesStay ==
  ASSUME NEW h, NEW g, Alike(h, g, Dummies), DummiesGone(h)
  PROVE  DummiesGone(g)
<1>1. /\ Same(h, g, Framer(Dummy)) /\ Same(h, g, Parser(Dummy)) /\ Same(h, g, File(Dummy))
      /\ Same(h, g, Groupsock(Dummy)) /\ Same(h, g, Sink(Dummy))
  BY DEF Alike, Dummies, SourceObjects
<1> QED
  BY <1>1, SameShapes DEF DummiesGone, SourceGone

LEMMA StreamStays ==
  ASSUME NEW h, NEW g, NEW has, NEW has2, NEW reads, Alike(h, g, StreamObjects), StreamPart(h, has, reads),
         \A o \in StreamObjects : o \in has <=> o \in has2
  PROVE  StreamPart(g, has2, reads)
<1>1. /\ Same(h, g, Framer(Stream)) /\ Same(h, g, Parser(Stream)) /\ Same(h, g, File(Stream))
      /\ Same(h, g, Groupsock(Stream)) /\ Same(h, g, Sink(Stream)) /\ Same(h, g, Fragmenter(Stream))
      /\ Same(h, g, Rtcp(Stream))
  BY DEF Alike, StreamObjects, SourceObjects
<1>2. /\ Framer(Stream) \in has <=> Framer(Stream) \in has2
      /\ Groupsock(Stream) \in has <=> Groupsock(Stream) \in has2
      /\ Sink(Stream) \in has <=> Sink(Stream) \in has2
      /\ Rtcp(Stream) \in has <=> Rtcp(Stream) \in has2
  BY DEF StreamObjects, SourceObjects
<1>3. SourceUp(h, Stream, Seen) => SourceUp(g, Stream, Seen)
  BY <1>1 DEF Same, SourceUp, FramerUp, FileUp, FileParts, Within
<1>4. SourceGone(h, Stream, Seen) => SourceGone(g, Stream, Seen)
  BY <1>1, SameShapes DEF SourceGone
<1>5. SinkReady(h) => SinkReady(g)
  BY <1>1, SameShapes DEF Same, SinkReady, SinkIdle, SinkUp
<1>6. SinkBusy(h) => SinkBusy(g)
  BY <1>1, SameShapes DEF Same, SinkBusy, SinkUp
<1>7. SinkGone(h) => SinkGone(g)
  BY <1>1, SameShapes DEF SinkGone
<1>8. RtcpUp(h, Rtcp(Stream), Groupsock(Stream)) => RtcpUp(g, Rtcp(Stream), Groupsock(Stream))
  BY <1>1 DEF Same, RtcpUp
<1>9. /\ Within(h, Rtcp(Stream), RtcpParts) => Within(g, Rtcp(Stream), RtcpParts)
      /\ Gone(h, Rtcp(Stream), {}) => Gone(g, Rtcp(Stream), {})
      /\ Gone(h, Groupsock(Stream), {}) => Gone(g, Groupsock(Stream), {})
      /\ Gone(h, Groupsock(Stream), {"self"}) => Gone(g, Groupsock(Stream), {"self"})
      /\ Lives(h, Groupsock(Stream), "self") => Lives(g, Groupsock(Stream), "self")
  BY <1>1, SameShapes DEF Same
<1> QED
  BY <1>2, <1>3, <1>4, <1>5, <1>6, <1>7, <1>8, <1>9 DEF StreamPart

LEMMA SessionShapeStays ==
  ASSUME NEW h, NEW g, Alike(h, g, SessionObjects)
  PROVE  (SessionUp(h) => SessionUp(g)) /\ (SessionGone(h) => SessionGone(g))
<1>1. Same(h, g, Session) /\ \A t \in Tracks : Same(h, g, Subsession(t))
  BY DEF Alike, SessionObjects, Tracked
<1>2. \A t \in Tracks : TrackUp(h, t) => TrackUp(g, t)
  BY <1>1, SameShapes DEF Same, TrackUp
<1>3. Linked(h) => Linked(g)
  BY <1>1, <1>2 DEF Same, Linked
<1>4. SessionUp(h) => SessionUp(g)
  BY <1>1, <1>3, SameShapes DEF Same, SessionUp
<1>5. SessionGone(h) => SessionGone(g)
  BY <1>1, SameShapes DEF SessionGone
<1> QED
  BY <1>4, <1>5

LEMMA ClientStays ==
  ASSUME NEW h, NEW g, NEW o, Same(h, g, o)
  PROVE  (ClientLeft(h, o) => ClientLeft(g, o)) /\ (ClientUp(h, o) => ClientUp(g, o))
BY SameShapes DEF Same, ClientLeft, ClientUp

LEMMA ClientsStay ==
  ASSUME NEW h, NEW g, Alike(h, g, {Server} \cup ClientObjects), ClientPart(h)
  PROVE  ClientPart(g) /\ ClientSessions(g) = ClientSessions(h) /\ Tied(g) = Tied(h)
<1>1. ClientSessions(g) = ClientSessions(h)
  BY DEF Alike, Same, ClientSessions
<1>2. \A o \in ClientObjects : Same(h, g, o)
  BY DEF Alike
<1>3. ClientSessions(h) \subseteq ClientObjects
  BY DEF ClientPart
<1>4. ASSUME NEW o \in ClientSessions(g) PROVE ClientUp(g, o)
  <2>1. Same(h, g, o) /\ ClientUp(h, o)
    BY <1>1, <1>2, <1>3 DEF ClientPart
  <2> QED
    BY <2>1, ClientStays
<1>5. ASSUME NEW o \in ClientObjects, o \notin ClientSessions(g) PROVE Gone(g, o, ClientRest)
  <2>1. Same(h, g, o) /\ Gone(h, o, ClientRest)
    BY <1>1, <1>2, <1>5 DEF ClientPart
  <2> QED
    BY <2>1, SameShapes
<1>6. \A o \in ClientSessions(h) : Ref(g, o, "our_server_media_session") = Ref(h, o, "our_server_media_session")
  BY <1>2, <1>3 DEF Same
<1>7. Tied(g) = Tied(h)
  BY <1>1, <1>6 DEF Tied
<1> QED
  BY <1>1, <1>3, <1>4, <1>5, <1>7 DEF ClientPart

LEMMA SessionStays ==
  ASSUME NEW h, NEW g, NEW has, Alike(h, g, {Server} \cup SessionObjects), Tied(g) = Tied(h), SessionPart(h, has)
  PROVE  SessionPart(g, has)
<1>1. LookupServerMediaSession(g) = LookupServerMediaSession(h)
  BY DEF Alike, Same, LookupServerMediaSession
<1>2. (SessionUp(h) => SessionUp(g)) /\ (SessionGone(h) => SessionGone(g))
  BY SessionShapeStays DEF Alike
<1>3. \A k : Ref(g, Session, k) = Ref(h, Session, k)
  BY DEF Alike, Same, SessionObjects
<1> QED
  BY <1>1, <1>2, <1>3 DEF SessionPart, SessionWith

LEMMA ConnectionsStay ==
  ASSUME NEW h, NEW g, Alike(h, g, ConnectionObjects), ConnectionPart(h)
  PROVE  ConnectionPart(g)
BY DEF Alike, Same, ConnectionPart, ConnectionUp

LEMMA DatabaseStays ==
  ASSUME NEW h, NEW g, Alike(h, g, UserObjects), DatabasePart(h)
  PROVE  DatabasePart(g)
<1>1. Same(h, g, Database) /\ \A user \in Users : Same(h, g, Password(user))
  BY DEF Alike, UserObjects
<1>2. Lives(g, Database, "self") <=> Lives(h, Database, "self")
  BY <1>1 DEF Same
<1>3. \A user \in Users : Gone(g, Password(user), IF Lives(g, Database, "self") THEN {"self"} ELSE {})
  BY <1>1, <1>2, SameShapes DEF DatabasePart
<1>4. \A part : Lives(g, Database, part) <=> Lives(h, Database, part)
  BY <1>1 DEF Same
<1>5. Gone(g, Database, DatabaseParts) /\ (~Lives(h, Database, "self") => Gone(g, Database, {}))
  BY <1>1, SameShapes DEF DatabasePart
<1> QED
  BY <1>2, <1>3, <1>4, <1>5 DEF DatabasePart

LEMMA OthersStay ==
  ASSUME NEW h, NEW g, NEW O, Clean(h, g, O), O \subseteq Objects, NoOther(h)
  PROVE  NoOther(g)
<1>1. ASSUME NEW o, o \notin Objects PROVE Gone(g, o, {})
  <2>1. Same(h, g, o) /\ Gone(h, o, {})
    BY <1>1 DEF Clean, NoOther
  <2> QED
    BY <2>1, SameShapes
<1> QED
  BY <1>1 DEF NoOther

LEMMA OnlyTracksListed ==
  ASSUME NEW h, NEW has, NEW reads, Up(h, has, reads)
  PROVE  OnlyTracks(h)
<1> SUFFICES ASSUME NEW o \in h.listed, Ref(h, o, "delete") = "h264_subsession"
             PROVE  o \in Tracked
  BY DEF OnlyTracks
<1>1. o \in Objects
  BY DEF Up, NoOther, Gone
<1>2. o \notin {Tables, Server}
  BY DEF Up, ServerUp
<1>3. o \notin Dummies
  BY DEF Up, DummiesGone, SourceGone, Gone, Dummies, SourceObjects
<1>4. o \notin StreamObjects
  <2>1. StreamPart(h, has, reads)
    BY DEF Up
  <2>2. o # Framer(Stream)
    BY <2>1 DEF StreamPart, SourceUp, FramerUp, SourceGone, Gone
  <2>3. o # Parser(Stream)
    BY <2>1 DEF StreamPart, SourceUp, SourceGone, Gone
  <2>4. o # File(Stream)
    BY <2>1 DEF StreamPart, SourceUp, FramerUp, FileUp, SourceGone, Gone
  <2>5. o # Groupsock(Stream)
    BY <2>1 DEF StreamPart, Gone
  <2>6. o # Sink(Stream)
    BY <2>1 DEF StreamPart, SinkReady, SinkIdle, SinkBusy, SinkUp, SinkGone, Gone
  <2>7. o # Fragmenter(Stream)
    BY <2>1 DEF StreamPart, SinkReady, SinkBusy, FragmenterUp, SinkGone, Gone
  <2>8. o # Rtcp(Stream)
    BY <2>1 DEF StreamPart, RtcpUp, Gone
  <2> QED
    BY <2>2, <2>3, <2>4, <2>5, <2>6, <2>7, <2>8 DEF StreamObjects, SourceObjects
<1>5. o # Session
  BY DEF Up, SessionPart, SessionWith, SessionUp, SessionGone, Gone
<1>6. o \notin ClientObjects
  BY DEF Up, ClientPart, ClientUp, ClientLeft, Gone
<1>7. o \notin ConnectionObjects
  BY DEF Up, ConnectionPart, ConnectionUp
<1>8. o \notin UserObjects
  BY DEF Up, DatabasePart, UserObjects, Gone
<1> QED
  BY <1>1, <1>2, <1>3, <1>4, <1>5, <1>6, <1>7, <1>8 DEF Objects, SessionObjects

(* The objects that client sessions come and go with. *)
Own == {Server} \cup SessionObjects \cup ClientObjects
Serves(h, has) ==
  IsHeap(h) /\ ServerUp(h) /\ ClientPart(h) /\ SessionPart(h, has) /\ OnlyTracks(h)

LEMMA OnlyTracksStay ==
  ASSUME NEW h, NEW g, NEW has, Clean(h, g, Own), OnlyTracks(h), ServerUp(g), ClientPart(g), SessionPart(g, has)
  PROVE  OnlyTracks(g)
<1> SUFFICES ASSUME NEW o \in g.listed, Ref(g, o, "delete") = "h264_subsession"
             PROVE  o \in Tracked
  BY DEF OnlyTracks
<1>1. CASE o \notin Own
  BY <1>1 DEF Clean, Same, OnlyTracks
<1>2. o # Server
  BY DEF ServerUp
<1>3. o # Session
  BY DEF SessionPart, SessionWith, SessionUp, SessionGone, Gone
<1>4. o \notin ClientObjects
  BY DEF ClientPart, ClientUp, ClientLeft, Gone
<1> QED
  BY <1>1, <1>2, <1>3, <1>4 DEF Own, SessionObjects

LEMMA UpServes ==
  ASSUME NEW h, NEW has, NEW reads, Up(h, has, reads)
  PROVE  Serves(h, has)
BY OnlyTracksListed DEF Up, Serves

LEMMA ServesUp ==
  ASSUME NEW h, NEW g, NEW has, NEW has2, NEW reads, Up(h, has, reads), Clean(h, g, Own), Serves(g, has2),
         \A o \in StreamObjects : o \in has <=> o \in has2
  PROVE  Up(g, has2, reads)
<1>1. Own \cap Dummies = {} /\ Own \cap StreamObjects = {} /\ Own \cap ConnectionObjects = {} /\ Own \cap UserObjects = {}
      /\ Own \subseteq Objects
  BY Apart DEF Own, Objects
<1>2. Alike(h, g, Dummies) /\ Alike(h, g, StreamObjects) /\ Alike(h, g, ConnectionObjects) /\ Alike(h, g, UserObjects)
  BY <1>1, CleanAlike
<1>3. DummiesGone(g)
  BY <1>2, DummiesStay DEF Up
<1>4. StreamPart(g, has2, reads)
  BY <1>2, StreamStays DEF Up
<1>5. ConnectionPart(g)
  BY <1>2, ConnectionsStay DEF Up
<1>6. DatabasePart(g)
  BY <1>2, DatabaseStays DEF Up
<1>7. NoOther(g)
  BY <1>1, OthersStay DEF Up
<1> QED
  BY <1>3, <1>4, <1>5, <1>6, <1>7 DEF Up, Serves

(* What changes a part of the objects keeps the other parts. *)

LEMMA UpStream ==
  ASSUME NEW h, NEW g, NEW has, NEW has2, NEW reads, NEW reads2, Up(h, has, reads), Clean(h, g, StreamObjects),
         Session \in has <=> Session \in has2, StreamPart(g, has2, reads2)
  PROVE  Up(g, has2, reads2)
<1>1. /\ StreamObjects \cap {Tables, Server} = {} /\ StreamObjects \cap Dummies = {}
      /\ StreamObjects \cap ({Server} \cup ClientObjects) = {} /\ StreamObjects \cap ({Server} \cup SessionObjects) = {}
      /\ StreamObjects \cap ConnectionObjects = {} /\ StreamObjects \cap UserObjects = {}
      /\ StreamObjects \subseteq Objects
  BY Apart DEF Objects
<1>2. /\ Alike(h, g, {Tables, Server}) /\ Alike(h, g, Dummies)
      /\ Alike(h, g, {Server} \cup ClientObjects) /\ Alike(h, g, {Server} \cup SessionObjects)
      /\ Alike(h, g, ConnectionObjects) /\ Alike(h, g, UserObjects)
  BY <1>1, CleanAlike
<1>3. ServerUp(g) /\ DummiesGone(g)
  BY <1>2, ServerStays, DummiesStay DEF Up
<1>4. ClientPart(g) /\ Tied(g) = Tied(h)
  BY <1>2, ClientsStay DEF Up
<1>5. SessionPart(g, has2)
  <2>1. SessionPart(g, has)
    BY <1>2, <1>4, SessionStays DEF Up
  <2> QED
    BY <2>1 DEF SessionPart, SessionWith
<1>6. ConnectionPart(g) /\ DatabasePart(g)
  BY <1>2, ConnectionsStay, DatabaseStays DEF Up
<1>7. NoOther(g) /\ IsHeap(g)
  BY <1>1, OthersStay, CleanHeap DEF Up
<1> QED
  BY <1>3, <1>4, <1>5, <1>6, <1>7 DEF Up

LEMMA UpConnections ==
  ASSUME NEW h, NEW g, NEW has, NEW reads, Up(h, has, reads), Clean(h, g, ConnectionObjects), ConnectionPart(g)
  PROVE  Up(g, has, reads)
<1>1. /\ ConnectionObjects \cap {Tables, Server} = {} /\ ConnectionObjects \cap Dummies = {}
      /\ ConnectionObjects \cap StreamObjects = {}
      /\ ConnectionObjects \cap ({Server} \cup ClientObjects) = {} /\ ConnectionObjects \cap ({Server} \cup SessionObjects) = {}
      /\ ConnectionObjects \cap UserObjects = {} /\ ConnectionObjects \subseteq Objects
  BY Apart DEF Objects
<1>2. /\ Alike(h, g, {Tables, Server}) /\ Alike(h, g, Dummies) /\ Alike(h, g, StreamObjects)
      /\ Alike(h, g, {Server} \cup ClientObjects) /\ Alike(h, g, {Server} \cup SessionObjects)
      /\ Alike(h, g, UserObjects)
  BY <1>1, CleanAlike
<1>3. ServerUp(g) /\ DummiesGone(g) /\ StreamPart(g, has, reads)
  BY <1>2, ServerStays, DummiesStay, StreamStays DEF Up
<1>4. ClientPart(g) /\ Tied(g) = Tied(h)
  BY <1>2, ClientsStay DEF Up
<1>5. SessionPart(g, has) /\ DatabasePart(g)
  BY <1>2, <1>4, SessionStays, DatabaseStays DEF Up
<1>6. NoOther(g) /\ IsHeap(g)
  BY <1>1, OthersStay, CleanHeap DEF Up
<1> QED
  BY <1>3, <1>4, <1>5, <1>6 DEF Up

LEMMA UpUsers ==
  ASSUME NEW h, NEW g, NEW has, NEW reads, Up(h, has, reads), Clean(h, g, UserObjects), DatabasePart(g)
  PROVE  Up(g, has, reads)
<1>1. /\ UserObjects \cap {Tables, Server} = {} /\ UserObjects \cap Dummies = {}
      /\ UserObjects \cap StreamObjects = {}
      /\ UserObjects \cap ({Server} \cup ClientObjects) = {} /\ UserObjects \cap ({Server} \cup SessionObjects) = {}
      /\ UserObjects \cap ConnectionObjects = {} /\ UserObjects \subseteq Objects
  BY Apart DEF Objects
<1>2. /\ Alike(h, g, {Tables, Server}) /\ Alike(h, g, Dummies) /\ Alike(h, g, StreamObjects)
      /\ Alike(h, g, {Server} \cup ClientObjects) /\ Alike(h, g, {Server} \cup SessionObjects)
      /\ Alike(h, g, ConnectionObjects)
  BY <1>1, CleanAlike
<1>3. ServerUp(g) /\ DummiesGone(g) /\ StreamPart(g, has, reads)
  BY <1>2, ServerStays, DummiesStay, StreamStays DEF Up
<1>4. ClientPart(g) /\ Tied(g) = Tied(h)
  BY <1>2, ClientsStay DEF Up
<1>5. SessionPart(g, has) /\ ConnectionPart(g)
  BY <1>2, <1>4, SessionStays, ConnectionsStay DEF Up
<1>6. NoOther(g) /\ IsHeap(g)
  BY <1>1, OthersStay, CleanHeap DEF Up
<1> QED
  BY <1>3, <1>4, <1>5, <1>6 DEF Up

(* The user database is a field of the server. *)
LEMMA UpDatabase ==
  ASSUME NEW h, NEW has, NEW reads, NEW db, Up(h, has, reads)
  PROVE  Up(SetAuthenticationDatabase(h, db), has, reads) /\ Clean(h, SetAuthenticationDatabase(h, db), {Server})
<1> DEFINE g == SetAuthenticationDatabase(h, db)
<1>1. IsHeap(g) /\ Clean(h, g, {Server}) /\ Sets(h, g, Server, "auth_db", db)
  BY SetStep DEF Up, SetAuthenticationDatabase
<1> HIDE DEF g
<1>2. {Server} \cap {Tables} = {} /\ {Server} \cap (SessionObjects \cup ClientObjects) = {} /\ {Server} \subseteq Own
  BY Apart DEF Own
<1>3. Alike(h, g, SessionObjects) /\ Alike(h, g, ClientObjects) /\ Alike(h, g, {Tables}) /\ Clean(h, g, Own)
  BY <1>1, <1>2, CleanAlike, CleanMore
<1>4. ServerUp(g)
  BY <1>1, <1>3 DEF Up, ServerUp, TablesUp, Alike, Same, Sets
<1>5. LookupServerMediaSession(g) = LookupServerMediaSession(h) /\ ClientSessions(g) = ClientSessions(h)
  BY <1>1 DEF Sets, LookupServerMediaSession, ClientSessions
<1>6. ClientPart(g) /\ Tied(g) = Tied(h)
  <2>1. ClientPart(h) /\ ClientSessions(h) \subseteq ClientObjects
    BY DEF Up, ClientPart
  <2>2. ASSUME NEW o \in ClientSessions(g) PROVE ClientUp(g, o)
    <3>1. Same(h, g, o) /\ ClientUp(h, o)
      BY <1>3, <1>5, <2>1 DEF ClientPart, Alike
    <3> QED
      BY <3>1, ClientStays
  <2>3. ASSUME NEW o \in ClientObjects, o \notin ClientSessions(g) PROVE Gone(g, o, ClientRest)
    <3>1. Same(h, g, o) /\ Gone(h, o, ClientRest)
      BY <1>3, <1>5, <2>1, <2>3 DEF ClientPart, Alike
    <3> QED
      BY <3>1, SameShapes
  <2>4. Tied(g) = Tied(h)
    <3>1. \A o \in ClientSessions(h) : Ref(g, o, "our_server_media_session") = Ref(h, o, "our_server_media_session")
      BY <1>3, <2>1 DEF Alike, Same
    <3> QED
      BY <1>5, <3>1 DEF Tied
  <2> QED
    BY <1>5, <2>1, <2>2, <2>3, <2>4 DEF ClientPart
<1>7. SessionPart(g, has)
  <2>1. (SessionUp(h) => SessionUp(g)) /\ (SessionGone(h) => SessionGone(g))
    BY <1>3, SessionShapeStays
  <2>2. \A k : Ref(g, Session, k) = Ref(h, Session, k)
    BY <1>3 DEF Alike, Same, SessionObjects
  <2> QED
    BY <1>5, <1>6, <2>1, <2>2 DEF Up, SessionPart, SessionWith
<1>8. OnlyTracks(g)
  BY <1>3, <1>4, <1>6, <1>7, OnlyTracksStay, OnlyTracksListed
<1>9. Up(g, has, reads)
  BY <1>1, <1>3, <1>4, <1>6, <1>7, <1>8, ServesUp DEF Serves
<1> QED
  BY <1>1, <1>9 DEF g

------------------------------------------------------------------------------
(* A client session that comes or goes, among the others. *)

ClientsBut(h, o) ==
  /\ IsFiniteSet(ClientSessions(h)) /\ ClientSessions(h) \subseteq ClientObjects
  /\ \A p \in ClientSessions(h) : p # o => ClientUp(h, p)
  /\ \A p \in ClientObjects : p \notin ClientSessions(h) /\ p # o => Gone(h, p, ClientRest)

LEMMA ClientNames ==
  \A o \in ClientObjects : o \notin {Null, Server, Tables, Session} \cup SessionObjects
BY DEF ClientObjects, ClientSession, Null, Server, Tables, Session, SessionObjects, Tracked, Subsession

LEMMA ForgottenStep ==
  ASSUME NEW h, NEW o, IsHeap(h)
  PROVE  LET g == Forgotten(h, o)
         IN  IsHeap(g) /\ Clean(h, g, {o}) /\ Keeps(h, g, o)
<1> DEFINE g == Forgotten(h, o)
<1>1. /\ IsHeap(g) /\ SameBlocks(h, g)
      /\ \A p, k : p # o => Ref(g, p, k) = Ref(h, p, k)
  BY ForgottenGives
<1> HIDE DEF g
<1> QED
  BY <1>1 DEF g, Clean, Same, SameBlocks, Lives, Keeps

LEMMA ButOne ==
  ASSUME NEW h, NEW g, NEW o \in ClientObjects, ClientsBut(h, o), Alike(h, g, ClientObjects \ {o}),
         ClientSessions(g) \ {o} = ClientSessions(h) \ {o}
  PROVE  ClientsBut(g, o) /\ Tied(g) \ {o} = Tied(h) \ {o}
<1>1. IsFiniteSet(ClientSessions(g)) /\ ClientSessions(g) \subseteq ClientObjects
  <2>1. IsFiniteSet(ClientSessions(h) \cup {o})
    BY FS_AddElement DEF ClientsBut
  <2>2. ClientSessions(g) \subseteq ClientSessions(h) \cup {o}
    OBVIOUS
  <2>3. IsFiniteSet(ClientSessions(g))
    BY <2>1, <2>2, FS_Subset
  <2> QED
    BY <2>2, <2>3 DEF ClientsBut
<1>2. ASSUME NEW p \in ClientSessions(g), p # o PROVE ClientUp(g, p)
  <2>1. Same(h, g, p) /\ ClientUp(h, p)
    BY <1>1, <1>2 DEF ClientsBut, Alike
  <2> QED
    BY <2>1, ClientStays
<1>3. ASSUME NEW p \in ClientObjects, p \notin ClientSessions(g), p # o PROVE Gone(g, p, ClientRest)
  <2>1. Same(h, g, p) /\ Gone(h, p, ClientRest)
    BY <1>3 DEF ClientsBut, Alike
  <2> QED
    BY <2>1, SameShapes
<1>4. \A p \in ClientSessions(g) \ {o} : Ref(g, p, "our_server_media_session") = Ref(h, p, "our_server_media_session")
  BY <1>1 DEF Alike, Same
<1>5. Tied(g) \ {o} = Tied(h) \ {o}
  BY <1>4 DEF Tied
<1> QED
  BY <1>1, <1>2, <1>3, <1>5 DEF ClientsBut

LEMMA ButNone ==
  ASSUME NEW h, NEW o \in ClientObjects, ClientsBut(h, o),
         IF o \in ClientSessions(h) THEN ClientUp(h, o) ELSE Gone(h, o, ClientRest)
  PROVE  ClientPart(h)
BY DEF ClientsBut, ClientPart

LEMMA AllButOne ==
  ASSUME NEW h, NEW o \in ClientObjects, ClientPart(h)
  PROVE  ClientsBut(h, o)
BY DEF ClientsBut, ClientPart

LEMMA TiedFinite ==
  ASSUME NEW h, IsFiniteSet(ClientSessions(h))
  PROVE  IsFiniteSet(Tied(h)) /\ Cardinality(Tied(h)) \in Nat
<1>1. Tied(h) \subseteq ClientSessions(h)
  BY DEF Tied
<1> QED
  BY <1>1, FS_Subset, FS_CardinalityType

(* The server, where only its lists change. *)
LEMMA ServerKept ==
  ASSUME NEW h, NEW g, NEW f, NEW t, Sets(h, g, Server, f, t), f # "delete", Same(h, g, Tables), ServerUp(h)
  PROVE  ServerUp(g)
BY DEF Sets, Same, ServerUp, TablesUp

LEMMA SessionWithStays ==
  ASSUME NEW h, NEW g, NEW has, NEW tied, Alike(h, g, SessionObjects),
         LookupServerMediaSession(g) = LookupServerMediaSession(h), SessionWith(h, has, tied)
  PROVE  SessionWith(g, has, tied)
<1>1. (SessionUp(h) => SessionUp(g)) /\ (SessionGone(h) => SessionGone(g))
  BY SessionShapeStays
<1>2. \A k : Ref(g, Session, k) = Ref(h, Session, k)
  BY DEF Alike, Same, SessionObjects
<1> QED
  BY <1>1, <1>2 DEF SessionWith

LEMMA OnlyTracksKept ==
  ASSUME NEW h, NEW g, NEW O, Clean(h, g, O), OnlyTracks(h),
         \A o \in O : o \in g.listed => o \in h.listed /\ Ref(g, o, "delete") = Ref(h, o, "delete")
  PROVE  OnlyTracks(g)
<1> SUFFICES ASSUME NEW o \in g.listed, Ref(g, o, "delete") = "h264_subsession"
             PROVE  o \in Tracked
  BY DEF OnlyTracks
<1>1. CASE o \in O
  BY <1>1 DEF OnlyTracks
<1>2. CASE o \notin O
  BY <1>2 DEF Clean, Same, OnlyTracks
<1> QED
  BY <1>1, <1>2

LEMMA AddReferenceGives ==
  ASSUME NEW h, NEW n, IsHeap(h), SessionUp(h)
  PROVE  LET g == AddReference(h, Session, n)
             count == Ref(h, Session, "reference_count") + n
         IN  /\ IsHeap(g) /\ Clean(h, g, {Session}) /\ SessionUp(g)
             /\ Sets(h, g, Session, "reference_count", IF count < 0 THEN 0 ELSE count)
<1> DEFINE count == Ref(h, Session, "reference_count") + n
           m == IF count < 0 THEN 0 ELSE count
           g == Set(h, Session, "reference_count", m)
<1>1. Touch(h, Session, "self") = h
  BY TouchGives DEF SessionUp, SessionParts
<1>2. AddReference(h, Session, n) = g
  BY <1>1 DEF AddReference
<1> HIDE DEF m
<1>3. IsHeap(g) /\ Clean(h, g, {Session}) /\ Sets(h, g, Session, "reference_count", m)
  BY SetStep
<1> HIDE DEF g
<1>5. \A t \in Tracks : Same(h, g, Subsession(t))
  BY <1>3, TrackNames DEF Clean
<1>6. \A t \in Tracks : TrackUp(h, t) => TrackUp(g, t)
  BY <1>5, SameShapes DEF Same, TrackUp
<1>7. Linked(g)
  BY <1>3, <1>5, <1>6 DEF Same, Sets, Linked, SessionUp
<1>8. SessionUp(g)
  BY <1>3, <1>7 DEF Sets, SessionUp, Within
<1> QED
  BY <1>2, <1>3, <1>8 DEF m

(* A client session is made. *)
LEMMA CreateClientGives ==
  ASSUME NEW h, NEW has, NEW o \in ClientObjects, Serves(h, has), \A b \in h.live : b[1] # o
  PROVE  LET g == CreateNewClientSessionWithId(h, o)
         IN  /\ Clean(h, g, Own) /\ Serves(g, has) /\ o \in ClientSessions(g)
             /\ LookupServerMediaSession(g) = LookupServerMediaSession(h)
<1> DEFINE all == {Server, o}
           h1 == Make(h, o, {"self"})
           h2 == Make(h1, o, {"liveness_check_task"})
           h3 == Set(h2, o, "our_server_media_session", Null)
           h4 == Set(h3, o, "liveness_check_task", o)
           left == ClientSessions(h) \cup {o}
           g  == Set(h4, Server, "client_sessions", left)
<1>0. o \notin {Null, Server, Tables} \cup SessionObjects /\ Server \notin SessionObjects /\ Server # Tables
      /\ {o} \subseteq Own /\ {Server} \subseteq Own /\ Tables \notin Own
  BY ClientNames, Apart DEF Own
<1>a. \A part : ~Lives(h, o, part)
  BY DEF Lives
<1>b. IsHeap(h) /\ ClientPart(h) /\ ServerUp(h) /\ OnlyTracks(h) /\ SessionPart(h, has)
  BY DEF Serves
<1>c. o \notin ClientSessions(h)
  BY <1>a, <1>b DEF ClientPart, ClientUp, ClientLeft
<1>d. o \notin h.listed
  BY <1>b, <1>c DEF ClientPart, Gone
<1> HIDE DEF h1, h2, h3, h4, g, left
<1>1. IsHeap(h1) /\ Clean(h, h1, {o}) /\ Makes(h, h1, o, {"self"})
  BY <1>b, MakeStep DEF h1
<1>2. IsHeap(h2) /\ Clean(h1, h2, {o}) /\ Makes(h1, h2, o, {"liveness_check_task"})
  BY <1>1, MakeStep DEF h2
<1>3. IsHeap(h3) /\ Clean(h2, h3, {o}) /\ Sets(h2, h3, o, "our_server_media_session", Null)
  BY <1>2, SetStep DEF h3
<1>4. IsHeap(h4) /\ Clean(h3, h4, {o}) /\ Sets(h3, h4, o, "liveness_check_task", o)
  BY <1>3, SetStep DEF h4
<1>5. IsHeap(g) /\ Clean(h4, g, {Server}) /\ Sets(h4, g, Server, "client_sessions", left)
  BY <1>4, SetStep DEF g
<1>6. Clean(h, h4, {o})
  BY <1>1, <1>2, <1>3, <1>4, CleanThen
<1>7. Clean(h, g, Own)
  <2>1. Clean(h, h4, Own) /\ Clean(h4, g, Own)
    BY <1>0, <1>5, <1>6, CleanMore
  <2> QED
    BY <2>1, CleanThen
<1>8. CreateNewClientSessionWithId(h, o) = g
  <2>1. Ref(h4, o, "our_server_media_session") = Null
    BY <1>3, <1>4 DEF Sets
  <2>2. Touch(h4, o, "liveness_check_task") = h4
    BY <1>2, <1>3, <1>4, TouchGives DEF Makes, Sets
  <2>3. NoteLiveness(h4, o) = h4
    BY <2>1, <2>2 DEF NoteLiveness
  <2> QED
    BY <2>3 DEF CreateNewClientSessionWithId, NewRtspClientSession, RtspClientSessionInit, ClientSessionInit, New, g, h4, h3, h2, h1, left
<1>9. Same(h4, g, o) /\ Same(h4, g, Tables) /\ Same(h, h4, Server) /\ Same(h, h4, Tables) /\ Same(h, g, Tables)
  BY <1>0, <1>5, <1>6, <1>7 DEF Clean
<1>10. Sets(h, g, Server, "client_sessions", left)
  BY <1>5, <1>9 DEF Sets, Same
<1>11. ServerUp(g)
  BY <1>b, <1>9, <1>10, ServerKept
<1>12. ClientSessions(g) = left /\ LookupServerMediaSession(g) = LookupServerMediaSession(h)
  BY <1>10 DEF Sets, ClientSessions, LookupServerMediaSession
<1>13. ClientsBut(g, o) /\ Tied(g) \ {o} = Tied(h) \ {o}
  <2>1. Alike(h, g, ClientObjects \ {o})
    <3> SUFFICES ASSUME NEW p \in ClientObjects \ {o} PROVE Same(h, g, p)
      BY DEF Alike
    <3>1. p # Server
      BY ClientNames
    <3>2. Same(h, h4, p) /\ Same(h4, g, p)
      BY <1>5, <1>6, <3>1 DEF Clean
    <3> QED
      BY <3>2 DEF Same
  <2>2. ClientSessions(g) \ {o} = ClientSessions(h) \ {o}
    BY <1>12 DEF left
  <2> QED
    BY <1>b, <2>1, <2>2, AllButOne, ButOne
<1>14. ClientUp(g, o)
  <2>1. \A part : Lives(g, o, part) <=> part \in {"self", "liveness_check_task"}
    BY <1>a, <1>1, <1>2, <1>3, <1>4, <1>9 DEF Makes, Sets, Same
  <2>2. o \notin g.listed
    BY <1>d, <1>1, <1>2, <1>3, <1>4, <1>9 DEF Makes, Sets, Same
  <2>3. Ref(g, o, "our_server_media_session") = Null /\ Ref(g, o, "liveness_check_task") = o
    BY <1>3, <1>4, <1>9 DEF Sets, Same
  <2> QED
    BY <1>0, <2>1, <2>2, <2>3 DEF ClientUp, ClientLeft, Gone, Within
<1>15. ClientPart(g) /\ o \in ClientSessions(g)
  BY <1>12, <1>13, <1>14, ButNone DEF left
<1>16. Tied(g) = Tied(h)
  <2>1. o \notin Tied(h)
    BY <1>c DEF Tied
  <2>2. o \notin Tied(g)
    <3>1. Ref(g, o, "our_server_media_session") = Null /\ Null # Session
      BY <1>3, <1>4, <1>9 DEF Sets, Same, Null, Session
    <3> QED
      BY <3>1 DEF Tied
  <2> QED
    BY <1>13, <2>1, <2>2
<1>17. SessionPart(g, has)
  <2>1. Alike(h, g, SessionObjects)
    <3> SUFFICES ASSUME NEW p \in SessionObjects PROVE Same(h, g, p)
      BY DEF Alike
    <3>1. p # Server /\ p # o
      BY <1>0
    <3>2. Same(h, h4, p) /\ Same(h4, g, p)
      BY <1>5, <1>6, <3>1 DEF Clean
    <3> QED
      BY <3>2 DEF Same
  <2> QED
    BY <1>b, <1>12, <1>16, <2>1, SessionWithStays DEF SessionPart
<1>18. OnlyTracks(g)
  BY <1>b, <1>7, <1>11, <1>15, <1>17, OnlyTracksStay
<1> QED
  BY <1>5, <1>7, <1>8, <1>11, <1>12, <1>15, <1>17, <1>18 DEF Serves

(* A client session takes hold of the stream that is offered. *)
LEMMA BindGives ==
  ASSUME NEW h, NEW has, NEW o \in ClientSessions(h), Serves(h, has), LookupServerMediaSession(h) = Session
  PROVE  LET g == BindSession(h, o, Session)
         IN  Clean(h, g, Own) /\ Serves(g, has) /\ o \in ClientSessions(g)
<1> DEFINE h1 == Set(h, o, "our_server_media_session", Session)
           g  == AddReference(h1, Session, 1)
<1>b. IsHeap(h) /\ ClientPart(h) /\ ServerUp(h) /\ OnlyTracks(h) /\ SessionPart(h, has)
  BY DEF Serves
<1>0. o \in ClientObjects /\ o \notin {Null, Server, Tables, Session} \cup SessionObjects
      /\ {o} \subseteq Own /\ {Session} \subseteq Own /\ Session \in SessionObjects
      /\ Server # Session /\ Tables # Session /\ Session \notin ClientObjects /\ Session # Null
  <2>1. o \in ClientObjects
    BY <1>b DEF ClientPart
  <2>2. Session \in SessionObjects /\ Session # Null
    BY DEF SessionObjects, Session, Null
  <2> QED
    BY <2>1, <2>2, ClientNames, Apart DEF Own
<1>1. CASE Ref(h, o, "our_server_media_session") # Null
  <2>1. BindSession(h, o, Session) = h
    BY <1>1 DEF BindSession
  <2> QED
    BY <1>b, <2>1, CleanSelf
<1>2. CASE Ref(h, o, "our_server_media_session") = Null
  <2>1. BindSession(h, o, Session) = g
    BY <1>2 DEF BindSession
  <2>2. /\ SessionUp(h) /\ Ref(h, Session, "reference_count") = Cardinality(Tied(h))
        /\ Ref(h, Session, "delete_when_unreferenced") = FALSE /\ Session \notin has
    BY <1>0, <1>b DEF SessionPart, SessionWith
  <2> HIDE DEF h1, g
  <2>3. IsHeap(h1) /\ Clean(h, h1, {o}) /\ Sets(h, h1, o, "our_server_media_session", Session)
    BY <1>b, SetStep DEF h1
  <2>4. Alike(h, h1, SessionObjects) /\ Same(h, h1, Session)
    BY <1>0, <2>3 DEF Alike, Clean
  <2>5. SessionUp(h1)
    BY <2>2, <2>4, SessionShapeStays
  <2> DEFINE n == Cardinality(Tied(h))
             count == Ref(h1, Session, "reference_count") + 1
  <2>6. n \in Nat /\ IsFiniteSet(Tied(h))
    BY <1>b, TiedFinite DEF ClientPart
  <2>7. count = n + 1
    BY <2>2, <2>4 DEF Same
  <2> HIDE DEF n
  <2>8. ~(count < 0)
    BY <2>6, <2>7
  <2> HIDE DEF count
  <2>9. /\ IsHeap(g) /\ Clean(h1, g, {Session}) /\ SessionUp(g)
        /\ Sets(h1, g, Session, "reference_count", IF count < 0 THEN 0 ELSE count)
    BY <2>3, <2>5, AddReferenceGives DEF g, count
  <2>10. Clean(h, g, Own)
    <3>1. Clean(h, h1, Own) /\ Clean(h1, g, Own)
      BY <1>0, <2>3, <2>9, CleanMore
    <3> QED
      BY <3>1, CleanThen
  <2>11. Same(h, g, Server) /\ Same(h, g, Tables) /\ Same(h1, g, o)
    <3>1. Same(h, h1, Server) /\ Same(h, h1, Tables) /\ Same(h1, g, Server) /\ Same(h1, g, Tables) /\ Same(h1, g, o)
      BY <1>0, <2>3, <2>9 DEF Clean
    <3> QED
      BY <3>1 DEF Same
  <2>12. ServerUp(g)
    BY <1>b, <2>11 DEF Same, ServerUp, TablesUp
  <2>13. ClientSessions(g) = ClientSessions(h) /\ LookupServerMediaSession(g) = Session
    BY <2>11 DEF Same, ClientSessions, LookupServerMediaSession
  <2>14. ClientsBut(g, o) /\ Tied(g) \ {o} = Tied(h) \ {o}
    <3>1. Alike(h, g, ClientObjects \ {o})
      <4> SUFFICES ASSUME NEW p \in ClientObjects \ {o} PROVE Same(h, g, p)
        BY DEF Alike
      <4>1. Same(h, h1, p) /\ Same(h1, g, p)
        BY <1>0, <2>3, <2>9 DEF Clean
      <4> QED
        BY <4>1 DEF Same
    <3> QED
      BY <1>0, <1>b, <2>13, <3>1, AllButOne, ButOne
  <2>15. Ref(g, o, "our_server_media_session") = Session
    BY <2>3, <2>11 DEF Sets, Same
  <2>16. ClientUp(g, o)
    <3>1. ClientUp(h, o)
      BY <1>b DEF ClientPart
    <3>2. ClientUp(h1, o)
      BY <2>3, <3>1 DEF Sets, ClientUp, ClientLeft, Gone, Within
    <3> QED
      BY <2>11, <3>2, ClientStays
  <2>17. ClientPart(g)
    BY <1>0, <2>13, <2>14, <2>16, ButNone
  <2>18. Tied(g) = Tied(h) \cup {o} /\ o \notin Tied(h)
    <3>1. o \in Tied(g)
      BY <2>13, <2>15 DEF Tied
    <3>2. o \notin Tied(h)
      BY <1>0, <1>2 DEF Tied
    <3> QED
      BY <2>14, <3>1, <3>2
  <2>19. Cardinality(Tied(g)) = n + 1
    BY <2>6, <2>18, FS_AddElement DEF n
  <2>20. Ref(g, Session, "reference_count") = Cardinality(Tied(g)) /\ Ref(g, Session, "delete_when_unreferenced") = FALSE
    BY <2>2, <2>4, <2>7, <2>8, <2>9, <2>19 DEF Sets, Same
  <2>21. SessionPart(g, has)
    BY <2>2, <2>9, <2>13, <2>20 DEF SessionPart, SessionWith
  <2>22. OnlyTracks(g)
    BY <1>b, <2>10, <2>12, <2>17, <2>21, OnlyTracksStay
  <2> QED
    BY <2>1, <2>9, <2>10, <2>12, <2>13, <2>17, <2>21, <2>22 DEF Serves
<1> QED
  BY <1>1, <1>2

LEMMA StreamStatesGive ==
  ASSUME NEW h, NEW has, NEW o \in ClientSessions(h), Serves(h, has)
  PROVE  LET g == MakeStreamStates(h, o)
         IN  Clean(h, g, Own) /\ Serves(g, has)
<1> DEFINE parts == {"stream_states", "server_media_subsession_iterator"}
           g == Make(h, o, parts)
<1>b. IsHeap(h) /\ ClientPart(h) /\ ServerUp(h) /\ OnlyTracks(h) /\ SessionPart(h, has)
  BY DEF Serves
<1>0. o \in ClientObjects /\ {o} \subseteq Own /\ {o} \cap {Tables, Server} = {} /\ {o} \cap SessionObjects = {}
  <2>1. o \in ClientObjects
    BY <1>b DEF ClientPart
  <2> QED
    BY <2>1, ClientNames DEF Own
<1>1. CASE Lives(h, o, "stream_states")
  BY <1>b, <1>1, CleanSelf DEF MakeStreamStates
<1>2. CASE ~Lives(h, o, "stream_states")
  <2>1. MakeStreamStates(h, o) = g
    BY <1>2 DEF MakeStreamStates
  <2> HIDE DEF g
  <2>2. IsHeap(g) /\ Clean(h, g, {o}) /\ Makes(h, g, o, parts)
    BY <1>b, MakeStep DEF g
  <2>3. Alike(h, g, {Tables, Server}) /\ Alike(h, g, SessionObjects)
    BY <1>0, <2>2, CleanAlike
  <2>4. ServerUp(g) /\ ClientSessions(g) = ClientSessions(h) /\ LookupServerMediaSession(g) = LookupServerMediaSession(h)
    BY <1>b, <2>3, ServerStays DEF Alike, Same, ClientSessions, LookupServerMediaSession
  <2>5. ClientUp(h, o)
    BY <1>b DEF ClientPart
  <2>6. ClientUp(g, o)
    BY <2>2, <2>5 DEF Makes, ClientUp, ClientLeft, Gone, Within
  <2>7. ClientsBut(g, o) /\ Tied(g) \ {o} = Tied(h) \ {o}
    <3>1. Alike(h, g, ClientObjects \ {o})
      BY <2>2 DEF Alike, Clean
    <3> QED
      BY <1>0, <1>b, <2>4, <3>1, AllButOne, ButOne
  <2>8. ClientPart(g)
    BY <1>0, <2>4, <2>6, <2>7, ButNone
  <2>9. Tied(g) = Tied(h)
    <3>1. Ref(g, o, "our_server_media_session") = Ref(h, o, "our_server_media_session")
      BY <2>2 DEF Makes
    <3>2. o \in Tied(g) <=> o \in Tied(h)
      BY <2>4, <3>1 DEF Tied
    <3> QED
      BY <2>7, <3>2
  <2>10. SessionPart(g, has)
    BY <1>b, <2>3, <2>4, <2>9, SessionWithStays DEF SessionPart
  <2>11. Clean(h, g, Own)
    BY <1>0, <2>2, CleanMore
  <2>12. OnlyTracks(g)
    BY <1>b, <2>4, <2>8, <2>10, <2>11, OnlyTracksStay
  <2> QED
    BY <2>1, <2>2, <2>4, <2>8, <2>10, <2>11, <2>12 DEF Serves
<1> QED
  BY <1>1, <1>2

(* SETUP, in a client session that is there. *)
LEMMA SetupGives ==
  ASSUME NEW h, NEW has, NEW url, NEW o \in ClientSessions(h), Serves(h, has),
         LookupServerMediaSession(h) = LookupServerMediaSession(heap)
  PROVE  LET g == HandleCmdSetup(h, o, url)
         IN  Clean(h, g, Own) /\ Serves(g, has)
<1> DEFINE media == StreamOf(url)
           bound == Ref(h, o, "our_server_media_session")
           h1 == BindSession(h, o, Session)
           g  == MakeStreamStates(h1, o)
<1>1. media \in {Null, LookupServerMediaSession(h)} /\ LookupServerMediaSession(h) \in {Null, Session}
  BY DEF StreamOf, Lookup, Serves, SessionPart, SessionWith
<1> HIDE DEF media
<1>2. CASE media = Null \/ bound \notin {Null, media}
  BY <1>2, CleanSelf DEF HandleCmdSetup, media, Serves
<1>3. CASE ~(media = Null \/ bound \notin {Null, media})
  <2>1. media = Session /\ LookupServerMediaSession(h) = Session
    BY <1>1, <1>3
  <2>2. HandleCmdSetup(h, o, url) = g
    BY <1>3, <2>1 DEF HandleCmdSetup, media
  <2> HIDE DEF h1, g
  <2>3. Clean(h, h1, Own) /\ Serves(h1, has) /\ o \in ClientSessions(h1)
    BY <2>1, BindGives DEF h1
  <2>4. Clean(h1, g, Own) /\ Serves(g, has)
    BY <2>3, StreamStatesGive DEF g
  <2> QED
    BY <2>2, <2>3, <2>4, CleanThen
<1> QED
  BY <1>2, <1>3

------------------------------------------------------------------------------
(* A client session ends. *)

Leaves(h, has, o) ==
  /\ IsHeap(h) /\ ServerUp(h) /\ ClientsBut(h, o) /\ o \in ClientSessions(h) /\ ClientLeft(h, o)
  /\ SessionPart(h, has) /\ OnlyTracks(h)

LEMMA ServesLeaves ==
  ASSUME NEW h, NEW has, NEW o \in ClientSessions(h), Serves(h, has)
  PROVE  Leaves(h, has, o)
<1>1. o \in ClientObjects /\ ClientUp(h, o)
  BY DEF Serves, ClientPart
<1> QED
  BY <1>1, AllButOne DEF Serves, Leaves, ClientUp

(* Off the list, its timer stopped, and still there. *)
Unlisted(h, o) ==
  LET h1 == FreeIf(h, o, "stream_states")
      h2 == IF Ref(h1, o, "liveness_check_task") = Null THEN h1 ELSE Free(h1, o, "liveness_check_task")
  IN  Set(h2, Server, "client_sessions", ClientSessions(h1) \ {o})

LEMMA UnlistedGives ==
  ASSUME NEW h, NEW has, NEW o, Leaves(h, has, o)
  PROVE  LET g == Unlisted(h, o)
         IN  /\ IsHeap(g) /\ Clean(h, g, {Server, o}) /\ ServerUp(g) /\ ClientsBut(g, o)
             /\ ClientSessions(g) = ClientSessions(h) \ {o}
             /\ Tied(g) = Tied(h) \ {o} /\ SessionWith(g, has, Tied(h)) /\ OnlyTracks(g)
             /\ Lives(g, o, "self") /\ Gone(g, o, {"self"} \cup ClientRest)
             /\ \A p \in ClientObjects : Ref(g, p, "our_server_media_session") = Ref(h, p, "our_server_media_session")
<1> DEFINE h1 == FreeIf(h, o, "stream_states")
           h2 == IF Ref(h1, o, "liveness_check_task") = Null THEN h1 ELSE Free(h1, o, "liveness_check_task")
           left == ClientSessions(h1) \ {o}
           g  == Set(h2, Server, "client_sessions", left)
<1>b. /\ IsHeap(h) /\ ServerUp(h) /\ ClientsBut(h, o) /\ o \in ClientSessions(h) /\ ClientLeft(h, o)
      /\ SessionPart(h, has) /\ OnlyTracks(h)
  BY DEF Leaves
<1>0. o \in ClientObjects /\ o \notin {Null, Server, Tables, Session} \cup SessionObjects
      /\ Server \notin SessionObjects /\ Server # Tables /\ Server \notin ClientObjects
  <2>1. o \in ClientObjects
    BY <1>b DEF ClientsBut
  <2> QED
    BY <2>1, ClientNames, Apart
<1>1. Unlisted(h, o) = g
  BY DEF Unlisted
<1> HIDE DEF h1, h2, g, left
<1>2. IsHeap(h1) /\ Clean(h, h1, {o}) /\ Frees(h, h1, o, "stream_states")
  BY <1>b, FreeIfStep DEF h1
<1>3. /\ IsHeap(h2) /\ Clean(h1, h2, {o})
      /\ \A part : Lives(h2, o, part) => Lives(h1, o, part)
      /\ Lives(h2, o, "self") <=> Lives(h1, o, "self")
      /\ o \in h2.listed <=> o \in h1.listed
      /\ \A k : Ref(h2, o, k) = Ref(h1, o, k)
  <2>1. CASE Ref(h1, o, "liveness_check_task") = Null
    BY <1>2, <2>1, CleanSelf DEF h2
  <2>2. CASE Ref(h1, o, "liveness_check_task") # Null
    <3>1. Lives(h1, o, "liveness_check_task")
      BY <1>b, <1>2 DEF ClientLeft, Frees
    <3>2. h2 = Free(h1, o, "liveness_check_task")
      BY <2>2 DEF h2
    <3>3. IsHeap(h2) /\ Clean(h1, h2, {o}) /\ Frees(h1, h2, o, "liveness_check_task")
      BY <1>2, <3>1, <3>2, FreeStep
    <3> QED
      BY <3>3 DEF Frees
  <2> QED
    BY <2>1, <2>2
<1>4. Clean(h, h2, {o})
  BY <1>2, <1>3, CleanThen
<1>5. IsHeap(g) /\ Clean(h2, g, {Server}) /\ Sets(h2, g, Server, "client_sessions", left)
  BY <1>3, SetStep DEF g
<1>6. Clean(h, g, {Server, o})
  BY <1>4, <1>5, CleanTwice
<1>7. Same(h2, g, o) /\ Same(h, h2, Server) /\ Same(h, g, Tables) /\ Same(h, h1, Server)
  BY <1>0, <1>2, <1>4, <1>5, <1>6 DEF Clean
<1>8. Sets(h, g, Server, "client_sessions", left)
  BY <1>5, <1>7 DEF Sets, Same
<1>9. ServerUp(g)
  BY <1>b, <1>7, <1>8, ServerKept
<1>10. ClientSessions(g) = ClientSessions(h) \ {o} /\ LookupServerMediaSession(g) = LookupServerMediaSession(h)
  BY <1>7, <1>8 DEF Sets, Same, ClientSessions, LookupServerMediaSession, left
<1>11. ClientsBut(g, o) /\ Tied(g) \ {o} = Tied(h) \ {o}
  <2>1. Alike(h, g, ClientObjects \ {o})
    BY <1>0, <1>6 DEF Alike, Clean
  <2> QED
    BY <1>0, <1>b, <1>10, <2>1, ButOne
<1>12. Tied(g) = Tied(h) \ {o}
  <2>1. o \notin Tied(g)
    BY <1>10 DEF Tied
  <2> QED
    BY <1>11, <2>1
<1>13. SessionWith(g, has, Tied(h))
  <2>1. Alike(h, g, SessionObjects)
    BY <1>0, <1>6 DEF Alike, Clean
  <2> QED
    BY <1>b, <1>10, <2>1, SessionWithStays DEF SessionPart
<1>14. o \notin h.listed
  BY <1>b DEF ClientLeft, Gone
<1>15. o \notin g.listed
  BY <1>2, <1>3, <1>7, <1>14 DEF Frees, Same
<1>16. OnlyTracks(g)
  <2>1. \A p \in {Server, o} : p \in g.listed => p \in h.listed /\ Ref(g, p, "delete") = Ref(h, p, "delete")
    BY <1>8, <1>15 DEF Sets
  <2> QED
    BY <1>b, <1>6, <2>1, OnlyTracksKept
<1>17. Lives(g, o, "self")
  BY <1>b, <1>2, <1>3, <1>7 DEF ClientLeft, Frees, Same
<1>18. Gone(g, o, {"self"} \cup ClientRest)
  <2>1. \A part : Lives(g, o, part) => Lives(h, o, part) /\ part # "stream_states"
    BY <1>2, <1>3, <1>7 DEF Frees, Same
  <2>2. \A part : Lives(h, o, part) => part \in {"self", "liveness_check_task", "stream_states", "server_media_subsession_iterator"}
    BY <1>b DEF ClientLeft, Gone, Within
  <2> QED
    BY <1>15, <2>1, <2>2 DEF Gone, Within, ClientRest
<1>19. ASSUME NEW p \in ClientObjects PROVE Ref(g, p, "our_server_media_session") = Ref(h, p, "our_server_media_session")
  <2>1. CASE p = o
    BY <1>2, <1>3, <1>7, <2>1 DEF Frees, Same
  <2>2. CASE p # o
    BY <1>0, <1>6, <2>2 DEF Clean, Same
  <2> QED
    BY <2>1, <2>2
<1> QED
  BY <1>1, <1>5, <1>6, <1>9, <1>10, <1>11, <1>12, <1>13, <1>16, <1>17, <1>18, <1>19

(* The stream is not offered any more, and nobody holds it: it is closed.    *)
LEMMA RemoveUnheldGives ==
  ASSUME NEW h, IsHeap(h), ServerUp(h), SessionUp(h), OnlyTracks(h), Ref(h, Session, "reference_count") = 0
  PROVE  LET g == RemoveServerMediaSession(h, Session)
         IN  /\ IsHeap(g) /\ Clean(h, g, {Server} \cup SessionObjects) /\ ServerUp(g) /\ SessionGone(g)
             /\ LookupServerMediaSession(g) = Null /\ ClientSessions(g) = ClientSessions(h)
<1> DEFINE h1 == Set(h, Server, "server_media_sessions", Null)
           g  == CloseMedium(h1, Session)
           all == {Server} \cup SessionObjects
<1>0. Session # Null /\ Session # Server /\ Server \notin SessionObjects /\ Tables \notin SessionObjects /\ Server # Tables
  BY TrackNames, Apart
<1>1. Touch(h, Session, "self") = h
  BY TouchGives DEF SessionUp, SessionParts
<1>n. h1 = Set(h, Server, "server_media_sessions", Null) /\ g = CloseMedium(h1, Session)
  OBVIOUS
<1> HIDE DEF h1, g
<1>2. IsHeap(h1) /\ Clean(h, h1, {Server}) /\ Sets(h, h1, Server, "server_media_sessions", Null)
  BY SetStep DEF h1
<1>3. RemoveServerMediaSession(h, Session) = g
  BY <1>0, <1>1, <1>n DEF RemoveServerMediaSession
<1>4. Alike(h, h1, SessionObjects) /\ Same(h, h1, Tables)
  BY <1>0, <1>2 DEF Alike, Clean
<1>5. SessionUp(h1) /\ ServerUp(h1)
  BY <1>2, <1>4, SessionShapeStays, ServerKept
<1>6. OnlyTracks(h1)
  <2>1. \A p \in {Server} : p \in h1.listed => p \in h.listed /\ Ref(h1, p, "delete") = Ref(h, p, "delete")
    BY <1>2 DEF Sets
  <2> QED
    BY <1>2, <2>1, OnlyTracksKept
<1>7. IsHeap(g) /\ Clean(h1, g, SessionObjects) /\ SessionGone(g)
  <2>1. Server \in h1.listed
    BY <1>5 DEF ServerUp
  <2> QED
    BY <1>2, <1>5, <1>6, <2>1, CloseSessionGives DEF g
<1>8. Same(h1, g, Server) /\ Same(h1, g, Tables)
  BY <1>0, <1>7 DEF Clean
<1>9. ServerUp(g)
  BY <1>5, <1>8 DEF Same, ServerUp, TablesUp
<1>10. LookupServerMediaSession(g) = Null /\ ClientSessions(g) = ClientSessions(h)
  BY <1>2, <1>8 DEF Sets, Same, LookupServerMediaSession, ClientSessions
<1>11. Clean(h, g, all)
  BY <1>2, <1>7, CleanTwice
<1> QED
  BY <1>3, <1>7, <1>9, <1>10, <1>11

(* What a client session that ends does to the stream that it held.          *)
Released(u, o, media) ==
  LET released == AddReference(u, media, -1)
  IN  IF media = Null THEN u
      ELSE IF Ref(released, media, "reference_count") = 0
           THEN Set(RemoveServerMediaSession(released, media), o, "our_server_media_session", Null)
           ELSE released

LEMMA ReleasedGives ==
  ASSUME NEW u, NEW has, NEW tied, NEW o \in ClientObjects, NEW media \in {Null, Session},
         IsHeap(u), ServerUp(u), SessionWith(u, has, tied), OnlyTracks(u), IsFiniteSet(tied),
         IF media = Session THEN o \in tied ELSE o \notin tied
  PROVE  LET g == Released(u, o, media)
         IN  /\ IsHeap(g) /\ Clean(u, g, {Server, o} \cup SessionObjects) /\ ServerUp(g)
             /\ ClientSessions(g) = ClientSessions(u) /\ SessionWith(g, has, tied \ {o})
             /\ Keeps(u, g, o)
<1> DEFINE all == {Server, o} \cup SessionObjects
           h1 == AddReference(u, Session, -1)
           h2 == RemoveServerMediaSession(h1, Session)
           h3 == Set(h2, o, "our_server_media_session", Null)
<1>0. /\ o \notin {Null, Server, Tables, Session} \cup SessionObjects /\ Session \in SessionObjects /\ Session # Null
      /\ Server \notin SessionObjects /\ Tables \notin SessionObjects /\ Server # Tables
  <2>1. Session \in SessionObjects /\ Session # Null
    BY DEF SessionObjects, Session, Null
  <2> QED
    BY <2>1, ClientNames, Apart
<1>1. CASE media = Null
  <2>1. tied \ {o} = tied /\ Released(u, o, media) = u
    BY <1>0, <1>1 DEF Released
  <2> QED
    BY <2>1, CleanSelf DEF Keeps
<1>2. CASE media = Session
  <2>1. /\ SessionUp(u) /\ Ref(u, Session, "reference_count") = Cardinality(tied) /\ Session \notin has
        /\ LookupServerMediaSession(u) \in {Null, Session}
        /\ LookupServerMediaSession(u) = Session => Ref(u, Session, "delete_when_unreferenced") = FALSE
    BY <1>2 DEF SessionWith
  <2> DEFINE n == Cardinality(tied)
             count == Ref(u, Session, "reference_count") + (-1)
  <2>2. n \in Nat /\ n # 0 /\ Cardinality(tied \ {o}) = n - 1
    <3>1. n \in Nat /\ Cardinality(tied \ {o}) = n - 1
      BY <1>0, <1>2, FS_CardinalityType, FS_RemoveElement
    <3>2. n # 0
      BY <1>0, <1>2, FS_EmptySet
    <3> QED
      BY <3>1, <3>2
  <2>3. count = n - 1
    BY <2>1, <2>2
  <2>d. n = Cardinality(tied)
    OBVIOUS
  <2> HIDE DEF n
  <2>4. ~(count < 0)
    BY <2>2, <2>3
  <2>c. count = Ref(u, Session, "reference_count") + (-1)
    OBVIOUS
  <2>n. h1 = AddReference(u, Session, -1)
    OBVIOUS
  <2> HIDE DEF count, h1, h2, h3
  <2>5. /\ IsHeap(h1) /\ Clean(u, h1, {Session}) /\ SessionUp(h1)
        /\ Sets(u, h1, Session, "reference_count", IF count < 0 THEN 0 ELSE count)
    BY <2>1, <2>c, <2>n, AddReferenceGives
  <2>6. Ref(h1, Session, "reference_count") = n - 1
    BY <2>3, <2>4, <2>5 DEF Sets
  <2>7. Same(u, h1, Server) /\ Same(u, h1, Tables) /\ Same(u, h1, o)
    BY <1>0, <2>5 DEF Clean
  <2>8. ServerUp(h1) /\ LookupServerMediaSession(h1) = LookupServerMediaSession(u) /\ ClientSessions(h1) = ClientSessions(u)
    BY <2>7 DEF Same, ServerUp, TablesUp, LookupServerMediaSession, ClientSessions
  <2>9. OnlyTracks(h1)
    <3>1. \A p \in {Session} : p \in h1.listed => p \in u.listed /\ Ref(h1, p, "delete") = Ref(u, p, "delete")
      BY <2>5 DEF Sets
    <3> QED
      BY <2>5, <3>1, OnlyTracksKept
  <2>10. Clean(u, h1, all)
    BY <1>0, <2>5, CleanMore
  <2>11. CASE n = 1
    <3>1. Ref(h1, Session, "reference_count") = 0
      BY <2>2, <2>6, <2>11
    <3>2. /\ IsHeap(h2) /\ Clean(h1, h2, {Server} \cup SessionObjects) /\ ServerUp(h2) /\ SessionGone(h2)
          /\ LookupServerMediaSession(h2) = Null /\ ClientSessions(h2) = ClientSessions(h1)
      BY <2>5, <2>8, <2>9, <3>1, RemoveUnheldGives DEF h2
    <3>3. IsHeap(h3) /\ Clean(h2, h3, {o}) /\ Sets(h2, h3, o, "our_server_media_session", Null)
      BY <3>2, SetStep DEF h3
    <3>4. Released(u, o, media) = h3
      BY <1>0, <1>2, <3>1 DEF Released, h1, h2, h3
    <3>5. Alike(h2, h3, SessionObjects) /\ Alike(h2, h3, {Tables, Server})
      BY <1>0, <3>3 DEF Alike, Clean
    <3>6. SessionGone(h3) /\ ServerUp(h3)
      BY <3>2, <3>5, SessionShapeStays, ServerStays
    <3>7. LookupServerMediaSession(h3) = Null /\ ClientSessions(h3) = ClientSessions(u)
      BY <2>8, <3>2, <3>5 DEF Alike, Same, LookupServerMediaSession, ClientSessions
    <3>8. tied \ {o} = {}
      <4>1. IsFiniteSet(tied \ {o}) /\ Cardinality(tied \ {o}) = 0
        BY <2>2, <2>11, FS_Subset
      <4> QED
        BY <4>1, FS_EmptySet
    <3>9. SessionWith(h3, has, tied \ {o})
      <4>1. Null # Session
        BY <1>0
      <4> QED
        BY <2>1, <3>6, <3>7, <3>8, <4>1 DEF SessionWith
    <3>10. Clean(u, h3, all)
      <4>1. Clean(h1, h2, all) /\ Clean(h2, h3, all)
        BY <3>2, <3>3, CleanMore
      <4> QED
        BY <2>10, <4>1, CleanThen
    <3>11. Keeps(u, h3, o)
      <4>1. Same(h1, h2, o)
        BY <1>0, <3>2 DEF Clean
      <4> QED
        BY <2>7, <3>3, <4>1 DEF Same, Sets, Keeps
    <3> QED
      BY <3>3, <3>4, <3>6, <3>7, <3>9, <3>10, <3>11
  <2>12. CASE n # 1
    <3>1. Ref(h1, Session, "reference_count") # 0
      BY <2>2, <2>6, <2>12
    <3>2. Released(u, o, media) = h1
      BY <1>0, <1>2, <3>1 DEF Released, h1
    <3>3. tied \ {o} # {}
      <4>1. Cardinality(tied \ {o}) # 0
        BY <2>2, <2>12
      <4> QED
        BY <4>1, FS_EmptySet
    <3>4. Ref(h1, Session, "delete_when_unreferenced") = Ref(u, Session, "delete_when_unreferenced")
      BY <2>5 DEF Sets
    <3>5. SessionWith(h1, has, tied \ {o})
      BY <2>1, <2>2, <2>5, <2>6, <2>8, <3>3, <3>4 DEF SessionWith
    <3>6. Keeps(u, h1, o)
      BY <2>7 DEF Same, Keeps
    <3> QED
      BY <2>5, <2>8, <2>10, <3>2, <3>5, <3>6
  <2> QED
    BY <2>11, <2>12
<1> QED
  BY <1>1, <1>2

LEMMA DeleteClientGives ==
  ASSUME NEW h, NEW has, NEW o, Leaves(h, has, o)
  PROVE  LET g == DeleteRtspClientSession(h, o)
         IN  /\ Clean(h, g, Own) /\ Serves(g, has) /\ ClientSessions(g) = ClientSessions(h) \ {o}
             /\ Tied(g) = Tied(h) \ {o}
<1> DEFINE u == Unlisted(h, o)
           media == Ref(h, o, "our_server_media_session")
           h1 == Released(u, o, media)
           h2 == Free(h1, o, "self")
           g  == Forgotten(h2, o)
<1>b. /\ IsHeap(h) /\ ServerUp(h) /\ ClientsBut(h, o) /\ o \in ClientSessions(h) /\ ClientLeft(h, o)
      /\ SessionPart(h, has) /\ OnlyTracks(h)
  BY DEF Leaves
<1>0. /\ o \in ClientObjects /\ o \notin {Null, Server, Tables, Session} \cup SessionObjects
      /\ {Server, o} \subseteq Own /\ {Server, o} \cup SessionObjects \subseteq Own /\ {o} \subseteq Own
  <2>1. o \in ClientObjects
    BY <1>b DEF ClientsBut
  <2> QED
    BY <2>1, ClientNames DEF Own
<1>1. media \in {Null, Session}
  BY <1>b DEF ClientLeft
<1>2. DeleteRtspClientSession(h, o) = g
  <2> DEFINE f == FreeIf(h, o, "stream_states")
  <2>1. Ref(f, o, "our_server_media_session") = media
    <3>1. Frees(h, f, o, "stream_states")
      BY <1>b, FreeIfStep
    <3> QED
      BY <3>1 DEF Frees
  <2>2. RtspClientSessionDeinit(h, o) = h1
    BY <2>1 DEF RtspClientSessionDeinit, ReclaimStreamStates, ClientSessionDeinit, Unlisted, Released
  <2> QED
    BY <2>2 DEF DeleteRtspClientSession
<1> HIDE DEF u, h1, h2, g, media
<1>3. /\ IsHeap(u) /\ Clean(h, u, {Server, o}) /\ ServerUp(u) /\ ClientsBut(u, o)
      /\ ClientSessions(u) = ClientSessions(h) \ {o}
      /\ Tied(u) = Tied(h) \ {o} /\ SessionWith(u, has, Tied(h)) /\ OnlyTracks(u)
      /\ Lives(u, o, "self") /\ Gone(u, o, {"self"} \cup ClientRest)
  BY UnlistedGives DEF u
<1>4. IsFiniteSet(Tied(h)) /\ (IF media = Session THEN o \in Tied(h) ELSE o \notin Tied(h))
  <2>1. IsFiniteSet(ClientSessions(h))
    BY <1>b DEF ClientsBut
  <2>2. IsFiniteSet(Tied(h))
    BY <2>1, TiedFinite
  <2> QED
    BY <1>b, <2>2 DEF Tied, media
<1>5. /\ IsHeap(h1) /\ Clean(u, h1, {Server, o} \cup SessionObjects) /\ ServerUp(h1)
      /\ ClientSessions(h1) = ClientSessions(u) /\ SessionWith(h1, has, Tied(h) \ {o})
      /\ Keeps(u, h1, o)
  <2> DEFINE tied == Tied(h)
  <2>1. o \in ClientObjects /\ media \in {Null, Session}
    BY <1>0, <1>1
  <2>2. IsHeap(u) /\ ServerUp(u) /\ SessionWith(u, has, tied) /\ OnlyTracks(u)
    BY <1>3
  <2>3. IsFiniteSet(tied) /\ (IF media = Session THEN o \in tied ELSE o \notin tied)
    BY <1>4
  <2> HIDE DEF tied
  <2>4. /\ IsHeap(h1) /\ Clean(u, h1, {Server, o} \cup SessionObjects) /\ ServerUp(h1)
        /\ ClientSessions(h1) = ClientSessions(u) /\ SessionWith(h1, has, tied \ {o})
        /\ Keeps(u, h1, o)
    BY <2>1, <2>2, <2>3, ReleasedGives, SMTT(30) DEF h1
  <2> QED
    BY <2>4 DEF tied
<1>6. Lives(h1, o, "self") /\ Gone(h1, o, {"self"} \cup ClientRest)
  BY <1>3, <1>5 DEF Keeps, Gone, Within
<1>7. IsHeap(h2) /\ Clean(h1, h2, {o}) /\ Frees(h1, h2, o, "self")
  BY <1>5, <1>6, FreeStep DEF h2
<1>8. IsHeap(g) /\ Clean(h2, g, {o}) /\ Keeps(h2, g, o)
  BY <1>7, ForgottenStep DEF g
<1>9. Clean(h1, g, {o})
  BY <1>7, <1>8, CleanThen
<1>10. Clean(h, g, Own)
  <2>1. Clean(h, u, Own) /\ Clean(u, h1, Own) /\ Clean(h1, g, Own)
    BY <1>0, <1>3, <1>5, <1>9, CleanMore
  <2> QED
    BY <2>1, CleanThen
<1>11. Gone(g, o, ClientRest)
  BY <1>6, <1>7, <1>8 DEF Keeps, Frees, Gone, Within
<1>12. Alike(h1, g, {Tables, Server}) /\ Alike(h1, g, SessionObjects)
  BY <1>0, <1>9 DEF Alike, Clean
<1>13. /\ ServerUp(g) /\ ClientSessions(g) = ClientSessions(h) \ {o}
       /\ LookupServerMediaSession(g) = LookupServerMediaSession(h1)
  BY <1>3, <1>5, <1>12, ServerStays DEF Alike, Same, ClientSessions, LookupServerMediaSession
<1>14. ClientsBut(g, o) /\ Tied(g) \ {o} = Tied(u) \ {o}
  <2>1. Alike(u, g, ClientObjects \ {o})
    <3> SUFFICES ASSUME NEW p \in ClientObjects \ {o} PROVE Same(u, g, p)
      BY DEF Alike
    <3>1. p \notin {Server, o} \cup SessionObjects
      BY ClientNames
    <3>2. Same(u, h1, p) /\ Same(h1, g, p)
      BY <1>5, <1>9, <3>1 DEF Clean
    <3> QED
      BY <3>2 DEF Same
  <2> QED
    BY <1>0, <1>3, <1>13, <2>1, ButOne
<1>15. ClientPart(g)
  BY <1>0, <1>11, <1>13, <1>14, ButNone
<1>16. Tied(g) = Tied(h) \ {o}
  <2>1. o \notin Tied(g)
    BY <1>13 DEF Tied
  <2> QED
    BY <1>3, <1>14, <2>1
<1>17. SessionPart(g, has)
  BY <1>5, <1>12, <1>13, <1>16, SessionWithStays DEF SessionPart
<1>18. OnlyTracks(g)
  BY <1>b, <1>10, <1>13, <1>15, <1>17, OnlyTracksStay
<1> QED
  BY <1>2, <1>8, <1>10, <1>13, <1>15, <1>16, <1>17, <1>18 DEF Serves

------------------------------------------------------------------------------
(* All client sessions that hold a stream are closed, one after the other. *)

LEMMA InOrder ==
  ASSUME NEW S, IsFiniteSet(S)
  PROVE  LET s == SetToSeq(S)
         IN  /\ Len(s) \in Nat /\ \A i \in 1 .. Len(s) : s[i] \in S
             /\ \A i, j \in 1 .. Len(s) : s[i] = s[j] => i = j
             /\ \A x \in S : \E i \in 1 .. Len(s) : s[i] = x
<1> DEFINE n == Cardinality(S)
           s == SetToSeq(S)
<1>1. n \in Nat /\ ExistsBijection(1 .. n, S)
  BY FS_CardinalityType
<1>2. PICK f : f \in Bijection(1 .. n, S)
  BY <1>1 DEF ExistsBijection
<1>3. f \in [1 .. n -> S] /\ IsInjective(f)
  BY <1>2 DEF Bijection, Injection
<1>4. s \in [1 .. n -> S] /\ IsInjective(s)
  BY <1>3 DEF SetToSeq
<1>5. s \in Injection(1 .. n, S)
  BY <1>4 DEF Injection
<1> HIDE DEF s
<1>6. IsFiniteSet(1 .. n) /\ Cardinality(1 .. n) = n
  BY <1>1, FS_Interval
<1>7. s \in Surjection(1 .. n, S)
  <2> DEFINE D == 1 .. n
  <2>1. s \in Injection(D, S) /\ Cardinality(D) = Cardinality(S)
    BY <1>5, <1>6
  <2> HIDE DEF D
  <2>2. s \in Surjection(D, S)
    BY <2>1, FS_Injection
  <2> QED
    BY <2>2 DEF D
<1> HIDE DEF n
<1>8. s \in Seq(S) /\ Len(s) = n
  BY <1>1, <1>4
<1>9. \A i, j \in 1 .. n : s[i] = s[j] => i = j
  BY <1>4 DEF IsInjective
<1>10. \A x \in S : \E i \in 1 .. n : s[i] = x
  BY <1>7 DEF Surjection
<1> QED
  BY <1>1, <1>4, <1>8, <1>9, <1>10 DEF s

LEMMA CloseAllClientsGives ==
  ASSUME NEW h, NEW has, Serves(h, has)
  PROVE  LET g == CloseAllClientSessions(h, Session)
         IN  Clean(h, g, Own) /\ Serves(g, has) /\ Tied(g) = {}
<1> DEFINE sessions == SetToSeq(ClientSessions(h))
           n == Len(sessions)
<1>1. IsFiniteSet(ClientSessions(h))
  BY DEF Serves, ClientPart
<1>2. /\ n \in Nat /\ \A i \in 1 .. n : sessions[i] \in ClientSessions(h)
      /\ \A i, j \in 1 .. n : sessions[i] = sessions[j] => i = j
      /\ \A x \in ClientSessions(h) : \E i \in 1 .. n : sessions[i] = x
  BY <1>1, InOrder
<1>3. PICK f : ClosedUpTo(f, n, h, Session, sessions) /\ CloseAllClientSessions(h, Session) = f[n]
  BY <1>2, CloseAllGives
<1> HIDE DEF sessions, n
<1>4. f[0] = h /\ \A i \in 1 .. n : f[i] = CloseClient(f[i - 1], i, Session, sessions)
  <2> DEFINE media == Session
  <2>1. n \in Nat /\ ClosedUpTo(f, n, h, media, sessions)
    BY <1>2, <1>3
  <2> HIDE DEF media
  <2>2. f[0] = h /\ \A i \in 1 .. n : f[i] = CloseClient(f[i - 1], i, media, sessions)
    BY <2>1, ClosedSteps
  <2> QED
    BY <2>2 DEF media
<1> DEFINE Rest(k, i) ==
             /\ Clean(h, k, Own) /\ Serves(k, has)
             /\ \A j \in i + 1 .. n : sessions[j] \in ClientSessions(k)
             /\ \A o \in Tied(k) : \E j \in i + 1 .. n : sessions[j] = o
           Good == {i \in 0 .. n : Rest(f[i], i)}
<1>5. 0 \in Good
  <2>1. Rest(h, 0)
    <3>1. Clean(h, h, Own)
      BY CleanSelf DEF Serves
    <3>2. Tied(h) \subseteq ClientSessions(h) /\ 0 + 1 = 1
      BY DEF Tied
    <3> QED
      BY <1>2, <3>1, <3>2
  <2> HIDE DEF Rest
  <2> QED
    BY <1>2, <1>4, <2>1
<1>6. ASSUME NEW i \in 1 .. n, i - 1 \in Good PROVE i \in Good
  <2> DEFINE k == f[i - 1]
             o == sessions[i]
             g == CloseClient(k, i, Session, sessions)
  <2>1. Rest(k, i - 1)
    BY <1>6
  <2>2. f[i] = g
    BY <1>4
  <2>3. i - 1 + 1 = i /\ i \in i .. n /\ i + 1 .. n \subseteq i .. n /\ i + 1 .. n \subseteq 1 .. n /\ i \notin i + 1 .. n
        /\ \A j \in i .. n : j # i => j \in i + 1 .. n
    BY <1>2
  <2>n. o = sessions[i]
    OBVIOUS
  <2>g. g = IF Ref(k, o, "our_server_media_session") # Session THEN k ELSE DeleteRtspClientSession(k, o)
    BY DEF CloseClient
  <2> HIDE DEF k, o, g
  <2>4. /\ Clean(h, k, Own) /\ Serves(k, has)
        /\ \A j \in i .. n : sessions[j] \in ClientSessions(k)
        /\ \A p \in Tied(k) : \E j \in i .. n : sessions[j] = p
    BY <2>1, <2>3
  <2>5. Rest(g, i)
    <3>1. CASE Ref(k, o, "our_server_media_session") # Session
      <4>1. g = k /\ o \notin Tied(k)
        BY <2>g, <3>1 DEF Tied
      <4>2. \A p \in Tied(k) : \E j \in i + 1 .. n : sessions[j] = p
        BY <2>3, <2>4, <2>n, <4>1
      <4> QED
        BY <2>3, <2>4, <4>1, <4>2
    <3>2. CASE Ref(k, o, "our_server_media_session") = Session
      <4>1. o \in ClientSessions(k)
        BY <2>3, <2>4, <2>n
      <4>2. Leaves(k, has, o)
        BY <2>4, <4>1, ServesLeaves
      <4>3. g = DeleteRtspClientSession(k, o)
        BY <2>g, <3>2
      <4>4. /\ Clean(k, g, Own) /\ Serves(g, has) /\ ClientSessions(g) = ClientSessions(k) \ {o}
            /\ Tied(g) = Tied(k) \ {o}
        BY <4>2, <4>3, DeleteClientGives
      <4>5. Clean(h, g, Own)
        BY <2>4, <4>4, CleanThen
      <4>6. \A j \in i + 1 .. n : sessions[j] \in ClientSessions(g)
        <5> TAKE j \in i + 1 .. n
        <5>1. sessions[j] \in ClientSessions(k)
          BY <2>3, <2>4
        <5>2. j \in 1 .. n /\ j # i
          BY <2>3
        <5>3. sessions[j] # o
          BY <1>2, <2>n, <5>2
        <5> QED
          BY <4>4, <5>1, <5>3
      <4>7. \A p \in Tied(g) : \E j \in i + 1 .. n : sessions[j] = p
        <5> TAKE p \in Tied(g)
        <5>1. p \in Tied(k) /\ p # o
          BY <4>4
        <5>2. PICK j \in i .. n : sessions[j] = p
          BY <2>4, <5>1
        <5>3. j # i
          BY <2>n, <5>1, <5>2
        <5> QED
          BY <2>3, <5>2, <5>3
      <4> QED
        BY <4>4, <4>5, <4>6, <4>7
    <3> QED
      BY <3>1, <3>2
  <2> HIDE DEF Rest
  <2>6. i \in 0 .. n
    BY <1>2
  <2> QED
    BY <2>2, <2>5, <2>6
<1> HIDE DEF Good
<1>7. n \in Good
  <2>1. 0 .. n \subseteq Good
    BY <1>2, <1>5, <1>6, CountingUp
  <2> QED
    BY <1>2, <2>1
<1>8. Rest(f[n], n)
  BY <1>7 DEF Good
<1>9. Tied(f[n]) = {}
  <2>1. \A j \in n + 1 .. n : FALSE
    BY <1>2
  <2> QED
    BY <1>8, <2>1
<1> QED
  BY <1>3, <1>8, <1>9

------------------------------------------------------------------------------
(* The stream is withdrawn: it goes at once, or with its last client session. *)

LEMMA FromSession ==
  ASSUME NEW h, NEW g, NEW has, Serves(h, has), Clean(h, g, {Server} \cup SessionObjects),
         ServerUp(g), ClientSessions(g) = ClientSessions(h)
  PROVE  ClientPart(g) /\ Tied(g) = Tied(h) /\ (SessionPart(g, has) => Serves(g, has)) /\ Clean(h, g, Own)
<1>1. ClientPart(h) /\ OnlyTracks(h) /\ ClientSessions(h) \subseteq ClientObjects
  BY DEF Serves, ClientPart
<1>2. \A o \in ClientObjects : Same(h, g, o)
  <2>1. \A o \in ClientObjects : o \notin {Server} \cup SessionObjects
    BY ClientNames
  <2> QED
    BY <2>1 DEF Clean
<1>3. ASSUME NEW o \in ClientSessions(g) PROVE ClientUp(g, o)
  <2>1. Same(h, g, o) /\ ClientUp(h, o)
    BY <1>1, <1>2 DEF ClientPart
  <2> QED
    BY <2>1, ClientStays
<1>4. ASSUME NEW o \in ClientObjects, o \notin ClientSessions(g) PROVE Gone(g, o, ClientRest)
  <2>1. Same(h, g, o) /\ Gone(h, o, ClientRest)
    BY <1>1, <1>2, <1>4 DEF ClientPart
  <2> QED
    BY <2>1, SameShapes
<1>5. ClientPart(g)
  BY <1>1, <1>3, <1>4 DEF ClientPart
<1>6. Tied(g) = Tied(h)
  <2>1. \A o \in ClientSessions(h) : Ref(g, o, "our_server_media_session") = Ref(h, o, "our_server_media_session")
    BY <1>1, <1>2 DEF Same
  <2> QED
    BY <2>1 DEF Tied
<1>7. Clean(h, g, Own)
  <2>1. {Server} \cup SessionObjects \subseteq Own
    BY DEF Own
  <2> QED
    BY <2>1, CleanMore
<1>8. ASSUME SessionPart(g, has) PROVE Serves(g, has)
  BY <1>1, <1>5, <1>7, <1>8, OnlyTracksStay, CleanHeap DEF Serves
<1> QED
  BY <1>5, <1>6, <1>7, <1>8

LEMMA RemoveOfferedGives ==
  ASSUME NEW h, NEW has, Serves(h, has), LookupServerMediaSession(h) = Session
  PROVE  LET g == RemoveServerMediaSession(h, Session)
         IN  Clean(h, g, Own) /\ Serves(g, has)
<1> DEFINE h1 == Set(h, Server, "server_media_sessions", Null)
           h2 == Set(h1, Session, "delete_when_unreferenced", TRUE)
           g == RemoveServerMediaSession(h, Session)
<1>b. IsHeap(h) /\ ClientPart(h) /\ ServerUp(h) /\ OnlyTracks(h) /\ SessionPart(h, has)
  BY DEF Serves
<1>0. Session # Null /\ Session # Server /\ Server # Tables /\ Tables # Session /\ Session \in SessionObjects
      /\ Server \notin SessionObjects
  BY TrackNames, Apart DEF SessionObjects
<1>1. SessionUp(h) /\ Ref(h, Session, "reference_count") = Cardinality(Tied(h)) /\ Session \notin has
  BY <1>0, <1>b DEF SessionPart, SessionWith
<1>2. IsFiniteSet(Tied(h))
  BY <1>b, TiedFinite DEF ClientPart
<1>3. CASE Ref(h, Session, "reference_count") = 0
  <2> HIDE DEF g
  <2>1. /\ IsHeap(g) /\ Clean(h, g, {Server} \cup SessionObjects) /\ ServerUp(g) /\ SessionGone(g)
        /\ LookupServerMediaSession(g) = Null /\ ClientSessions(g) = ClientSessions(h)
    BY <1>b, <1>1, <1>3, RemoveUnheldGives DEF g
  <2>2. Tied(h) = {}
    BY <1>1, <1>2, <1>3, FS_EmptySet
  <2>3. ClientPart(g) /\ Tied(g) = Tied(h) /\ (SessionPart(g, has) => Serves(g, has)) /\ Clean(h, g, Own)
    BY <2>1, FromSession
  <2>4. SessionPart(g, has)
    BY <1>0, <1>1, <2>1, <2>2, <2>3 DEF SessionPart, SessionWith
  <2> QED
    BY <2>3, <2>4 DEF g
<1>4. CASE Ref(h, Session, "reference_count") # 0
  <2>1. Touch(h, Session, "self") = h
    BY <1>1, TouchGives DEF SessionUp, SessionParts
  <2>2. g = h2
    BY <1>0, <1>4, <2>1 DEF RemoveServerMediaSession
  <2> HIDE DEF g, h1, h2
  <2>3. IsHeap(h1) /\ Clean(h, h1, {Server}) /\ Sets(h, h1, Server, "server_media_sessions", Null)
    BY <1>b, SetStep DEF h1
  <2>4. IsHeap(h2) /\ Clean(h1, h2, {Session}) /\ Sets(h1, h2, Session, "delete_when_unreferenced", TRUE)
    BY <2>3, SetStep DEF h2
  <2>5. Clean(h, h2, {Server} \cup SessionObjects)
    <3>1. {Server} \subseteq {Server} \cup SessionObjects /\ {Session} \subseteq {Server} \cup SessionObjects
      BY <1>0
    <3> QED
      BY <2>3, <2>4, <3>1, CleanTwice
  <2>6. Same(h1, h2, Server) /\ Same(h, h2, Tables) /\ Same(h, h1, Session) /\ \A t \in Tracks : Same(h, h2, Subsession(t))
    <3>1. Same(h1, h2, Server) /\ Same(h, h1, Tables) /\ Same(h1, h2, Tables) /\ Same(h, h1, Session)
      BY <1>0, <2>3, <2>4 DEF Clean
    <3>2. ASSUME NEW t \in Tracks PROVE Same(h, h2, Subsession(t))
      <4>1. Same(h, h1, Subsession(t)) /\ Same(h1, h2, Subsession(t))
        BY <2>3, <2>4, TrackNames DEF Clean
      <4> QED
        BY <4>1 DEF Same
    <3> QED
      BY <3>1, <3>2 DEF Same
  <2>7. Sets(h, h2, Server, "server_media_sessions", Null)
    BY <2>3, <2>6 DEF Sets, Same
  <2>8. ServerUp(h2)
    BY <1>b, <2>6, <2>7, ServerKept
  <2>9. LookupServerMediaSession(h2) = Null /\ ClientSessions(h2) = ClientSessions(h)
    BY <2>7 DEF Sets, LookupServerMediaSession, ClientSessions
  <2>10. Sets(h, h2, Session, "delete_when_unreferenced", TRUE)
    BY <2>4, <2>6 DEF Sets, Same
  <2>11. \A t \in Tracks : TrackUp(h, t) => TrackUp(h2, t)
    BY <2>6, SameShapes DEF Same, TrackUp
  <2>12. Linked(h2)
    BY <1>1, <2>6, <2>10, <2>11, ZenonT(60) DEF Same, Sets, Linked, SessionUp
  <2>13. SessionUp(h2)
    BY <1>1, <2>10, <2>12 DEF Sets, SessionUp, Within
  <2>14. ClientPart(h2) /\ Tied(h2) = Tied(h) /\ (SessionPart(h2, has) => Serves(h2, has)) /\ Clean(h, h2, Own)
    BY <2>5, <2>8, <2>9, FromSession
  <2>15. Ref(h2, Session, "reference_count") = Cardinality(Tied(h2)) /\ Tied(h2) # {}
    <3>1. Tied(h) # {}
      BY <1>1, <1>4, FS_EmptySet
    <3> QED
      BY <1>1, <2>10, <2>14, <3>1 DEF Sets
  <2>16. SessionPart(h2, has)
    BY <1>0, <1>1, <2>9, <2>13, <2>15 DEF SessionPart, SessionWith
  <2> QED
    BY <2>2, <2>14, <2>16 DEF g
<1> QED
  BY <1>3, <1>4

(* With its client sessions it goes first, and is then looked at once more.  *)
LEMMA RemoveGoneGives ==
  ASSUME NEW h, NEW has, Serves(h, has), SessionGone(h), h.faults \subseteq Harmless, Tied(h) = {}
  PROVE  Late(RemoveServerMediaSession(h, Session)) /\ ~(RemoveServerMediaSession(h, Session).faults \subseteq Harmless)
<1> DEFINE h0 == Fault(h, "late", Session, "self")
           h1 == Set(h0, Server, "server_media_sessions", Null)
           h2 == Set(h1, Session, "delete_when_unreferenced", TRUE)
           h3 == Fault(h1, "late", Session, "self")
           bad == <<"late", Session, "self">>
<1>0. /\ Session # Null /\ Session # Server /\ Session \notin ClientObjects /\ Server \notin ClientObjects
      /\ "self" \notin {"ip_address_str"}
  <2>1. Session \in SessionObjects
    BY DEF SessionObjects
  <2> QED
    BY <2>1, TrackNames, Apart
<1>b. IsHeap(h) /\ ClientPart(h)
  BY DEF Serves
<1>1. ~Lives(h, Session, "self") /\ Session \notin h.listed
  BY <1>0 DEF SessionGone, Gone, Within
<1>2. Touch(h, Session, "self") = h0
  BY <1>1 DEF Touch
<1>3. bad \notin Harmless
  BY DEF Harmless
<1>n. h1 = Set(h0, Server, "server_media_sessions", Null)
  OBVIOUS
<1> HIDE DEF h0, h1, h2, h3
<1>4. /\ IsHeap(h0) /\ h0.listed = h.listed /\ h0.faults = h.faults \cup {bad}
      /\ (\A p, q : Lives(h0, p, q) <=> Lives(h, p, q))
      /\ \A p, k : Ref(h0, p, k) = Ref(h, p, k)
  BY <1>b, FaultGives DEF h0
<1>5. /\ IsHeap(h1) /\ SameBlocks(h0, h1)
      /\ \A p, k : Ref(h1, p, k) = IF p = Server /\ k = "server_media_sessions" THEN Null ELSE Ref(h0, p, k)
  BY <1>4, SetGives DEF h1
<1>6. /\ IsHeap(h2) /\ SameBlocks(h1, h2)
      /\ \A p, k : p # Session => Ref(h2, p, k) = Ref(h1, p, k)
  <2> DEFINE yes == TRUE
  <2>1. h2 = Set(h1, Session, "delete_when_unreferenced", yes)
    BY DEF h2
  <2> HIDE DEF yes
  <2>2. /\ IsHeap(h2) /\ SameBlocks(h1, h2)
        /\ \A p, k : Ref(h2, p, k) = IF p = Session /\ k = "delete_when_unreferenced" THEN yes ELSE Ref(h1, p, k)
    BY <1>5, <2>1, SetGives
  <2> QED
    BY <2>2
<1>7. /\ IsHeap(h3) /\ h3.listed = h1.listed /\ h3.faults = h1.faults \cup {bad}
      /\ (\A p, q : Lives(h3, p, q) <=> Lives(h1, p, q))
      /\ \A p, k : Ref(h3, p, k) = Ref(h1, p, k)
  BY <1>5, FaultGives DEF h3
<1>8. RemoveServerMediaSession(h, Session) \in {h2, h3}
  <2>1. Touch(h1, Session, "self") = h3 /\ Session \notin h1.listed
    BY <1>1, <1>4, <1>5 DEF Touch, SameBlocks, Lives, h3
  <2>2. CloseMedium(h1, Session) = h3
    BY <1>0, <2>1 DEF CloseMedium, CloseBy
  <2> QED
    BY <1>0, <1>2, <1>n, <2>2 DEF RemoveServerMediaSession, h2
<1>9. ASSUME NEW g \in {h2, h3} PROVE Late(g) /\ ~(g.faults \subseteq Harmless)
  <2>1. g.faults = h.faults \cup {bad}
    BY <1>4, <1>5, <1>6, <1>7 DEF SameBlocks
  <2> DEFINE Old(p, k) == p # Session /\ ~(p = Server /\ k = "server_media_sessions")
  <2>a. ASSUME NEW p, NEW k, Old(p, k) PROVE Ref(g, p, k) = Ref(h, p, k)
    <3>1. Ref(h1, p, k) = Ref(h, p, k)
      BY <1>4, <1>5, <2>a
    <3>2. Ref(h2, p, k) = Ref(h1, p, k) /\ Ref(h3, p, k) = Ref(h1, p, k)
      BY <1>6, <1>7, <2>a
    <3> QED
      BY <3>1, <3>2
  <2>2. \A p : \A k : p # Session /\ p # Server => Ref(g, p, k) = Ref(h, p, k)
    BY <2>a
  <2>3. Ref(g, Server, "client_sessions") = Ref(h, Server, "client_sessions")
    BY <1>0, <2>a
  <2>4. ClientSessions(g) = ClientSessions(h) /\ ClientSessions(h) \subseteq ClientObjects
    BY <1>b, <2>3 DEF ClientSessions, ClientPart
  <2>5. ASSUME NEW o \in ClientSessions(g) PROVE Ref(g, o, "our_server_media_session") = Null
    <3>1. Ref(g, o, "our_server_media_session") = Ref(h, o, "our_server_media_session")
      BY <1>0, <2>2, <2>4
    <3>2. Ref(h, o, "our_server_media_session") \in {Null, Session}
      BY <1>b, <2>4 DEF ClientPart, ClientUp, ClientLeft
    <3>3. Ref(h, o, "our_server_media_session") # Session
      BY <2>4 DEF Tied
    <3> QED
      BY <3>1, <3>2, <3>3
  <2> QED
    BY <1>3, <2>1, <2>5 DEF Late
<1> QED
  BY <1>8, <1>9

LEMMA DeleteWithClientsGives ==
  ASSUME NEW h, NEW has, Serves(h, has), h.faults \subseteq Harmless, LookupServerMediaSession(h) = Session
  PROVE  LET g == DeleteMediaSessionAndClients(h, Session)
         IN  (Clean(h, g, Own) /\ Serves(g, has)) \/ (Late(g) /\ ~(g.faults \subseteq Harmless))
<1> DEFINE h1 == CloseAllClientSessions(h, Session)
           g  == RemoveServerMediaSession(h1, Session)
<1>1. DeleteMediaSessionAndClients(h, Session) = g
  BY DEF DeleteMediaSessionAndClients
<1> HIDE DEF h1, g
<1>2. Clean(h, h1, Own) /\ Serves(h1, has) /\ Tied(h1) = {}
  BY CloseAllClientsGives DEF h1
<1>3. Session \notin has /\ Session # Null
  BY TrackNames DEF Serves, SessionPart, SessionWith
<1>4. CASE LookupServerMediaSession(h1) = Session
  <2>1. Clean(h1, g, Own) /\ Serves(g, has)
    BY <1>2, <1>4, RemoveOfferedGives DEF g
  <2> QED
    BY <1>1, <1>2, <2>1, CleanThen
<1>5. CASE LookupServerMediaSession(h1) # Session
  <2>1. SessionGone(h1)
    BY <1>2, <1>3, <1>5 DEF Serves, SessionPart, SessionWith
  <2>2. h1.faults \subseteq Harmless
    BY <1>2 DEF Clean
  <2>3. Late(g) /\ ~(g.faults \subseteq Harmless)
    BY <1>2, <2>1, <2>2, RemoveGoneGives DEF g
  <2> QED
    BY <1>1, <2>3
<1> QED
  BY <1>4, <1>5

(* The timer of a client session has run out. *)
LEMMA TimeoutGives ==
  ASSUME NEW h, NEW has, NEW o \in ClientSessions(h), Serves(h, has)
  PROVE  LET g == LivenessTimeoutTask(h, o)
         IN  Clean(h, g, Own) /\ Serves(g, has)
<1> DEFINE h1 == Set(h, o, "liveness_check_task", Null)
           g  == DeleteRtspClientSession(h1, o)
<1>b. IsHeap(h) /\ ClientPart(h) /\ ServerUp(h) /\ OnlyTracks(h) /\ SessionPart(h, has)
  BY DEF Serves
<1>0. o \in ClientObjects /\ {o} \subseteq Own /\ {o} \cap {Tables, Server} = {} /\ {o} \cap SessionObjects = {}
  <2>1. o \in ClientObjects
    BY <1>b DEF ClientPart
  <2> QED
    BY <2>1, ClientNames DEF Own
<1>1. LivenessTimeoutTask(h, o) = g
  BY DEF LivenessTimeoutTask
<1> HIDE DEF h1, g
<1>2. IsHeap(h1) /\ Clean(h, h1, {o}) /\ Sets(h, h1, o, "liveness_check_task", Null)
  BY <1>b, SetStep DEF h1
<1>3. Alike(h, h1, {Tables, Server}) /\ Alike(h, h1, SessionObjects)
  BY <1>0, <1>2, CleanAlike
<1>4. ServerUp(h1) /\ ClientSessions(h1) = ClientSessions(h) /\ LookupServerMediaSession(h1) = LookupServerMediaSession(h)
  BY <1>b, <1>3, ServerStays DEF Alike, Same, ClientSessions, LookupServerMediaSession
<1>5. ClientsBut(h1, o) /\ Tied(h1) \ {o} = Tied(h) \ {o}
  <2>1. Alike(h, h1, ClientObjects \ {o})
    BY <1>2 DEF Alike, Clean
  <2> QED
    BY <1>0, <1>b, <1>4, <2>1, AllButOne, ButOne
<1>6. ClientLeft(h1, o)
  <2>1. ClientUp(h, o)
    BY <1>b DEF ClientPart
  <2> QED
    BY <1>2, <2>1 DEF Sets, ClientUp, ClientLeft, Gone, Within
<1>7. Tied(h1) = Tied(h)
  <2>1. Ref(h1, o, "our_server_media_session") = Ref(h, o, "our_server_media_session")
    BY <1>2 DEF Sets
  <2>2. o \in Tied(h1) <=> o \in Tied(h)
    BY <1>4, <2>1 DEF Tied
  <2> QED
    BY <1>5, <2>2
<1>8. SessionPart(h1, has)
  BY <1>b, <1>3, <1>4, <1>7, SessionWithStays DEF SessionPart
<1>9. OnlyTracks(h1)
  <2>1. \A p \in {o} : p \in h1.listed => p \in h.listed /\ Ref(h1, p, "delete") = Ref(h, p, "delete")
    BY <1>2 DEF Sets
  <2> QED
    BY <1>b, <1>2, <2>1, OnlyTracksKept
<1>10. Leaves(h1, has, o)
  BY <1>2, <1>4, <1>5, <1>6, <1>8, <1>9 DEF Leaves
<1>11. Clean(h1, g, Own) /\ Serves(g, has)
  BY <1>10, DeleteClientGives DEF g
<1>12. Clean(h, h1, Own)
  BY <1>0, <1>2, CleanMore
<1> QED
  BY <1>1, <1>11, <1>12, CleanThen

------------------------------------------------------------------------------
(* DESCRIBE: the count goes up and down again. *)

LEMMA UpSession ==
  ASSUME NEW h, NEW g, NEW has, NEW has2, NEW reads, Up(h, has, reads), Clean(h, g, Dummies \cup SessionObjects),
         DummiesGone(g), \A o \in StreamObjects : o \in has <=> o \in has2,
         Tied(g) = Tied(h) => SessionPart(g, has2)
  PROVE  Up(g, has2, reads)
<1> DEFINE O == Dummies \cup SessionObjects
<1>1. /\ O \cap {Tables, Server} = {} /\ O \cap StreamObjects = {}
      /\ O \cap ({Server} \cup ClientObjects) = {}
      /\ O \cap ConnectionObjects = {} /\ O \cap UserObjects = {} /\ O \subseteq Objects
  BY Apart DEF Objects
<1> HIDE DEF O
<1>2. Clean(h, g, O)
  BY DEF O
<1>3. /\ Alike(h, g, {Tables, Server}) /\ Alike(h, g, StreamObjects)
      /\ Alike(h, g, {Server} \cup ClientObjects)
      /\ Alike(h, g, ConnectionObjects) /\ Alike(h, g, UserObjects)
  BY <1>1, <1>2, CleanAlike
<1>4. ServerUp(g) /\ StreamPart(g, has2, reads)
  BY <1>3, ServerStays, StreamStays DEF Up
<1>5. ClientPart(g) /\ Tied(g) = Tied(h)
  BY <1>3, ClientsStay DEF Up
<1>6. ConnectionPart(g) /\ DatabasePart(g)
  BY <1>3, ConnectionsStay, DatabaseStays DEF Up
<1>7. NoOther(g) /\ IsHeap(g)
  BY <1>1, <1>2, OthersStay, CleanHeap DEF Up
<1> QED
  BY <1>4, <1>5, <1>6, <1>7 DEF Up

LEMMA DescribeGives ==
  ASSUME NEW h, NEW has, NEW reads, NEW media \in {Null, Session}, Up(h, has, reads),
         media = Session => LookupServerMediaSession(h) = Session
  PROVE  LET g == DescribeSession(h, media)
         IN  Up(g, has, reads) /\ Clean(h, g, Dummies \cup SessionObjects)
<1> DEFINE all == Dummies \cup SessionObjects
           h1 == AddReference(h, Session, 1)
           h2 == GenerateSdpDescription(h1, Session)
           g  == AddReference(h2, Session, -1)
<1>b. IsHeap(h) /\ ServerUp(h) /\ DummiesGone(h) /\ ClientPart(h) /\ SessionPart(h, has) /\ OnlyTracks(h)
  BY OnlyTracksListed DEF Up
<1>0. /\ Session # Null /\ {Session} \subseteq all /\ SessionObjects \subseteq all /\ Session \in SessionObjects
      /\ SessionObjects \cap Dummies = {} /\ SessionObjects \cap {Tables, Server} = {}
      /\ all \cap {Server} = {}
  <2>1. Session \in SessionObjects
    BY DEF SessionObjects
  <2> QED
    BY <2>1, TrackNames, Apart
<1>1. CASE media = Null
  BY <1>b, <1>1, CleanSelf DEF DescribeSession
<1>2. CASE media = Session
  <2>1. /\ SessionUp(h) /\ Ref(h, Session, "reference_count") = Cardinality(Tied(h))
        /\ Ref(h, Session, "delete_when_unreferenced") = FALSE /\ Session \notin has
        /\ LookupServerMediaSession(h) = Session
    BY <1>0, <1>2, <1>b DEF SessionPart, SessionWith
  <2> DEFINE n == Cardinality(Tied(h))
  <2>2. n \in Nat
    BY <1>b, TiedFinite DEF ClientPart
  <2>3. Ref(h, Session, "reference_count") = n
    BY <2>1
  <2>x. n = Cardinality(Tied(h))
    OBVIOUS
  <2> DEFINE up == Ref(h, Session, "reference_count") + 1
             down == Ref(h2, Session, "reference_count") + (-1)
  <2>n. h1 = AddReference(h, Session, 1) /\ g = AddReference(h2, Session, -1)
    OBVIOUS
  <2>u. up = n + 1 /\ ~(up < 0)
    BY <2>2, <2>3
  <2>p. up = Ref(h, Session, "reference_count") + 1 /\ down = Ref(h2, Session, "reference_count") + (-1)
    OBVIOUS
  <2> HIDE DEF n, h1, h2, g, all, up, down
  <2>4. /\ IsHeap(h1) /\ Clean(h, h1, {Session}) /\ SessionUp(h1)
        /\ Sets(h, h1, Session, "reference_count", IF up < 0 THEN 0 ELSE up)
    BY <1>b, <2>1, <2>n, <2>p, AddReferenceGives
  <2>5. Ref(h1, Session, "reference_count") = n + 1
    BY <2>4, <2>u DEF Sets
  <2>6. Ref(h1, Session, "delete_when_unreferenced") = FALSE
    BY <2>1, <2>4 DEF Sets
  <2>7. Alike(h, h1, {Tables, Server}) /\ Alike(h, h1, Dummies)
    BY <1>0, <2>4 DEF Alike, Clean
  <2>8. ServerUp(h1) /\ DummiesGone(h1) /\ TablesUp(h1) /\ Server \in h1.listed
    <3>1. ServerUp(h1) /\ DummiesGone(h1)
      BY <1>b, <2>7, ServerStays, DummiesStay
    <3> QED
      BY <3>1 DEF ServerUp
  <2>9. OnlyTracks(h1)
    <3>1. \A p \in {Session} : p \in h1.listed => p \in h.listed /\ Ref(h1, p, "delete") = Ref(h, p, "delete")
      BY <2>4 DEF Sets
    <3> QED
      BY <1>b, <2>4, <3>1, OnlyTracksKept
  <2>10. /\ IsHeap(h2) /\ Clean(h1, h2, all) /\ DummiesGone(h2) /\ SessionUp(h2)
         /\ \A k : Ref(h2, Session, k) = Ref(h1, Session, k)
    BY <2>4, <2>8, <2>9, DescribeSessionGives DEF h2, all
  <2>11. /\ IsHeap(g) /\ Clean(h2, g, {Session}) /\ SessionUp(g)
         /\ Sets(h2, g, Session, "reference_count", IF down < 0 THEN 0 ELSE down)
    BY <2>10, <2>n, <2>p, AddReferenceGives
  <2>12. down = n /\ ~(down < 0)
    BY <2>2, <2>5, <2>10, <2>p
  <2>13. Ref(g, Session, "reference_count") = n /\ Ref(g, Session, "delete_when_unreferenced") = FALSE
    BY <2>6, <2>10, <2>11, <2>12 DEF Sets
  <2>14. DummiesGone(g)
    <3>1. Alike(h2, g, Dummies)
      BY <1>0, <2>11 DEF Alike, Clean
    <3> QED
      BY <2>10, <3>1, DummiesStay
  <2>15. Clean(h, g, all)
    <3>1. {Session} \subseteq all
      BY <1>0 DEF all
    <3>2. Clean(h, h1, all) /\ Clean(h2, g, all)
      BY <2>4, <2>11, <3>1, CleanMore
    <3> QED
      BY <2>10, <3>2, CleanThen
  <2>16. LookupServerMediaSession(g) = Session
    <3>1. Server \notin all
      BY <1>0 DEF all
    <3>2. Same(h, g, Server)
      BY <2>15, <3>1 DEF Clean
    <3> QED
      BY <2>1, <3>2 DEF Same, LookupServerMediaSession
  <2>17. Tied(g) = Tied(h) => SessionPart(g, has)
    BY <2>1, <2>11, <2>13, <2>16, <2>x DEF SessionPart, SessionWith
  <2>18. DescribeSession(h, Session) = g
    <3> DEFINE d == AddReference(GenerateSdpDescription(AddReference(h, Session, 1), Session), Session, -1)
    <3>1. d = g
      BY <2>n DEF h2
    <3>2. DescribeSession(h, Session) = IF Ref(d, Session, "reference_count") = 0 /\
              Ref(d, Session, "delete_when_unreferenced")
           THEN RemoveServerMediaSession(d, Session) ELSE d
      BY <1>0 DEF DescribeSession
    <3> HIDE DEF d
    <3> QED
      BY <2>13, <3>1, <3>2
  <2>19. Up(g, has, reads)
    BY <2>14, <2>15, <2>17, UpSession DEF all
  <2> QED
    BY <1>2, <2>15, <2>18, <2>19 DEF all
<1> QED
  BY <1>1, <1>2

------------------------------------------------------------------------------
(* Connections, and who is let in over one of them. *)

(* What the computation of a digest leaves as it was. *)
Steady(h, g, o) ==
  /\ IsHeap(g) /\ Clean(h, g, {o})
  /\ o \in g.listed <=> o \in h.listed
  /\ \A part \in {"self", "realm", "our_socket"} : Lives(g, o, part) <=> Lives(h, o, part)
  /\ \A k : Ref(g, o, k) = Ref(h, o, k)

LEMMA SteadyThen ==
  ASSUME NEW h, NEW g, NEW k, NEW o, Steady(h, g, o), Steady(g, k, o)
  PROVE  Steady(h, k, o)
BY CleanThen DEF Steady

LEMMA SteadyMake ==
  ASSUME NEW h, NEW o, NEW parts, IsHeap(h), parts \cap {"self", "realm", "our_socket"} = {}
  PROVE  Steady(h, Make(h, o, parts), o) /\ \A part \in parts : Lives(Make(h, o, parts), o, part)
<1> DEFINE g == Make(h, o, parts)
<1>1. IsHeap(g) /\ Clean(h, g, {o}) /\ Makes(h, g, o, parts)
  BY MakeStep
<1> HIDE DEF g
<1>2. Steady(h, g, o) /\ \A part \in parts : Lives(g, o, part)
  BY <1>1 DEF Makes, Steady
<1> QED
  BY <1>2 DEF g

LEMMA SteadyFreeIf ==
  ASSUME NEW h, NEW o, NEW part, IsHeap(h), part \notin {"self", "realm", "our_socket"}
  PROVE  Steady(h, FreeIf(h, o, part), o)
<1> DEFINE g == FreeIf(h, o, part)
<1>1. IsHeap(g) /\ Clean(h, g, {o}) /\ Frees(h, g, o, part)
  BY FreeIfStep
<1> HIDE DEF g
<1>2. Steady(h, g, o)
  BY <1>1 DEF Frees, Steady
<1> QED
  BY <1>2 DEF g

LEMMA SteadyFree ==
  ASSUME NEW h, NEW o, NEW part, IsHeap(h), Lives(h, o, part), part \notin {"self", "realm", "our_socket"}
  PROVE  Steady(h, Free(h, o, part), o)
BY SteadyFreeIf, FreeGives

LEMMA SteadyBrief ==
  ASSUME NEW h, NEW o, NEW part, IsHeap(h), part \notin {"self", "realm", "our_socket"}
  PROVE  Steady(h, Free(Make(h, o, {part}), o, part), o)
<1> DEFINE g == Make(h, o, {part})
<1>1. Steady(h, g, o) /\ Lives(g, o, part)
  BY SteadyMake
<1> HIDE DEF g
<1>2. Steady(g, Free(g, o, part), o)
  BY <1>1, SteadyFree DEF Steady
<1>3. Steady(h, Free(g, o, part), o)
  BY <1>1, <1>2, SteadyThen
<1> QED
  BY <1>3 DEF g

LEMMA OverrunIsHarmless == \A c \in Connections : <<"overrun", Connection(c), "our_response">> \in Harmless
BY DEF Harmless

LEMMA DigestGives ==
  ASSUME NEW h, NEW c \in Connections, IsHeap(h), Lives(h, Connection(c), "realm")
  PROVE  LET o == Connection(c)
             g == ReclaimDigestResponse(ComputeDigestResponse(SetUsernameAndPassword(h, o), o), o)
         IN  Steady(h, g, o)
<1> DEFINE o  == Connection(c)
           h1 == FreeIf(h, o, "username")
           h2 == FreeIf(h1, o, "password")
           h3 == Make(h2, o, {"username", "password"})
           h4 == Free(Make(h3, o, {"ha1_data"}), o, "ha1_data")
           h5 == Free(Make(h4, o, {"ha2_data"}), o, "ha2_data")
           h6 == Make(h5, o, {"digest_data"})
           h7 == Make(h6, o, {"our_response"})
           h8 == Fault(h7, "overrun", o, "our_response")
           h9 == Free(h8, o, "digest_data")
           g  == Free(h9, o, "our_response")
<1>f. <<"overrun", o, "our_response">> \in Harmless /\ Lives(h, o, "realm")
  BY OverrunIsHarmless
<1> HIDE DEF o, h1, h2, h3, h4, h5, h6, h7, h8, h9, g
<1>1. Steady(h, h1, o)
  BY SteadyFreeIf DEF h1
<1>2. Steady(h1, h2, o)
  BY <1>1, SteadyFreeIf DEF h2, Steady
<1>3. Steady(h2, h3, o) /\ Lives(h3, o, "password")
  <2> DEFINE parts == {"username", "password"}
  <2>1. IsHeap(h2) /\ parts \cap {"self", "realm", "our_socket"} = {} /\ "password" \in parts /\ h3 = Make(h2, o, parts)
    BY <1>2 DEF Steady, h3
  <2> HIDE DEF parts
  <2> QED
    BY <2>1, SteadyMake
<1>4. Steady(h3, h4, o)
  BY <1>3, SteadyBrief, ZenonT(60) DEF h4, Steady
<1>5. Steady(h4, h5, o)
  BY <1>4, SteadyBrief, ZenonT(60) DEF h5, Steady
<1>6. Steady(h5, h6, o) /\ Lives(h6, o, "digest_data")
  <2> DEFINE parts == {"digest_data"}
  <2>1. IsHeap(h5) /\ parts \cap {"self", "realm", "our_socket"} = {} /\ "digest_data" \in parts /\ h6 = Make(h5, o, parts)
    BY <1>5 DEF Steady, h6
  <2> HIDE DEF parts
  <2> QED
    BY <2>1, SteadyMake
<1>7. IsHeap(h7) /\ Clean(h6, h7, {o}) /\ Makes(h6, h7, o, {"our_response"})
  BY <1>6, MakeStep DEF h7, Steady
<1>8. IsHeap(h8) /\ Clean(h7, h8, {o}) /\ Same(h7, h8, o)
  BY <1>f, <1>7, FaultStep DEF h8
<1>9. Steady(h6, h8, o) /\ Lives(h8, o, "digest_data") /\ Lives(h8, o, "our_response")
  <2>1. Clean(h6, h8, {o})
    BY <1>7, <1>8, CleanThen
  <2> QED
    BY <1>6, <1>7, <1>8, <2>1 DEF Makes, Same, Steady
<1>10. IsHeap(h9) /\ Clean(h8, h9, {o}) /\ Frees(h8, h9, o, "digest_data")
  BY <1>8, <1>9, FreeStep DEF h9
<1>11. Steady(h8, h9, o) /\ Lives(h9, o, "our_response")
  BY <1>9, <1>10 DEF Frees, Steady
<1>12. Steady(h9, g, o)
  BY <1>11, SteadyFree DEF g, Steady
<1>13. Steady(h, h3, o)
  BY <1>1, <1>2, <1>3, SteadyThen
<1>14. Steady(h3, h6, o)
  BY <1>4, <1>5, <1>6, SteadyThen
<1>15. Steady(h6, g, o)
  BY <1>9, <1>11, <1>12, SteadyThen
<1>16. Steady(h, g, o)
  BY <1>13, <1>14, <1>15, SteadyThen
<1>17. SetUsernameAndPassword(h, o) = h3
  BY DEF SetUsernameAndPassword, AssignUsernameAndPassword, ResetUsernameAndPassword, h3, h2, h1
<1>18. Ha1Data(h3, o) = h4
  <2>1. Lives(h3, o, "realm")
    BY <1>f, <1>13 DEF Steady
  <2>2. Touch(h3, o, "realm") = h3 /\ Touch(h3, o, "password") = h3
    BY <1>3, <2>1, TouchGives
  <2> QED
    BY <2>2 DEF Ha1Data, h4
<1>19. ComputeDigestResponse(h3, o) = h9
  BY <1>18 DEF ComputeDigestResponse, Ha2Data, OurMd5Data, h9, h8, h7, h6, h5
<1>20. ReclaimDigestResponse(ComputeDigestResponse(SetUsernameAndPassword(h, o), o), o) = g
  BY <1>17, <1>19 DEF ReclaimDigestResponse, g
<1> QED
  BY <1>16, <1>20 DEF o

(* A new challenge. *)
LEMMA ChallengeGives ==
  ASSUME NEW h, NEW o, NEW realm, NEW nonce, IsHeap(h)
  PROVE  LET g == SetRealmAndRandomNonce(h, o, realm, nonce)
         IN  /\ IsHeap(g) /\ Clean(h, g, {o})
             /\ o \in g.listed <=> o \in h.listed
             /\ \A part \in {"self", "our_socket"} : Lives(g, o, part) <=> Lives(h, o, part)
             /\ Lives(g, o, "realm")
<1> DEFINE h1 == FreeIf(h, o, "realm")
           h2 == FreeIf(h1, o, "nonce")
           h3 == Set(h2, o, "realm", Null)
           h4 == Set(h3, o, "nonce", Null)
           h5 == Make(h4, o, {"realm", "nonce"})
           h6 == Set(h5, o, "realm", realm)
           g  == Set(h6, o, "nonce", nonce)
<1>1. SetRealmAndRandomNonce(h, o, realm, nonce) = g
  BY DEF SetRealmAndRandomNonce, AssignRealmAndNonce, ResetRealmAndNonce
<1> HIDE DEF h1, h2, h3, h4, h5, h6, g
<1>2. IsHeap(h1) /\ Clean(h, h1, {o}) /\ Frees(h, h1, o, "realm")
  BY FreeIfStep DEF h1
<1>3. IsHeap(h2) /\ Clean(h1, h2, {o}) /\ Frees(h1, h2, o, "nonce")
  BY <1>2, FreeIfStep DEF h2
<1>4. IsHeap(h3) /\ Clean(h2, h3, {o}) /\ Sets(h2, h3, o, "realm", Null)
  BY <1>3, SetStep DEF h3
<1>5. IsHeap(h4) /\ Clean(h3, h4, {o}) /\ Sets(h3, h4, o, "nonce", Null)
  BY <1>4, SetStep DEF h4
<1>6. IsHeap(h5) /\ Clean(h4, h5, {o}) /\ Makes(h4, h5, o, {"realm", "nonce"})
  BY <1>5, MakeStep DEF h5
<1>7. IsHeap(h6) /\ Clean(h5, h6, {o}) /\ Sets(h5, h6, o, "realm", realm)
  BY <1>6, SetStep DEF h6
<1>8. IsHeap(g) /\ Clean(h6, g, {o}) /\ Sets(h6, g, o, "nonce", nonce)
  BY <1>7, SetStep DEF g
<1>9. Clean(h, g, {o})
  BY <1>2, <1>3, <1>4, <1>5, <1>6, <1>7, <1>8, CleanThen
<1>10. /\ o \in g.listed <=> o \in h.listed
       /\ \A part \in {"self", "our_socket"} : Lives(g, o, part) <=> Lives(h, o, part)
       /\ Lives(g, o, "realm")
  BY <1>2, <1>3, <1>4, <1>5, <1>6, <1>7, <1>8 DEF Frees, Sets, Makes
<1> QED
  BY <1>1, <1>8, <1>9, <1>10

LEMMA AuthenticationGives ==
  ASSUME NEW h, NEW c \in Connections, NEW header, NEW digest, NEW nonce, IsHeap(h), ConnectionUp(h, Connection(c)),
         Lives(h, Connection(c), "our_socket")
  PROVE  LET o == Connection(c)
             r == AuthenticationOk(h, o, header, digest, nonce)
         IN  /\ IsHeap(r.heap) /\ Clean(h, r.heap, {o}) /\ ConnectionUp(r.heap, o)
             /\ r.ok => \A k : Ref(r.heap, o, k) = Ref(h, o, k)
             /\ r.ok /\ Ref(h, Server, "auth_db") # Null =>
                  /\ NamesChallenge(h, o, header) /\ LookupPassword(h, Field(header, "username"))
                  /\ r.response = Field(header, "response")
<1> DEFINE o == Connection(c)
           known == NamesChallenge(h, o, header) /\ LookupPassword(h, Field(header, "username"))
           made_ == ReclaimDigestResponse(ComputeDigestResponse(SetUsernameAndPassword(h, o), o), o)
           computed == IF known THEN made_ ELSE h
           success == known /\ digest = Field(header, "response")
           told == SetRealmAndRandomNonce(computed, o, Ref(h, Database, "realm"), nonce)
           r == AuthenticationOk(h, o, header, digest, nonce)
<1>1. r = IF Ref(h, Server, "auth_db") = Null THEN [ok |-> TRUE, response |-> Null, heap |-> h]
          ELSE IF success THEN [ok |-> TRUE, response |-> digest, heap |-> computed]
          ELSE [ok |-> FALSE, response |-> Null, heap |-> told]
  BY DEF AuthenticationOk
<1>2. known => Lives(h, o, "realm")
  BY DEF NamesChallenge, ConnectionUp
<1>3. known => Steady(h, made_, o)
  BY <1>2, DigestGives
<1>s. ConnectionUp(h, o) /\ Lives(h, o, "our_socket")
  OBVIOUS
<1>k. (success => known /\ digest = Field(header, "response")) /\ (known => NamesChallenge(h, o, header) /\ LookupPassword(h, Field(header, "username")))
  OBVIOUS
<1> HIDE DEF known, made_, success, r, o
<1>4. Steady(h, computed, o)
  <2>1. CASE known
    BY <1>3, <2>1
  <2>2. CASE ~known
    BY <2>2, CleanSelf DEF Steady
  <2> QED
    BY <2>1, <2>2
<1> HIDE DEF computed
<1>5. /\ IsHeap(told) /\ Clean(computed, told, {o})
      /\ o \in told.listed <=> o \in computed.listed
      /\ \A part \in {"self", "our_socket"} : Lives(told, o, part) <=> Lives(computed, o, part)
      /\ Lives(told, o, "realm")
  BY <1>4, ChallengeGives DEF Steady
<1> HIDE DEF told
<1>6. Lives(h, o, "self")
  BY <1>s DEF ConnectionUp
<1>7. Clean(h, computed, {o}) /\ ConnectionUp(computed, o) /\ IsHeap(computed) /\ \A k : Ref(computed, o, k) = Ref(h, o, k)
  BY <1>4, <1>6, <1>s DEF Steady, ConnectionUp
<1>8. Clean(h, told, {o})
  BY <1>5, <1>7, CleanThen
<1>9. ConnectionUp(told, o)
  BY <1>4, <1>5, <1>6, <1>s DEF Steady, ConnectionUp
<1>10. CASE Ref(h, Server, "auth_db") = Null
  <2>1. r.heap = h
    BY <1>1, <1>10
  <2> QED
    BY <1>10, <1>s, <2>1, CleanSelf DEF r, o
<1>11. CASE Ref(h, Server, "auth_db") # Null /\ success
  <2>1. r.heap = computed /\ r.response = digest
    BY <1>1, <1>11
  <2>2. known /\ digest = Field(header, "response")
    BY <1>11, <1>k
  <2> QED
    BY <1>7, <1>11, <1>k, <2>1, <2>2 DEF r, o
<1>12. CASE Ref(h, Server, "auth_db") # Null /\ ~success
  <2>1. r.heap = told /\ r.ok = FALSE
    BY <1>1, <1>12
  <2> QED
    BY <1>5, <1>8, <1>9, <2>1 DEF r, o
<1> QED
  BY <1>10, <1>11, <1>12

LEMMA IncomingGives ==
  ASSUME NEW h, NEW o, NEW g \in IncomingConnection(h, o), IsHeap(h), ServerUp(h), o \notin {Server, Tables},
         ConnectionUp(h, o), ~Lives(h, o, "self")
  PROVE  /\ IsHeap(g) /\ Clean(h, g, {o}) /\ ConnectionUp(g, o)
         /\ \A k : k \in {"realm", "nonce"} => Ref(g, o, k) = Ref(h, o, k)
<1> DEFINE lost == Make(h, o, {"lost_socket"})
           h1 == Make(h, o, {"our_socket"})
           h2 == Make(h1, o, {"self"})
           h3 == Set(h2, o, "realm", Null)
           h4 == Set(h3, o, "nonce", Null)
<1>1. g \in {lost, NewRtspClientConnection(h1, o)}
  BY DEF IncomingConnection
<1> HIDE DEF lost, h1, h2, h3, h4
<1>2. CASE g = lost
  <2>1. IsHeap(g) /\ Clean(h, g, {o}) /\ Makes(h, g, o, {"lost_socket"})
    BY <1>2, MakeStep DEF lost
  <2> QED
    BY <2>1 DEF Makes, ConnectionUp
<1>3. CASE g = NewRtspClientConnection(h1, o)
  <2>1. IsHeap(h1) /\ Clean(h, h1, {o}) /\ Makes(h, h1, o, {"our_socket"})
    BY MakeStep DEF h1
  <2>2. IsHeap(h2) /\ Clean(h1, h2, {o}) /\ Makes(h1, h2, o, {"self"})
    BY <2>1, MakeStep DEF h2
  <2>3. IsHeap(h3) /\ Clean(h2, h3, {o}) /\ Sets(h2, h3, o, "realm", Null)
    BY <2>2, SetStep DEF h3
  <2>4. IsHeap(h4) /\ Clean(h3, h4, {o}) /\ Sets(h3, h4, o, "nonce", Null)
    BY <2>3, SetStep DEF h4
  <2>5. Clean(h, h4, {o}) /\ Clean(h, h2, {o})
    BY <2>1, <2>2, <2>3, <2>4, CleanThen
  <2>6. Touch(h2, Server, "client_connections") = h2
    <3>1. Same(h, h2, Server)
      BY <2>5 DEF Clean
    <3> QED
      BY <3>1, TouchGives DEF Same, ServerUp
  <2>7. g = h4
    BY <1>3, <2>6 DEF NewRtspClientConnection, RtspClientConnectionInit, ClientConnectionInit, New, h4, h3, h2
  <2>8. Ref(h, o, "realm") = Null /\ Ref(h, o, "nonce") = Null /\ o \notin h.listed
    BY DEF ConnectionUp
  <2>9. Ref(g, o, "realm") = Null /\ Ref(g, o, "nonce") = Null /\ o \notin g.listed /\ Lives(g, o, "self")
    BY <2>1, <2>2, <2>3, <2>4, <2>7, <2>8 DEF Makes, Sets
  <2> QED
    BY <2>4, <2>5, <2>7, <2>8, <2>9 DEF ConnectionUp
<1> QED
  BY <1>1, <1>2, <1>3

LEMMA CloseSocketsGives ==
  ASSUME NEW h, NEW o, IsHeap(h), ConnectionUp(h, o), Lives(h, o, "our_socket")
  PROVE  LET g == CloseSockets(h, o)
         IN  /\ IsHeap(g) /\ Clean(h, g, {o}) /\ ConnectionUp(g, o)
             /\ \A k : Ref(g, o, k) = Ref(h, o, k)
<1> DEFINE g == CloseSockets(h, o)
<1>1. IsHeap(g) /\ Clean(h, g, {o}) /\ Frees(h, g, o, "our_socket")
  BY FreeStep DEF CloseSockets
<1> HIDE DEF g
<1>2. ConnectionUp(g, o) /\ \A k : Ref(g, o, k) = Ref(h, o, k)
  BY <1>1 DEF Frees, ConnectionUp
<1> QED
  BY <1>1, <1>2 DEF g

------------------------------------------------------------------------------
(* The database of users. *)

LEMMA UserNames ==
  /\ \A user : Password(user) # Database
  /\ \A user, other : Password(user) = Password(other) => user = other
  /\ \A user : Password(user) \in Objects => user \in Users
<1>1. \A user : Password(user) # Database /\ Password(user)[1] = "password"
  BY DEF Password, Database
<1>2. \A user, other : Password(user) = Password(other) => user = other
  BY DEF Password
<1>3. ASSUME NEW user, Password(user) \in Objects PROVE user \in Users
  <2>1. Password(user) \in UserObjects
    BY <1>1, <1>3, Bearers DEF Objects
  <2> QED
    BY <1>1, <1>2, <2>1 DEF UserObjects
<1> QED
  BY <1>1, <1>2, <1>3

LEMMA NewDatabaseGives ==
  ASSUME NEW h, NEW realm, IsHeap(h), DatabasePart(h)
  PROVE  LET g == NewUserAuthenticationDatabase(h, realm)
         IN  IsHeap(g) /\ Clean(h, g, UserObjects) /\ DatabasePart(g)
<1> DEFINE made_ == Make(h, Database, DatabaseParts)
           g == Set(made_, Database, "realm", realm)
<1>1. NewUserAuthenticationDatabase(h, realm) = g
  BY DEF NewUserAuthenticationDatabase, DatabaseParts
<1> HIDE DEF made_, g
<1>2. IsHeap(made_) /\ Clean(h, made_, {Database}) /\ Makes(h, made_, Database, DatabaseParts)
  BY MakeStep DEF made_
<1>3. IsHeap(g) /\ Clean(made_, g, {Database}) /\ Sets(made_, g, Database, "realm", realm)
  BY <1>2, SetStep DEF g
<1>4. Clean(h, g, {Database})
  BY <1>2, <1>3, CleanThen
<1>5. Clean(h, g, UserObjects)
  BY <1>4, CleanMore DEF UserObjects
<1>6. \A part \in DatabaseParts : Lives(g, Database, part)
  BY <1>2, <1>3 DEF Makes, Sets
<1>7. Gone(g, Database, DatabaseParts)
  BY <1>2, <1>3 DEF Makes, Sets, DatabasePart, Gone, Within
<1>8. Lives(g, Database, "self")
  BY <1>6 DEF DatabaseParts
<1>9. ASSUME NEW user \in Users PROVE Gone(g, Password(user), {"self"})
  <2>1. Gone(h, Password(user), {}) \/ Gone(h, Password(user), {"self"})
    BY DEF DatabasePart
  <2>2. Gone(h, Password(user), {"self"})
    BY <2>1 DEF Gone, Within
  <2> QED
    BY <1>4, <2>2, UserNames, GoneStays
<1> QED
  BY <1>1, <1>3, <1>5, <1>6, <1>7, <1>8, <1>9 DEF DatabasePart

(* A record of a user is a block of its own. *)
LEMMA UserRecordStays ==
  ASSUME NEW h, NEW g, NEW user \in Users, IsHeap(g), Clean(h, g, {Password(user)}), DatabasePart(h),
         Lives(h, Database, "self"), Gone(g, Password(user), {"self"})
  PROVE  Clean(h, g, UserObjects) /\ DatabasePart(g)
<1>1. Clean(h, g, UserObjects)
  BY CleanMore DEF UserObjects
<1>2. Same(h, g, Database)
  BY UserNames DEF Clean
<1>3. Gone(g, Database, DatabaseParts) /\ Lives(g, Database, "self")
  BY <1>2, SameShapes DEF DatabasePart, Same
<1>4. \A part \in DatabaseParts : Lives(g, Database, part)
  BY <1>2 DEF DatabasePart, Same
<1>5. ASSUME NEW other \in Users PROVE Gone(g, Password(other), {"self"})
  <2>1. CASE other = user
    BY <2>1
  <2>2. CASE other # user
    <3>1. Password(other) \notin {Password(user)} /\ Gone(h, Password(other), {"self"})
      BY <2>2, UserNames DEF DatabasePart
    <3> QED
      BY <3>1, GoneStays
  <2> QED
    BY <2>1, <2>2
<1> QED
  BY <1>1, <1>3, <1>4, <1>5 DEF DatabasePart

LEMMA AddUserGives ==
  ASSUME NEW h, NEW user \in Users, IsHeap(h), DatabasePart(h), Lives(h, Database, "self")
  PROVE  LET g == AddUserRecord(h, user)
         IN  Clean(h, g, UserObjects) /\ DatabasePart(g)
<1> DEFINE o == Password(user)
           freed == FreeIf(h, o, "self")
           g == Make(freed, o, {"self"})
<1>1. AddUserRecord(h, user) = g
  BY DEF AddUserRecord
<1>2. Gone(h, o, {"self"})
  BY DEF DatabasePart
<1> HIDE DEF o, freed, g
<1>3. IsHeap(freed) /\ Clean(h, freed, {o}) /\ Frees(h, freed, o, "self")
  BY FreeIfStep DEF freed
<1>4. IsHeap(g) /\ Clean(freed, g, {o}) /\ Makes(freed, g, o, {"self"})
  BY <1>3, MakeStep DEF g
<1>5. Clean(h, g, {o})
  BY <1>3, <1>4, CleanThen
<1>6. Gone(g, o, {"self"})
  BY <1>2, <1>3, <1>4 DEF Frees, Makes, Gone, Within
<1> QED
  BY <1>1, <1>4, <1>5, <1>6, UserRecordStays DEF o

LEMMA RemoveUserGives ==
  ASSUME NEW h, NEW user \in Users, IsHeap(h), DatabasePart(h), Lives(h, Database, "self")
  PROVE  LET g == RemoveUserRecord(h, user)
         IN  Clean(h, g, UserObjects) /\ DatabasePart(g)
<1> DEFINE o == Password(user)
           g == FreeIf(h, o, "self")
<1>1. RemoveUserRecord(h, user) = g
  BY DEF RemoveUserRecord
<1>2. Gone(h, o, {"self"})
  BY DEF DatabasePart
<1> HIDE DEF o, g
<1>3. IsHeap(g) /\ Clean(h, g, {o}) /\ Frees(h, g, o, "self")
  BY FreeIfStep DEF g
<1>4. Gone(g, o, {"self"})
  BY <1>2, <1>3 DEF Frees, Gone, Within
<1> QED
  BY <1>1, <1>3, <1>4, UserRecordStays DEF o

LEMMA RemoveNextGives ==
  ASSUME NEW h, NEW users \in SUBSET Users, IsHeap(h)
  PROVE  LET g == RemoveNext(h, users)
         IN  /\ IsHeap(g) /\ Clean(h, g, UserObjects) /\ Same(h, g, Database)
             /\ \A user : /\ Password(user) \in g.listed <=> Password(user) \in h.listed
                          /\ \A part : Lives(g, Password(user), part) <=>
                                         Lives(h, Password(user), part) /\ ~(user \in users /\ part = "self")
<1> DEFINE blocks == {<<Password(user), "self">> : user \in users}
           g == RemoveNext(h, users)
<1>1. g = [live |-> h.live \ blocks, listed |-> h.listed, ref |-> h.ref, faults |-> h.faults]
  BY SMTT(30) DEF IsHeap, RemoveNext
<1>2. IsHeap(g) /\ g.listed = h.listed /\ g.faults = h.faults /\ g.ref = h.ref /\ g.live = h.live \ blocks
  BY <1>1 DEF IsHeap
<1>3. \A p, q : <<p, q>> \in blocks <=> q = "self" /\ \E user \in users : p = Password(user)
  OBVIOUS
<1> HIDE DEF g, blocks
<1>4. \A p, k : Ref(g, p, k) = Ref(h, p, k)
  BY <1>2 DEF Ref
<1>5. \A p, q : Lives(g, p, q) <=> Lives(h, p, q) /\ ~(q = "self" /\ \E user \in users : p = Password(user))
  BY <1>2, <1>3 DEF Lives
<1>6. ASSUME NEW p, \A user \in users : p # Password(user) PROVE Same(h, g, p)
  BY <1>2, <1>4, <1>5, <1>6 DEF Same
<1>7. Clean(h, g, UserObjects)
  <2>1. \A p : p \notin UserObjects => \A user \in users : p # Password(user)
    BY DEF UserObjects
  <2>2. \A p : p \notin UserObjects => Same(h, g, p)
    BY <2>1, <1>6
  <2> QED
    BY <2>2, <1>2 DEF Clean
<1>8. Same(h, g, Database)
  BY <1>6, UserNames
<1>9. ASSUME NEW user, NEW part
      PROVE  Lives(g, Password(user), part) <=> Lives(h, Password(user), part) /\ ~(user \in users /\ part = "self")
  <2>1. (\E other \in users : Password(user) = Password(other)) <=> user \in users
    BY UserNames
  <2> QED
    BY <2>1, <1>5
<1> QED
  BY <1>2, <1>7, <1>8, <1>9 DEF g

(* The database goes with the records of its users. *)
LEMMA DeleteDatabaseGives ==
  ASSUME NEW h, NEW users \in SUBSET Users, IsHeap(h), DatabasePart(h), Lives(h, Database, "self"),
         \A user \in Users : LookupPassword(h, user) => user \in users
  PROVE  LET g == DeleteUserAuthenticationDatabase(h, users)
         IN  Clean(h, g, UserObjects) /\ DatabasePart(g)
<1> DEFINE h1 == Free(h, Database, "realm")
           h2 == RemoveNext(h1, users)
           h3 == Free(h2, Database, "table")
           g  == Free(h3, Database, "self")
<1>1. DeleteUserAuthenticationDatabase(h, users) = g
  BY DEF DeleteUserAuthenticationDatabase
<1>2. Lives(h, Database, "realm") /\ Lives(h, Database, "table") /\ Gone(h, Database, DatabaseParts)
  BY DEF DatabasePart, DatabaseParts
<1>3. \A user \in Users : Gone(h, Password(user), {"self"})
  BY DEF DatabasePart
<1> HIDE DEF h1, h2, h3, g
<1>4. IsHeap(h1) /\ Clean(h, h1, {Database}) /\ Frees(h, h1, Database, "realm")
  BY <1>2, FreeStep DEF h1
<1>5. /\ IsHeap(h2) /\ Clean(h1, h2, UserObjects) /\ Same(h1, h2, Database)
      /\ \A user : /\ Password(user) \in h2.listed <=> Password(user) \in h1.listed
                   /\ \A part : Lives(h2, Password(user), part) <=>
                                  Lives(h1, Password(user), part) /\ ~(user \in users /\ part = "self")
  BY <1>4, RemoveNextGives DEF h2
<1>6. Lives(h2, Database, "table") /\ Lives(h2, Database, "self")
  BY <1>2, <1>4, <1>5 DEF Frees, Same
<1>7. IsHeap(h3) /\ Clean(h2, h3, {Database}) /\ Frees(h2, h3, Database, "table")
  BY <1>5, <1>6, FreeStep DEF h3
<1>8. Lives(h3, Database, "self")
  BY <1>6, <1>7 DEF Frees
<1>9. IsHeap(g) /\ Clean(h3, g, {Database}) /\ Frees(h3, g, Database, "self")
  BY <1>7, <1>8, FreeStep DEF g
<1>10. Clean(h, g, UserObjects)
  <2>1. Clean(h, h1, UserObjects) /\ Clean(h2, h3, UserObjects) /\ Clean(h3, g, UserObjects)
    BY <1>4, <1>7, <1>9, CleanMore DEF UserObjects
  <2> QED
    BY <2>1, <1>5, CleanThen
<1>11. Gone(g, Database, {}) /\ ~Lives(g, Database, "self")
  BY <1>2, <1>4, <1>5, <1>7, <1>9 DEF Frees, Same, Gone, Within, DatabaseParts
<1>12. ASSUME NEW user \in Users PROVE Gone(g, Password(user), {})
  <2>1. Clean(h2, g, {Database})
    BY <1>7, <1>9, CleanThen
  <2>2. Same(h, h1, Password(user)) /\ Same(h2, g, Password(user))
    BY <1>4, <2>1, UserNames DEF Clean
  <2>3. Lives(h, Password(user), "self") => user \in users
    BY DEF LookupPassword
  <2> QED
    BY <1>3, <1>5, <2>2, <2>3 DEF Same, Gone, Within
<1>13. Gone(g, Database, DatabaseParts)
  BY <1>11 DEF Gone, Within
<1> QED
  BY <1>1, <1>10, <1>11, <1>12, <1>13 DEF DatabasePart

------------------------------------------------------------------------------
(* The server comes to be, or nothing does. *)

Bare(h) ==
  /\ IsHeap(h) /\ h.listed = {} /\ h.faults = {} /\ (\A p, k : Ref(h, p, k) = Null)
  /\ (\A b \in h.live : b[1] = Server) /\ ~Lives(h, Server, "self")

LEMMA BareMake ==
  ASSUME NEW h, NEW part, Bare(h), part # "self"
  PROVE  Bare(Make(h, Server, {part})) /\ Bare(FreeIf(h, Server, part))
<1> DEFINE parts == {part}
<1>1. "self" \notin parts
  OBVIOUS
<1>2. Bare(Make(h, Server, parts))
  <2> DEFINE g == Make(h, Server, parts)
  <2> HIDE DEF parts
  <2>1. /\ IsHeap(g) /\ g.listed = h.listed /\ g.faults = h.faults
        /\ \A p, q : Lives(g, p, q) <=> Lives(h, p, q) \/ (p = Server /\ q \in parts)
        /\ \A p, k : Ref(g, p, k) = Ref(h, p, k)
    BY MakeGives DEF Bare
  <2> HIDE DEF g
  <2>2. \A b \in g.live : b[1] = Server
    BY <2>1 DEF Bare, IsHeap, Lives
  <2> QED
    BY <1>1, <2>1, <2>2 DEF Bare, g
<1>3. Bare(FreeIf(h, Server, part))
  <2> DEFINE g == FreeIf(h, Server, part)
  <2>1. /\ IsHeap(g) /\ g.listed = h.listed /\ g.faults = h.faults
        /\ \A p, q : Lives(g, p, q) <=> Lives(h, p, q) /\ ~(p = Server /\ q = part)
        /\ \A p, k : Ref(g, p, k) = Ref(h, p, k)
    BY FreeIfGives DEF Bare
  <2> HIDE DEF g
  <2>2. \A b \in g.live : b[1] = Server
    BY <2>1 DEF Bare, IsHeap, Lives
  <2> QED
    BY <2>1, <2>2 DEF Bare, g
<1> QED
  BY <1>2, <1>3 DEF parts

LEMMA BareEmpty == Bare(EmptyHeap)
<1>1. IsHeap(EmptyHeap) /\ EmptyHeap.listed = {} /\ EmptyHeap.faults = {} /\ EmptyHeap.live = {} /\ EmptyHeap.ref = << >>
  BY DEF IsHeap, EmptyHeap
<1>2. \A p, k : Ref(EmptyHeap, p, k) = Null
  BY <1>1 DEF Ref
<1> QED
  BY <1>1, <1>2 DEF Bare, Lives

LEMMA BareDown ==
  ASSUME NEW h, Bare(h)
  PROVE  Down(h, {}, FALSE)
BY DEF Bare, Down

LEMMA TablesMade ==
  ASSUME NEW h, Bare(h)
  PROVE  LET g == OurMedia(New(h, Server))
         IN  /\ IsHeap(g) /\ Clean(h, g, {Server, Tables}) /\ TablesUp(g) /\ Tables \notin g.listed
             /\ Lives(g, Server, "self") /\ Server \notin g.listed
<1> DEFINE h1 == Make(h, Server, {"self"})
           h2 == Make(h1, Tables, {"self"})
           g  == Make(h2, Tables, {"media_table", "media_table.table"})
<1>0. Tables # Server /\ IsHeap(h) /\ h.listed = {} /\ \A part : ~Lives(h, Tables, part)
  BY DEF Tables, Server, Bare, Lives
<1> HIDE DEF h1, h2, g
<1>1. IsHeap(h1) /\ Clean(h, h1, {Server}) /\ Makes(h, h1, Server, {"self"})
  BY <1>0, MakeStep DEF h1
<1>2. Same(h, h1, Tables)
  BY <1>0, <1>1 DEF Clean
<1>3. IsHeap(h2) /\ Clean(h1, h2, {Tables}) /\ Makes(h1, h2, Tables, {"self"})
  BY <1>1, MakeStep DEF h2
<1>4. IsHeap(g) /\ Clean(h2, g, {Tables}) /\ Makes(h2, g, Tables, {"media_table", "media_table.table"})
  BY <1>3, MakeStep DEF g
<1>5. ~Lives(h1, Tables, "media_table") /\ ~Lives(h1, Tables, "self")
  BY <1>0, <1>2 DEF Same
<1>6. OurMedia(New(h, Server)) = g
  BY <1>5 DEF OurMedia, NewMediaLookupTable, GetOurTables, NewTables, New, g, h2, h1
<1>7. Clean(h, g, {Server, Tables})
  <2>1. Clean(h, h1, {Server, Tables}) /\ Clean(h1, h2, {Server, Tables}) /\ Clean(h2, g, {Server, Tables})
    BY <1>1, <1>3, <1>4, CleanMore
  <2> QED
    BY <2>1, CleanThen
<1>8. TablesUp(g) /\ Tables \notin g.listed
  BY <1>0, <1>2, <1>3, <1>4 DEF TablesUp, Makes, Same
<1>9. Clean(h1, g, {Tables})
  BY <1>3, <1>4, CleanThen
<1>10. Lives(g, Server, "self") /\ Server \notin g.listed
  BY <1>0, <1>1, <1>9 DEF Clean, Same, Makes
<1> QED
  BY <1>4, <1>6, <1>7, <1>8, <1>10

LEMMA NewServerGives ==
  ASSUME NEW h, Bare(h)
  PROVE  LET g == NewRtspServer(h)
         IN  /\ IsHeap(g) /\ Clean(h, g, {Server, Tables}) /\ ServerUp(g)
             /\ LookupServerMediaSession(g) = Null /\ ClientSessions(g) = {}
<1> DEFINE h1 == OurMedia(New(h, Server))
           h2 == Make(h1, Server, {"next_task"})
           h3 == [h2 EXCEPT !.listed = @ \cup {Server}]
           h4 == Set(h3, Server, "delete", "medium")
           h5 == Make(h4, Server, {"server_media_sessions", "client_connections", "client_sessions"})
           h6 == Set(h5, Server, "server_media_sessions", Null)
           h7 == Set(h6, Server, "client_sessions", {})
           h8 == Set(h7, Server, "delete", "generic_media_server")
           h9 == Make(h8, Server, {"tcp_streaming_database", "pending_requests"})
           h10 == Set(h9, Server, "auth_db", Null)
           g  == Set(h10, Server, "delete", "rtsp_server")
<1>0. NewRtspServer(h) = g
  BY DEF NewRtspServer, RtspServerInit, GenericMediaServerInit, MediumInit
<1> HIDE DEF h1, h2, h3, h4, h5, h6, h7, h8, h9, h10, g
<1>1. /\ IsHeap(h1) /\ Clean(h, h1, {Server, Tables}) /\ TablesUp(h1) /\ Tables \notin h1.listed
      /\ Lives(h1, Server, "self") /\ Server \notin h1.listed
  BY TablesMade DEF h1
<1>2. IsHeap(h2) /\ Clean(h1, h2, {Server}) /\ Makes(h1, h2, Server, {"next_task"})
  BY <1>1, MakeStep DEF h2
<1>3. IsHeap(h3) /\ Clean(h2, h3, {Server}) /\ Enlists(h2, h3, Server)
  BY <1>2, EnlistStep DEF h3
<1>4. IsHeap(h4) /\ Clean(h3, h4, {Server}) /\ Sets(h3, h4, Server, "delete", "medium")
  BY <1>3, SetStep DEF h4
<1>5. IsHeap(h5) /\ Clean(h4, h5, {Server})
      /\ Makes(h4, h5, Server, {"server_media_sessions", "client_connections", "client_sessions"})
  BY <1>4, MakeStep DEF h5
<1>6. IsHeap(h6) /\ Clean(h5, h6, {Server}) /\ Sets(h5, h6, Server, "server_media_sessions", Null)
  BY <1>5, SetStep DEF h6
<1>7. IsHeap(h7) /\ Clean(h6, h7, {Server}) /\ Sets(h6, h7, Server, "client_sessions", {})
  BY <1>6, SetStep DEF h7
<1>8. IsHeap(h8) /\ Clean(h7, h8, {Server}) /\ Sets(h7, h8, Server, "delete", "generic_media_server")
  BY <1>7, SetStep DEF h8
<1>9. IsHeap(h9) /\ Clean(h8, h9, {Server}) /\ Makes(h8, h9, Server, {"tcp_streaming_database", "pending_requests"})
  BY <1>8, MakeStep DEF h9
<1>10. IsHeap(h10) /\ Clean(h9, h10, {Server}) /\ Sets(h9, h10, Server, "auth_db", Null)
  BY <1>9, SetStep DEF h10
<1>11. IsHeap(g) /\ Clean(h10, g, {Server}) /\ Sets(h10, g, Server, "delete", "rtsp_server")
  BY <1>10, SetStep DEF g
<1>12. Clean(h1, g, {Server})
  BY <1>2, <1>3, <1>4, <1>5, <1>6, <1>7, <1>8, <1>9, <1>10, <1>11, CleanThen
<1>13. Same(h1, g, Tables)
  BY <1>12 DEF Clean, Tables, Server
<1>14. TablesUp(g) /\ Tables \notin g.listed
  BY <1>1, <1>13 DEF Same, TablesUp
<1>15. Clean(h, g, {Server, Tables})
  <2>1. Clean(h1, g, {Server, Tables})
    BY <1>12, CleanMore
  <2> QED
    BY <1>1, <2>1, CleanThen
<1>16. Server \in h5.listed /\ Lives(h5, Server, "self") /\ Lives(h5, Server, "client_connections")
  BY <1>1, <1>2, <1>3, <1>4, <1>5 DEF Makes, Enlists, Sets
<1>17. /\ Server \in g.listed /\ Lives(g, Server, "self") /\ Lives(g, Server, "client_connections")
       /\ Ref(g, Server, "delete") = "rtsp_server" /\ Ref(g, Server, "server_media_sessions") = Null
       /\ Ref(g, Server, "client_sessions") = {}
  BY <1>16, <1>6, <1>7, <1>8, <1>9, <1>10, <1>11 DEF Makes, Sets
<1> QED
  BY <1>0, <1>11, <1>14, <1>15, <1>17 DEF ServerUp, LookupServerMediaSession, ClientSessions

LEMMA NewServerIsUp ==
  ASSUME NEW h, Bare(h)
  PROVE  Up(NewRtspServer(h), {}, FALSE)
<1> DEFINE g == NewRtspServer(h)
<1>1. /\ IsHeap(g) /\ Clean(h, g, {Server, Tables}) /\ ServerUp(g)
      /\ LookupServerMediaSession(g) = Null /\ ClientSessions(g) = {}
  BY NewServerGives
<1> HIDE DEF g
<1>2. ASSUME NEW p, NEW rest, p \notin {Server, Tables} PROVE Gone(g, p, rest) /\ \A k : Ref(g, p, k) = Null
  <2>1. Same(h, g, p) /\ (\A part : ~Lives(h, p, part)) /\ p \notin h.listed /\ \A k : Ref(h, p, k) = Null
    BY <1>1, <1>2 DEF Clean, Bare, Lives
  <2> QED
    BY <2>1 DEF Same, Gone, Within
<1>3. \A p \in Dummies \cup StreamObjects \cup SessionObjects \cup ClientObjects \cup ConnectionObjects \cup UserObjects :
        p \notin {Server, Tables}
  BY Apart
<1>4. DummiesGone(g)
  BY <1>2, <1>3 DEF DummiesGone, SourceGone, Dummies, SourceObjects
<1>5. StreamPart(g, {}, FALSE)
  BY <1>2, <1>3 DEF StreamPart, StreamObjects, SourceObjects, SourceGone, SinkGone
<1>6. ClientPart(g)
  <2>1. IsFiniteSet({})
    BY FS_EmptySet
  <2>2. \A o \in ClientObjects : Gone(g, o, ClientRest)
    BY <1>2, <1>3
  <2> QED
    BY <1>1, <2>1, <2>2 DEF ClientPart
<1>7. SessionPart(g, {})
  <2>1. Tied(g) = {} /\ Session # Null
    BY <1>1, TrackNames DEF Tied
  <2>2. SessionGone(g)
    BY <1>2, <1>3 DEF SessionGone, SessionObjects, Tracked
  <2> QED
    BY <1>1, <2>1, <2>2 DEF SessionPart, SessionWith
<1>8. ConnectionPart(g)
  <2>1. ASSUME NEW o \in ConnectionObjects PROVE ConnectionUp(g, o)
    <3>1. Gone(g, o, {}) /\ \A k : Ref(g, o, k) = Null
      BY <1>2, <1>3
    <3> QED
      BY <3>1 DEF Gone, Within, ConnectionUp
  <2> QED
    BY <2>1 DEF ConnectionPart
<1>9. DatabasePart(g)
  <2>1. \A rest : Gone(g, Database, rest) /\ \A user \in Users : Gone(g, Password(user), rest)
    BY <1>2, <1>3 DEF UserObjects
  <2>2. Gone(g, Database, {})
    BY <2>1
  <2>3. ~Lives(g, Database, "self")
    BY <2>2 DEF Gone, Within
  <2> QED
    BY <2>1, <2>3 DEF DatabasePart
<1>10. NoOther(g)
  <2>1. {Server, Tables} \subseteq Objects
    BY DEF Objects
  <2> QED
    BY <1>2, <2>1 DEF NoOther
<1> QED
  BY <1>1, <1>4, <1>5, <1>6, <1>7, <1>8, <1>9, <1>10 DEF Up, g

LEMMA CreateServerGives ==
  ASSUME NEW g \in CreateNewServer(EmptyHeap)
  PROVE  Up(g, {}, FALSE) \/ Down(g, {}, FALSE)
<1>1. \A h \in SetupStreamSocket(EmptyHeap) : Bare(h)
  BY BareEmpty, BareMake DEF SetupStreamSocket
<1>2. \A h \in SetUpOurSocket(EmptyHeap) : Bare(h)
  <2>1. ASSUME NEW h \in SetupStreamSocket(EmptyHeap), Lives(h, Server, "server_socket")
        PROVE  Bare(Free(h, Server, "server_socket"))
    BY <1>1, <2>1, BareMake, FreeGives
  <2>2. ASSUME NEW h \in SetUpOurSocket(EmptyHeap)
        PROVE  \E k \in SetupStreamSocket(EmptyHeap) :
                 h = k \/ (Lives(k, Server, "server_socket") /\ h = Free(k, Server, "server_socket"))
    BY DEF SetUpOurSocket
  <2> QED
    BY <1>1, <2>1, <2>2
<1>3. PICK h \in SetUpOurSocket(EmptyHeap) : g \in {h, NewRtspServer(h)}
  BY DEF CreateNewServer
<1> QED
  BY <1>2, <1>3, NewServerIsUp, BareDown

------------------------------------------------------------------------------
(* The session of the program. *)

LEMMA CreateSessionGives ==
  ASSUME NEW h, NEW reads, Up(h, {}, reads), ~Lives(h, Session, "self")
  PROVE  LET g == NewSubsessions(NewServerMediaSession(h, Session))
         IN  Up(g, {Session}, reads) /\ Clean(h, g, SessionObjects)
<1> DEFINE g == NewSubsessions(NewServerMediaSession(h, Session))
<1>1. ~SessionUp(h)
  BY DEF SessionUp, SessionParts
<1>2. SessionGone(h) /\ LookupServerMediaSession(h) = Null /\ Tied(h) = {}
  BY <1>1 DEF Up, SessionPart, SessionWith
<1>3. /\ IsHeap(g) /\ Clean(h, g, SessionObjects) /\ SessionUp(g)
      /\ Ref(g, Session, "reference_count") = 0 /\ Ref(g, Session, "delete_when_unreferenced") = FALSE
  BY <1>2, MakeSession DEF Up, ServerUp
<1> HIDE DEF g
<1>4. Clean(h, g, Dummies \cup SessionObjects)
  BY <1>3, CleanMore
<1>5. DummiesGone(g)
  <2>1. SessionObjects \cap Dummies = {}
    BY Apart
  <2>2. Alike(h, g, Dummies)
    BY <1>3, <2>1, CleanAlike
  <2> QED
    BY <2>2, DummiesStay DEF Up
<1>6. LookupServerMediaSession(g) = Null
  <2>1. Same(h, g, Server)
    BY <1>3, Apart DEF Clean
  <2> QED
    BY <1>2, <2>1 DEF Same, LookupServerMediaSession
<1>7. Tied(g) = Tied(h) => SessionPart(g, {Session})
  BY <1>2, <1>3, <1>6, FS_EmptySet DEF SessionPart, SessionWith
<1>8. \A o \in StreamObjects : o \in {} <=> o \in {Session}
  BY Apart DEF SessionObjects
<1>9. Up(g, {Session}, reads)
  <2> DEFINE has == {}
             has2 == {Session}
  <2>1. Up(h, has, reads) /\ (\A o \in StreamObjects : o \in has <=> o \in has2) /\ (Tied(g) = Tied(h) => SessionPart(g, has2))
    BY <1>7, <1>8
  <2> HIDE DEF has, has2
  <2>2. Up(g, has2, reads)
    BY <1>4, <1>5, <2>1, UpSession
  <2> QED
    BY <2>2 DEF has2
<1> QED
  BY <1>3, <1>9 DEF g

LEMMA HeldSession ==
  ASSUME NEW h, NEW has, NEW reads, Up(h, has, reads), Session \in has
  PROVE  /\ SessionUp(h) /\ Tied(h) = {} /\ LookupServerMediaSession(h) = Null
         /\ Ref(h, Session, "reference_count") = Cardinality(Tied(h))
         /\ Ref(h, Session, "delete_when_unreferenced") = FALSE
         /\ \A o \in StreamObjects : o \in has <=> o \in has \ {Session}
<1>1. \A o \in StreamObjects : o # Session
  BY Apart DEF SessionObjects
<1> QED
  BY <1>1 DEF Up, SessionPart, SessionWith

LEMMA CloseHeldSessionGives ==
  ASSUME NEW h, NEW has, NEW reads, Up(h, has, reads), Session \in has
  PROVE  LET g == CloseMedium(h, Session)
         IN  Up(g, has \ {Session}, reads) /\ Clean(h, g, SessionObjects)
<1> DEFINE g == CloseMedium(h, Session)
           has2 == has \ {Session}
<1>1. /\ SessionUp(h) /\ Tied(h) = {} /\ LookupServerMediaSession(h) = Null
      /\ \A o \in StreamObjects : o \in has <=> o \in has2
  BY HeldSession
<1>2. IsHeap(g) /\ Clean(h, g, SessionObjects) /\ SessionGone(g)
  BY <1>1, CloseSessionGives, OnlyTracksListed DEF Up, ServerUp
<1> HIDE DEF g
<1>3. Clean(h, g, Dummies \cup SessionObjects)
  BY <1>2, CleanMore
<1>4. DummiesGone(g)
  <2>1. SessionObjects \cap Dummies = {}
    BY Apart
  <2>2. Alike(h, g, Dummies)
    BY <1>2, <2>1, CleanAlike
  <2> QED
    BY <2>2, DummiesStay DEF Up
<1>5. LookupServerMediaSession(g) = Null
  <2>1. Same(h, g, Server)
    BY <1>2, Apart DEF Clean
  <2> QED
    BY <1>1, <2>1 DEF Same, LookupServerMediaSession
<1>6. Tied(g) = Tied(h) => SessionPart(g, has2)
  BY <1>1, <1>2, <1>5, TrackNames DEF SessionPart, SessionWith
<1> HIDE DEF has2
<1>7. Up(g, has2, reads)
  BY <1>1, <1>3, <1>4, <1>6, UpSession
<1> QED
  BY <1>2, <1>7 DEF g, has2

LEMMA AddSessionGives ==
  ASSUME NEW h, NEW has, NEW reads, Up(h, has, reads), Session \in has
  PROVE  LET g == AddServerMediaSession(h, Session)
         IN  Up(g, has \ {Session}, reads) /\ Clean(h, g, {Server})
<1> DEFINE g == Set(h, Server, "server_media_sessions", Session)
           has2 == has \ {Session}
<1>1. /\ SessionUp(h) /\ Tied(h) = {} /\ LookupServerMediaSession(h) = Null
      /\ Ref(h, Session, "reference_count") = Cardinality(Tied(h))
      /\ Ref(h, Session, "delete_when_unreferenced") = FALSE
      /\ \A o \in StreamObjects : o \in has <=> o \in has2
  BY HeldSession
<1>2. AddServerMediaSession(h, Session) = g
  BY <1>1 DEF AddServerMediaSession, RemoveServerMediaSession
<1> HIDE DEF g
<1>3. IsHeap(g) /\ Clean(h, g, {Server}) /\ Sets(h, g, Server, "server_media_sessions", Session)
  BY SetStep DEF Up, g
<1>4. Serves(h, has)
  BY UpServes
<1>5. ServerUp(g)
  <2>1. Same(h, g, Tables)
    BY <1>3, Apart DEF Clean
  <2> QED
    BY <1>3, <2>1, ServerKept DEF Up
<1>6. LookupServerMediaSession(g) = Session /\ ClientSessions(g) = ClientSessions(h)
  BY <1>3 DEF Sets, LookupServerMediaSession, ClientSessions
<1>7. ClientPart(g) /\ Tied(g) = Tied(h) /\ Clean(h, g, Own)
  <2>1. Clean(h, g, {Server} \cup SessionObjects)
    BY <1>3, CleanMore
  <2> QED
    BY <1>4, <1>5, <1>6, <2>1, FromSession
<1>8. Alike(h, g, SessionObjects)
  <2>1. {Server} \cap SessionObjects = {}
    BY Apart
  <2> QED
    BY <1>3, <2>1, CleanAlike
<1>9. SessionUp(g) /\ Ref(g, Session, "reference_count") = Cardinality(Tied(g))
      /\ Ref(g, Session, "delete_when_unreferenced") = FALSE
  <2>1. Same(h, g, Session)
    BY <1>8 DEF Alike, SessionObjects
  <2> QED
    BY <1>1, <1>7, <1>8, <2>1, SessionShapeStays DEF Same
<1>10. SessionPart(g, has2)
  <2>1. Session \notin has2
    OBVIOUS
  <2> QED
    BY <1>6, <1>9, <2>1 DEF SessionPart, SessionWith
<1>11. OnlyTracks(g)
  <2> DEFINE O == {Server}
  <2>1. Clean(h, g, O) /\ \A o \in O : o \in g.listed => o \in h.listed /\ Ref(g, o, "delete") = Ref(h, o, "delete")
    BY <1>3 DEF Sets
  <2> HIDE DEF O
  <2> QED
    BY <1>4, <2>1, OnlyTracksKept DEF Serves
<1> HIDE DEF has2
<1>12. Serves(g, has2)
  BY <1>3, <1>5, <1>7, <1>10, <1>11 DEF Serves
<1>13. Up(g, has2, reads)
  BY <1>1, <1>7, <1>12, ServesUp
<1> QED
  BY <1>2, <1>3, <1>13 DEF has2

------------------------------------------------------------------------------
(* The stream of the program. *)

LEMMA StreamPieces ==
  ASSUME NEW h, NEW g
  PROVE  /\ Same(h, g, Framer(Stream)) /\ Same(h, g, Parser(Stream)) /\ Same(h, g, File(Stream)) =>
              /\ SourceUp(h, Stream, Seen) => SourceUp(g, Stream, Seen)
              /\ SourceGone(h, Stream, Seen) => SourceGone(g, Stream, Seen)
         /\ Same(h, g, Sink(Stream)) /\ Same(h, g, Fragmenter(Stream)) =>
              /\ SinkReady(h) \/ SinkBusy(h) => SinkReady(g) \/ SinkBusy(g)
              /\ SinkBusy(h) => SinkBusy(g)
              /\ SinkGone(h) => SinkGone(g)
         /\ Same(h, g, Rtcp(Stream)) =>
              /\ RtcpUp(h, Rtcp(Stream), Groupsock(Stream)) => RtcpUp(g, Rtcp(Stream), Groupsock(Stream))
              /\ Within(h, Rtcp(Stream), RtcpParts) => Within(g, Rtcp(Stream), RtcpParts)
              /\ Gone(h, Rtcp(Stream), {}) => Gone(g, Rtcp(Stream), {})
         /\ Same(h, g, Groupsock(Stream)) =>
              /\ Lives(h, Groupsock(Stream), "self") => Lives(g, Groupsock(Stream), "self")
              /\ \A parts : Gone(h, Groupsock(Stream), parts) => Gone(g, Groupsock(Stream), parts)
<1>1. ASSUME Same(h, g, Framer(Stream)), Same(h, g, Parser(Stream)), Same(h, g, File(Stream))
      PROVE  /\ SourceUp(h, Stream, Seen) => SourceUp(g, Stream, Seen)
             /\ SourceGone(h, Stream, Seen) => SourceGone(g, Stream, Seen)
  <2>1. SourceUp(h, Stream, Seen) => SourceUp(g, Stream, Seen)
    BY <1>1 DEF Same, SourceUp, FramerUp, FileUp, FileParts, Within
  <2>2. SourceGone(h, Stream, Seen) => SourceGone(g, Stream, Seen)
    BY <1>1, SameShapes DEF SourceGone
  <2> QED
    BY <2>1, <2>2
<1>2. ASSUME Same(h, g, Sink(Stream)), Same(h, g, Fragmenter(Stream))
      PROVE  /\ SinkReady(h) \/ SinkBusy(h) => SinkReady(g) \/ SinkBusy(g)
             /\ SinkBusy(h) => SinkBusy(g)
             /\ SinkGone(h) => SinkGone(g)
  <2>1. SinkReady(h) => SinkReady(g)
    BY <1>2, SameShapes DEF Same, SinkReady, SinkIdle, SinkUp
  <2>2. SinkBusy(h) => SinkBusy(g)
    BY <1>2, SameShapes DEF Same, SinkBusy, SinkUp
  <2>3. SinkGone(h) => SinkGone(g)
    BY <1>2, SameShapes DEF SinkGone
  <2> QED
    BY <2>1, <2>2, <2>3
<1>3. ASSUME Same(h, g, Rtcp(Stream))
      PROVE  /\ RtcpUp(h, Rtcp(Stream), Groupsock(Stream)) => RtcpUp(g, Rtcp(Stream), Groupsock(Stream))
             /\ Within(h, Rtcp(Stream), RtcpParts) => Within(g, Rtcp(Stream), RtcpParts)
             /\ Gone(h, Rtcp(Stream), {}) => Gone(g, Rtcp(Stream), {})
  <2>1. RtcpUp(h, Rtcp(Stream), Groupsock(Stream)) => RtcpUp(g, Rtcp(Stream), Groupsock(Stream))
    BY <1>3 DEF Same, RtcpUp
  <2> QED
    BY <1>3, <2>1, SameShapes
<1>4. ASSUME Same(h, g, Groupsock(Stream))
      PROVE  /\ Lives(h, Groupsock(Stream), "self") => Lives(g, Groupsock(Stream), "self")
             /\ \A parts : Gone(h, Groupsock(Stream), parts) => Gone(g, Groupsock(Stream), parts)
  BY <1>4, SameShapes DEF Same
<1> QED
  BY <1>1, <1>2, <1>3, <1>4

(* The objects of a stream have a name each. *)
LEMMA StreamNames ==
  /\ Framer(Stream) \notin {Parser(Stream), File(Stream), Groupsock(Stream), Sink(Stream), Fragmenter(Stream), Rtcp(Stream)}
  /\ Parser(Stream) \notin {File(Stream), Groupsock(Stream), Sink(Stream), Fragmenter(Stream), Rtcp(Stream)}
  /\ File(Stream) \notin {Groupsock(Stream), Sink(Stream), Fragmenter(Stream), Rtcp(Stream)}
  /\ Groupsock(Stream) \notin {Sink(Stream), Fragmenter(Stream), Rtcp(Stream)}
  /\ Sink(Stream) \notin {Fragmenter(Stream), Rtcp(Stream)}
  /\ Fragmenter(Stream) # Rtcp(Stream)
  /\ Session \notin {Framer(Stream), Groupsock(Stream), Sink(Stream), Rtcp(Stream)}
<1>1. Session \notin StreamObjects
  BY Apart DEF SessionObjects
<1> QED
  BY <1>1, Names DEF StreamObjects, SourceObjects

Trio == {Framer(Stream), Groupsock(Stream), Sink(Stream)}

LEMMA StreamCreated ==
  ASSUME NEW h, NEW reads, NEW sets, Up(h, {}, reads), sets \subseteq {"sps", "pps"}
  PROVE  LET g == CreateNewRtpSink(CreateGroupsock(CreateNewStreamSource(h, Stream), Stream), Stream, sets)
         IN  Up(g, Trio, FALSE) /\ Clean(h, g, StreamObjects)
<1> DEFINE g == CreateNewRtpSink(CreateGroupsock(CreateNewStreamSource(h, Stream), Stream), Stream, sets)
<1>1. SourceGone(h, Stream, Seen) /\ Gone(h, Groupsock(Stream), {}) /\ SinkGone(h) /\ Gone(h, Rtcp(Stream), {})
  BY DEF Up, StreamPart
<1>2. /\ IsHeap(g) /\ Clean(h, g, SourceObjects(Stream) \cup {Groupsock(Stream), Sink(Stream)})
      /\ SourceUp(g, Stream, Seen) /\ SinkReady(g)
      /\ Lives(g, Groupsock(Stream), "self") /\ Gone(g, Groupsock(Stream), {"self"})
  BY <1>1, MakeStream DEF Up, ServerUp
<1> HIDE DEF g
<1>3. Clean(h, g, StreamObjects)
  BY <1>2, CleanMore DEF StreamObjects
<1>4. Same(h, g, Rtcp(Stream))
  BY <1>2, StreamNames DEF Clean, SourceObjects
<1>5. Gone(g, Rtcp(Stream), {})
  BY <1>1, <1>4, StreamPieces
<1>6. /\ Framer(Stream) \in Trio /\ Groupsock(Stream) \in Trio /\ Sink(Stream) \in Trio
      /\ Rtcp(Stream) \notin Trio /\ Session \notin Trio
  BY StreamNames DEF Trio
<1>7. StreamPart(g, Trio, FALSE)
  BY <1>2, <1>5, <1>6 DEF StreamPart
<1>8. Up(g, Trio, FALSE)
  <2> DEFINE has == {}
             no == FALSE
  <2>1. Up(h, has, reads) /\ (Session \in has <=> Session \in Trio) /\ StreamPart(g, Trio, no)
    BY <1>6, <1>7
  <2> HIDE DEF has, no
  <2>2. Up(g, Trio, no)
    BY <1>3, <2>1, UpStream
  <2> QED
    BY <2>2 DEF no
<1> QED
  BY <1>3, <1>8 DEF g

(* What is there when the sink is. *)
LEMMA WithSink ==
  ASSUME NEW h, NEW has, NEW reads, Up(h, has, reads), Sink(Stream) \in has
  PROVE  /\ IsHeap(h) /\ TablesUp(h) /\ Server \in h.listed
         /\ Framer(Stream) \in has /\ Groupsock(Stream) \in has
         /\ SourceUp(h, Stream, Seen) /\ (SinkReady(h) \/ SinkBusy(h))
         /\ Lives(h, Groupsock(Stream), "self") /\ Gone(h, Groupsock(Stream), {"self"})
         /\ IF Rtcp(Stream) \in has
            THEN RtcpUp(h, Rtcp(Stream), Groupsock(Stream)) /\ Within(h, Rtcp(Stream), RtcpParts)
            ELSE Gone(h, Rtcp(Stream), {})
BY DEF Up, ServerUp, StreamPart

LEMMA RtcpCreated ==
  ASSUME NEW h, NEW has, NEW reads, Up(h, has, reads), Sink(Stream) \in has, Rtcp(Stream) \notin has
  PROVE  LET g == NewRtcpInstance(h, Rtcp(Stream), Groupsock(Stream), Sink(Stream))
         IN  Up(g, has \cup {Rtcp(Stream)}, reads) /\ Clean(h, g, StreamObjects)
<1> DEFINE g == NewRtcpInstance(h, Rtcp(Stream), Groupsock(Stream), Sink(Stream))
           has2 == has \cup {Rtcp(Stream)}
<1>1. /\ IsHeap(h) /\ TablesUp(h) /\ Framer(Stream) \in has /\ Groupsock(Stream) \in has
      /\ SourceUp(h, Stream, Seen) /\ (SinkReady(h) \/ SinkBusy(h))
      /\ Lives(h, Groupsock(Stream), "self") /\ Gone(h, Groupsock(Stream), {"self"})
      /\ Gone(h, Rtcp(Stream), {})
  BY WithSink
<1>2. /\ IsHeap(g) /\ Clean(h, g, {Rtcp(Stream)})
      /\ RtcpUp(g, Rtcp(Stream), Groupsock(Stream)) /\ Within(g, Rtcp(Stream), RtcpParts)
  BY <1>1, MakeRtcpOfStream
<1> HIDE DEF g
<1>3. Clean(h, g, StreamObjects)
  BY <1>2, CleanMore DEF StreamObjects
<1>4. /\ Same(h, g, Framer(Stream)) /\ Same(h, g, Parser(Stream)) /\ Same(h, g, File(Stream))
      /\ Same(h, g, Groupsock(Stream)) /\ Same(h, g, Sink(Stream)) /\ Same(h, g, Fragmenter(Stream))
  BY <1>2, StreamNames DEF Clean
<1>5. /\ SourceUp(g, Stream, Seen) /\ (SinkReady(g) \/ SinkBusy(g))
      /\ Lives(g, Groupsock(Stream), "self") /\ Gone(g, Groupsock(Stream), {"self"})
  BY <1>1, <1>4, StreamPieces
<1>6. Rtcp(Stream) \in has2 /\ Framer(Stream) \in has2 /\ Groupsock(Stream) \in has2 /\ Sink(Stream) \in has2
      /\ (Session \in has <=> Session \in has2)
  BY <1>1, StreamNames
<1> HIDE DEF has2
<1>7. StreamPart(g, has2, reads)
  BY <1>2, <1>5, <1>6 DEF StreamPart
<1>8. Up(g, has2, reads)
  BY <1>3, <1>6, <1>7, UpStream
<1> QED
  BY <1>3, <1>8 DEF g, has2

(* A step that changes nothing but the sink, its fragmenter and the source. *)
LEMMA SinkKept ==
  ASSUME NEW h, NEW g, NEW has, NEW reads, NEW reads2, Up(h, has, reads), Sink(Stream) \in has,
         Clean(h, g, {Sink(Stream), Fragmenter(Stream)} \cup SourceObjects(Stream)),
         SourceUp(g, Stream, Seen), SinkReady(g) \/ SinkBusy(g)
  PROVE  Up(g, has, reads2) /\ Clean(h, g, StreamObjects)
<1>1. Clean(h, g, StreamObjects)
  BY CleanMore DEF StreamObjects
<1>2. Same(h, g, Groupsock(Stream)) /\ Same(h, g, Rtcp(Stream))
  BY StreamNames DEF Clean, SourceObjects
<1>3. /\ Framer(Stream) \in has /\ Groupsock(Stream) \in has
      /\ Lives(g, Groupsock(Stream), "self") /\ Gone(g, Groupsock(Stream), {"self"})
      /\ IF Rtcp(Stream) \in has
         THEN RtcpUp(g, Rtcp(Stream), Groupsock(Stream)) /\ Within(g, Rtcp(Stream), RtcpParts)
         ELSE Gone(g, Rtcp(Stream), {})
  BY <1>2, WithSink, StreamPieces
<1>4. StreamPart(g, has, reads2)
  BY <1>3 DEF StreamPart
<1> QED
  BY <1>1, <1>4, UpStream

LEMMA StreamPlayed ==
  ASSUME NEW h, NEW has, NEW reads, Up(h, has, reads), Sink(Stream) \in has, Ref(h, Sink(Stream), "source") = Null
  PROVE  LET g == ByteStreamFileSourceRead(
                    StartPlaying(h, Sink(Stream), Framer(Stream), Fragmenter(Stream)), File(Stream))
         IN  Up(g, has, TRUE) /\ Clean(h, g, StreamObjects)
<1> DEFINE g == ByteStreamFileSourceRead(
                  StartPlaying(h, Sink(Stream), Framer(Stream), Fragmenter(Stream)), File(Stream))
           yes == TRUE
<1>1. /\ IsHeap(g) /\ Clean(h, g, {Sink(Stream), Fragmenter(Stream), File(Stream)})
      /\ SourceUp(g, Stream, Seen) /\ SinkBusy(g)
  BY WithSink, PlayGives
<1> HIDE DEF g, yes
<1>2. Clean(h, g, {Sink(Stream), Fragmenter(Stream)} \cup SourceObjects(Stream))
  BY <1>1, CleanMore DEF SourceObjects
<1>3. Up(g, has, yes) /\ Clean(h, g, StreamObjects)
  BY <1>1, <1>2, SinkKept
<1> QED
  BY <1>3 DEF g, yes

LEMMA SetSeen ==
  ASSUME NEW h, NEW has, NEW reads, NEW part \in Seen, Up(h, has, reads), Sink(Stream) \in has
  PROVE  LET g == Make(FreeIf(Touch(h, Parser(Stream), "self"), Framer(Stream), part), Framer(Stream), {part})
         IN  Up(g, has, FALSE) /\ Clean(h, g, StreamObjects)
<1> DEFINE g == Make(FreeIf(Touch(h, Parser(Stream), "self"), Framer(Stream), part), Framer(Stream), {part})
           no == FALSE
<1>1. IsHeap(g) /\ Clean(h, g, {Framer(Stream)}) /\ SourceUp(g, Stream, Seen)
  BY WithSink, SaveGives
<1> HIDE DEF g, no
<1>2. Clean(h, g, {Sink(Stream), Fragmenter(Stream)} \cup SourceObjects(Stream))
  BY <1>1, CleanMore DEF SourceObjects
<1>3. SinkReady(g) \/ SinkBusy(g)
  <2>1. Same(h, g, Sink(Stream)) /\ Same(h, g, Fragmenter(Stream))
    BY <1>1, StreamNames DEF Clean
  <2> QED
    BY <2>1, WithSink, StreamPieces
<1>4. Up(g, has, no) /\ Clean(h, g, StreamObjects)
  BY <1>1, <1>2, <1>3, SinkKept
<1> QED
  BY <1>4 DEF g, no

LEMMA UnitSeen ==
  ASSUME NEW h, NEW has, NEW reads, Up(h, has, reads), Sink(Stream) \in has
  PROVE  Up(h, has, FALSE) /\ Clean(h, h, StreamObjects)
<1> DEFINE no == FALSE
<1> HIDE DEF no
<1>1. Clean(h, h, {Sink(Stream), Fragmenter(Stream)} \cup SourceObjects(Stream))
  BY CleanSelf DEF Up
<1>2. Up(h, has, no) /\ Clean(h, h, StreamObjects)
  BY <1>1, WithSink, SinkKept
<1> QED
  BY <1>2 DEF no

LEMMA LineWritten ==
  ASSUME NEW h, NEW has, NEW reads, Up(h, has, reads), Sink(Stream) \in has
  PROVE  LET g == Make(FreeIf(h, Sink(Stream), "fmtp_sdp_line"), Sink(Stream), {"fmtp_sdp_line"})
         IN  Up(g, has, reads) /\ Clean(h, g, StreamObjects)
<1> DEFINE g == Make(FreeIf(h, Sink(Stream), "fmtp_sdp_line"), Sink(Stream), {"fmtp_sdp_line"})
<1>1. IsHeap(g) /\ Clean(h, g, {Sink(Stream)}) /\ (SinkReady(g) \/ SinkBusy(g))
  BY WithSink, LineGives
<1> HIDE DEF g
<1>2. Clean(h, g, {Sink(Stream), Fragmenter(Stream)} \cup SourceObjects(Stream))
  BY <1>1, CleanMore
<1>3. SourceUp(g, Stream, Seen)
  <2>1. Same(h, g, Framer(Stream)) /\ Same(h, g, Parser(Stream)) /\ Same(h, g, File(Stream))
    BY <1>1, StreamNames DEF Clean
  <2> QED
    BY <2>1, WithSink, StreamPieces
<1>4. Up(g, has, reads) /\ Clean(h, g, StreamObjects)
  BY <1>1, <1>2, <1>3, SinkKept
<1> QED
  BY <1>4 DEF g

LEMMA StreamStopped ==
  ASSUME NEW h, NEW has, NEW reads, Up(h, has, reads), Sink(Stream) \in has
  PROVE  LET g == StopPlaying(h, Sink(Stream))
         IN  Up(g, has, FALSE) /\ Clean(h, g, StreamObjects)
<1> DEFINE g == StopPlaying(h, Sink(Stream))
           no == FALSE
<1>1. /\ IsHeap(g) /\ Clean(h, g, {Sink(Stream), File(Stream)})
      /\ SourceUp(g, Stream, Seen) /\ (SinkReady(g) \/ SinkBusy(g))
  BY WithSink, StopGives
<1> HIDE DEF g, no
<1>2. Clean(h, g, {Sink(Stream), Fragmenter(Stream)} \cup SourceObjects(Stream))
  BY <1>1, CleanMore DEF SourceObjects
<1>3. Up(g, has, no) /\ Clean(h, g, StreamObjects)
  BY <1>1, <1>2, SinkKept
<1> QED
  BY <1>3 DEF g, no

LEMMA RtcpClosed ==
  ASSUME NEW h, NEW has, NEW reads, Up(h, has, reads), Rtcp(Stream) \in has
  PROVE  LET g == CloseMedium(h, Rtcp(Stream))
         IN  Up(g, has \ {Rtcp(Stream)}, reads) /\ Clean(h, g, StreamObjects)
<1> DEFINE g == CloseMedium(h, Rtcp(Stream))
           has2 == has \ {Rtcp(Stream)}
<1>0. Sink(Stream) \in has
  BY DEF Up, StreamPart
<1>1. /\ IsHeap(h) /\ Server \in h.listed /\ Framer(Stream) \in has /\ Groupsock(Stream) \in has
      /\ SourceUp(h, Stream, Seen) /\ (SinkReady(h) \/ SinkBusy(h))
      /\ Lives(h, Groupsock(Stream), "self") /\ Gone(h, Groupsock(Stream), {"self"})
      /\ RtcpUp(h, Rtcp(Stream), Groupsock(Stream)) /\ Within(h, Rtcp(Stream), RtcpParts)
  BY <1>0, WithSink
<1>2. IsHeap(g) /\ Clean(h, g, {Rtcp(Stream)}) /\ Gone(g, Rtcp(Stream), {})
  BY <1>1, CloseRtcpOfStream
<1> HIDE DEF g
<1>3. Clean(h, g, StreamObjects)
  BY <1>2, CleanMore DEF StreamObjects
<1>4. /\ Same(h, g, Framer(Stream)) /\ Same(h, g, Parser(Stream)) /\ Same(h, g, File(Stream))
      /\ Same(h, g, Groupsock(Stream)) /\ Same(h, g, Sink(Stream)) /\ Same(h, g, Fragmenter(Stream))
  BY <1>2, StreamNames DEF Clean
<1>5. /\ SourceUp(g, Stream, Seen) /\ (SinkReady(g) \/ SinkBusy(g))
      /\ Lives(g, Groupsock(Stream), "self") /\ Gone(g, Groupsock(Stream), {"self"})
  BY <1>1, <1>4, StreamPieces
<1>6. Rtcp(Stream) \notin has2 /\ Framer(Stream) \in has2 /\ Groupsock(Stream) \in has2 /\ Sink(Stream) \in has2
      /\ (Session \in has <=> Session \in has2)
  BY <1>0, <1>1, StreamNames
<1> HIDE DEF has2
<1>7. StreamPart(g, has2, reads)
  BY <1>2, <1>5, <1>6 DEF StreamPart
<1>8. Up(g, has2, reads)
  BY <1>3, <1>6, <1>7, UpStream
<1> QED
  BY <1>3, <1>8 DEF g, has2

LEMMA SinkClosed ==
  ASSUME NEW h, NEW has, NEW reads, Up(h, has, reads), Sink(Stream) \in has, Rtcp(Stream) \notin has
  PROVE  LET g == CloseMedium(h, Sink(Stream))
         IN  Up(g, has \ {Sink(Stream)}, FALSE) /\ Clean(h, g, StreamObjects)
<1> DEFINE g == CloseMedium(h, Sink(Stream))
           has2 == has \ {Sink(Stream)}
           no == FALSE
<1>1. /\ IsHeap(h) /\ Server \in h.listed /\ Framer(Stream) \in has /\ Groupsock(Stream) \in has
      /\ SourceUp(h, Stream, Seen) /\ (SinkReady(h) \/ SinkBusy(h))
      /\ Lives(h, Groupsock(Stream), "self") /\ Gone(h, Groupsock(Stream), {"self"})
      /\ Gone(h, Rtcp(Stream), {})
  BY WithSink
<1>2. /\ IsHeap(g) /\ Clean(h, g, {Sink(Stream), Fragmenter(Stream), File(Stream)})
      /\ SourceUp(g, Stream, Seen) /\ SinkGone(g)
  BY <1>1, CloseSinkGives
<1> HIDE DEF g
<1>3. Clean(h, g, StreamObjects)
  BY <1>2, CleanMore DEF StreamObjects, SourceObjects
<1>4. Same(h, g, Groupsock(Stream)) /\ Same(h, g, Rtcp(Stream))
  BY <1>2, StreamNames DEF Clean
<1>5. /\ Lives(g, Groupsock(Stream), "self") /\ Gone(g, Groupsock(Stream), {"self"})
      /\ Gone(g, Rtcp(Stream), {})
  BY <1>1, <1>4, StreamPieces
<1>6. Rtcp(Stream) \notin has2 /\ Framer(Stream) \in has2 /\ Groupsock(Stream) \in has2 /\ Sink(Stream) \notin has2
      /\ (Session \in has <=> Session \in has2)
  BY <1>1, StreamNames
<1>n. no = FALSE
  OBVIOUS
<1> HIDE DEF has2, no
<1>7. StreamPart(g, has2, no)
  BY <1>2, <1>5, <1>6, <1>n DEF StreamPart
<1>8. Up(g, has2, no)
  BY <1>3, <1>6, <1>7, UpStream
<1> QED
  BY <1>3, <1>8 DEF g, has2, no

LEMMA GroupsockDeleted ==
  ASSUME NEW h, NEW has, NEW reads, Up(h, has, reads), Groupsock(Stream) \in has, Sink(Stream) \notin has
  PROVE  LET g == Free(h, Groupsock(Stream), "self")
         IN  Up(g, has \ {Groupsock(Stream)}, reads) /\ Clean(h, g, StreamObjects)
<1> DEFINE g == Free(h, Groupsock(Stream), "self")
           has2 == has \ {Groupsock(Stream)}
<1>1. /\ IsHeap(h) /\ SinkGone(h) /\ ~reads /\ Rtcp(Stream) \notin has /\ Gone(h, Rtcp(Stream), {})
      /\ Lives(h, Groupsock(Stream), "self") /\ Gone(h, Groupsock(Stream), {"self"})
      /\ IF Framer(Stream) \in has THEN SourceUp(h, Stream, Seen) ELSE SourceGone(h, Stream, Seen)
  BY DEF Up, StreamPart
<1>2. IsHeap(g) /\ Clean(h, g, {Groupsock(Stream)}) /\ Frees(h, g, Groupsock(Stream), "self")
  BY <1>1, FreeStep
<1> HIDE DEF g
<1>3. Clean(h, g, StreamObjects)
  BY <1>2, CleanMore DEF StreamObjects
<1>4. /\ Same(h, g, Framer(Stream)) /\ Same(h, g, Parser(Stream)) /\ Same(h, g, File(Stream))
      /\ Same(h, g, Rtcp(Stream)) /\ Same(h, g, Sink(Stream)) /\ Same(h, g, Fragmenter(Stream))
  BY <1>2, StreamNames DEF Clean
<1>5. /\ SinkGone(g) /\ Gone(g, Rtcp(Stream), {})
      /\ IF Framer(Stream) \in has THEN SourceUp(g, Stream, Seen) ELSE SourceGone(g, Stream, Seen)
  BY <1>1, <1>4, StreamPieces
<1>6. Gone(g, Groupsock(Stream), {})
  BY <1>1, <1>2 DEF Frees, Gone, Within
<1>7. /\ Rtcp(Stream) \notin has2 /\ (Framer(Stream) \in has <=> Framer(Stream) \in has2)
      /\ Groupsock(Stream) \notin has2 /\ Sink(Stream) \notin has2 /\ (Session \in has <=> Session \in has2)
  BY <1>1, StreamNames
<1> HIDE DEF has2
<1>8. StreamPart(g, has2, reads)
  BY <1>1, <1>5, <1>6, <1>7 DEF StreamPart
<1>9. Up(g, has2, reads)
  BY <1>3, <1>7, <1>8, UpStream
<1> QED
  BY <1>3, <1>9 DEF g, has2

LEMMA SourceClosed ==
  ASSUME NEW h, NEW has, NEW reads, Up(h, has, reads), Framer(Stream) \in has, Sink(Stream) \notin has
  PROVE  LET g == CloseMedium(h, Framer(Stream))
         IN  Up(g, has \ {Framer(Stream)}, reads) /\ Clean(h, g, StreamObjects)
<1> DEFINE g == CloseMedium(h, Framer(Stream))
           has2 == has \ {Framer(Stream)}
<1>1. /\ IsHeap(h) /\ Server \in h.listed /\ SinkGone(h) /\ ~reads /\ Rtcp(Stream) \notin has
      /\ Gone(h, Rtcp(Stream), {}) /\ SourceUp(h, Stream, Seen)
      /\ IF Groupsock(Stream) \in has
         THEN Lives(h, Groupsock(Stream), "self") /\ Gone(h, Groupsock(Stream), {"self"})
         ELSE Gone(h, Groupsock(Stream), {})
  BY DEF Up, StreamPart, ServerUp
<1>2. IsHeap(g) /\ Clean(h, g, SourceObjects(Stream)) /\ SourceGone(g, Stream, Seen)
  BY <1>1, CloseSource
<1> HIDE DEF g
<1>3. Clean(h, g, StreamObjects)
  BY <1>2, CleanMore DEF StreamObjects
<1>4. /\ Same(h, g, Groupsock(Stream)) /\ Same(h, g, Rtcp(Stream))
      /\ Same(h, g, Sink(Stream)) /\ Same(h, g, Fragmenter(Stream))
  BY <1>2, StreamNames DEF Clean, SourceObjects
<1>5. /\ SinkGone(g) /\ Gone(g, Rtcp(Stream), {})
      /\ IF Groupsock(Stream) \in has
         THEN Lives(g, Groupsock(Stream), "self") /\ Gone(g, Groupsock(Stream), {"self"})
         ELSE Gone(g, Groupsock(Stream), {})
  BY <1>1, <1>4, StreamPieces
<1>6. /\ Rtcp(Stream) \notin has2 /\ (Groupsock(Stream) \in has <=> Groupsock(Stream) \in has2)
      /\ Framer(Stream) \notin has2 /\ Sink(Stream) \notin has2 /\ (Session \in has <=> Session \in has2)
  BY <1>1, StreamNames
<1> HIDE DEF has2
<1>7. StreamPart(g, has2, reads)
  BY <1>1, <1>2, <1>5, <1>6 DEF StreamPart
<1>8. Up(g, has2, reads)
  BY <1>3, <1>6, <1>7, UpStream
<1> QED
  BY <1>3, <1>8 DEF g, has2

------------------------------------------------------------------------------
(* What a step leaves. *)

(* Every connection keeps what it told its client. *)
Remembers(h, g) == \A o \in ConnectionObjects : \A k \in {"realm", "nonce"} : Ref(g, o, k) = Ref(h, o, k)

Outcome(h, has, reads) ==
  \/ (Up(h, has, reads) \/ Down(h, has, reads)) /\ h.faults \subseteq Harmless
  \/ Late(h) /\ ~(h.faults \subseteq Harmless)

LEMMA CleanRemembers ==
  ASSUME NEW h, NEW g, NEW O, Clean(h, g, O), O \cap ConnectionObjects = {}
  PROVE  Remembers(h, g)
<1>1. \A o \in ConnectionObjects : Same(h, g, o)
  BY DEF Clean
<1> QED
  BY <1>1 DEF Same, Remembers

LEMMA UpOutcome ==
  ASSUME NEW h, NEW g, NEW has, NEW reads, NEW O, Up(g, has, reads), Clean(h, g, O), h.faults \subseteq Harmless,
         O \cap ConnectionObjects = {}
  PROVE  Outcome(g, has, reads) /\ Remembers(h, g)
<1>1. g.faults \subseteq Harmless
  BY DEF Clean
<1> QED
  BY <1>1, CleanRemembers DEF Outcome

LEMMA CreateServerRemembers ==
  ASSUME NEW g \in CreateNewServer(EmptyHeap)
  PROVE  Remembers(EmptyHeap, g) /\ g.faults \subseteq Harmless
<1>1. \A h \in SetupStreamSocket(EmptyHeap) : Bare(h)
  BY BareEmpty, BareMake DEF SetupStreamSocket
<1>2. \A h \in SetUpOurSocket(EmptyHeap) : Bare(h)
  <2>1. ASSUME NEW h \in SetupStreamSocket(EmptyHeap), Lives(h, Server, "server_socket")
        PROVE  Bare(Free(h, Server, "server_socket"))
    BY <1>1, <2>1, BareMake, FreeGives
  <2>2. ASSUME NEW h \in SetUpOurSocket(EmptyHeap)
        PROVE  \E k \in SetupStreamSocket(EmptyHeap) :
                 h = k \/ (Lives(k, Server, "server_socket") /\ h = Free(k, Server, "server_socket"))
    BY DEF SetUpOurSocket
  <2> QED
    BY <1>1, <2>1, <2>2
<1>3. PICK h \in SetUpOurSocket(EmptyHeap) : g \in {h, NewRtspServer(h)}
  BY DEF CreateNewServer
<1>4. Bare(h)
  BY <1>2
<1>5. Remembers(EmptyHeap, h)
  BY <1>4, BareEmpty DEF Bare, Remembers
<1>6. CASE g = h
  BY <1>4, <1>5, <1>6 DEF Bare
<1>7. CASE g = NewRtspServer(h)
  <2>1. Clean(h, g, {Server, Tables})
    BY <1>4, <1>7, NewServerGives
  <2>2. {Server, Tables} \cap ConnectionObjects = {}
    BY Apart
  <2>3. Remembers(h, g)
    BY <2>1, <2>2, CleanRemembers
  <2> QED
    BY <1>4, <1>5, <2>1, <2>3 DEF Remembers, Clean, Bare
<1> QED
  BY <1>3, <1>6, <1>7

LEMMA KeptWhenDone ==
  ASSUME NEW h, NEW reads, Up(h, {}, reads), ~Lives(h, Database, "self"),
         LookupServerMediaSession(h) # Session, ClientSessions(h) = {}
  PROVE  \A b \in h.live : Kept(b)
<1>1. ASSUME NEW b \in h.live PROVE Lives(h, b[1], b[2]) /\ b = <<b[1], b[2]>>
  BY DEF Up, IsHeap, Lives
<1>2. \A o, rest, part : Gone(h, o, rest) /\ Lives(h, o, part) => part \in rest
  BY DEF Gone, Within
<1>3. ASSUME NEW b \in h.live, b[1] \in {Tables, Server} PROVE Kept(b)
  BY <1>3 DEF Kept
<1>4. ASSUME NEW b \in h.live, b[1] \in Dummies PROVE FALSE
  <2>1. Gone(h, b[1], {})
    BY <1>4 DEF Up, DummiesGone, Dummies, SourceGone, SourceObjects
  <2> QED
    BY <1>1, <1>2, <2>1
<1>5. ASSUME NEW b \in h.live, b[1] \in StreamObjects PROVE Kept(b)
  <2>1. StreamPart(h, {}, reads)
    BY DEF Up
  <2>2. /\ Gone(h, Framer(Stream), Seen) /\ Gone(h, Parser(Stream), {}) /\ Gone(h, File(Stream), {})
        /\ Gone(h, Groupsock(Stream), {}) /\ Gone(h, Sink(Stream), {}) /\ Gone(h, Fragmenter(Stream), {})
        /\ Gone(h, Rtcp(Stream), {})
    BY <2>1 DEF StreamPart, SourceGone, SinkGone
  <2>3. b[1] = Framer(Stream) /\ b[2] \in Seen
    BY <1>1, <1>2, <1>5, <2>2 DEF StreamObjects, SourceObjects
  <2>4. b \in {Framer(Stream)} \X Seen
    BY <1>1, <2>3
  <2> QED
    BY <2>4 DEF Kept, Seen
<1>6. ASSUME NEW b \in h.live, b[1] \in SessionObjects PROVE Kept(b)
  <2>1. SessionGone(h)
    BY DEF Up, SessionPart, SessionWith, Tied
  <2>2. CASE b[1] = Session
    <3>1. b[2] \in {"ip_address_str"}
      BY <1>1, <1>2, <2>1, <2>2 DEF SessionGone
    <3>2. b = <<Session, "ip_address_str">>
      BY <1>1, <2>2, <3>1
    <3> QED
      BY <3>2 DEF Kept
  <2>3. ASSUME NEW t \in Tracks, b[1] = Subsession(t) PROVE Kept(b)
    <3>1. b[2] \in TrackRest
      BY <1>1, <1>2, <2>1, <2>3 DEF SessionGone
    <3> QED
      BY <2>3, <3>1 DEF Kept, TrackRest, Tracks
  <2> QED
    BY <1>6, <2>2, <2>3 DEF SessionObjects, Tracked
<1>7. ASSUME NEW b \in h.live, b[1] \in ClientObjects PROVE Kept(b)
  <2>1. Gone(h, b[1], ClientRest)
    BY <1>7 DEF Up, ClientPart
  <2>2. b[2] \in ClientRest
    BY <1>1, <1>2, <2>1
  <2> QED
    BY <1>7, <2>2 DEF Kept, ClientRest, ClientObjects
<1>8. ASSUME NEW b \in h.live, b[1] \in ConnectionObjects PROVE Kept(b)
  BY <1>8 DEF Kept, ConnectionObjects
<1>9. ASSUME NEW b \in h.live, b[1] \in UserObjects PROVE FALSE
  <2>1. Gone(h, b[1], {})
    BY <1>9 DEF Up, DatabasePart, UserObjects
  <2> QED
    BY <1>1, <1>2, <2>1
<1>10. ASSUME NEW b \in h.live, b[1] \notin Objects PROVE FALSE
  <2>1. Gone(h, b[1], {})
    BY <1>10 DEF Up, NoOther
  <2> QED
    BY <1>1, <1>2, <2>1
<1> QED
  BY <1>3, <1>4, <1>5, <1>6, <1>7, <1>8, <1>9, <1>10 DEF Objects

LEMMA OutcomeReleases ==
  ASSUME Outcome(heap', held', reading')
  PROVE  ReleasedOnce'
<1>1. CASE Up(heap', held', reading') /\ heap'.faults \subseteq Harmless
  <2>1. ASSUME Done' PROVE \A b \in heap'.live : Kept(b)
    <3>1. /\ held' = {} /\ ~Lives(heap', Database, "self")
          /\ Lives(heap', Server, "self") => LookupServerMediaSession(heap') # Session /\ ClientSessions(heap') = {}
      BY <2>1 DEF Done, Offered
    <3>2. Lives(heap', Server, "self") /\ Up(heap', {}, reading')
      BY <1>1, <3>1 DEF Up, ServerUp
    <3> QED
      BY <3>1, <3>2, KeptWhenDone
  <2> QED
    BY <1>1, <2>1 DEF ReleasedOnce, Runs
<1>2. CASE Down(heap', held', reading') /\ heap'.faults \subseteq Harmless
  BY <1>2 DEF Down, ReleasedOnce, Runs, Kept
<1>3. CASE Late(heap') /\ ~(heap'.faults \subseteq Harmless)
  BY <1>3 DEF Late, ReleasedOnce, Runs
<1> QED
  BY <1>1, <1>2, <1>3 DEF Outcome

(* A step that lets nobody in. *)
LEMMA ForgetKeepsInv ==
  ASSUME Told(heap), Forget, Outcome(heap', held', reading'), Remembers(heap, heap')
  PROVE  IInv'
<1>1. AdmittedAsChallenged'
  BY DEF Forget, NoAnswer, AdmittedAsChallenged
<1>2. Told(heap)'
  BY DEF Forget, Told, Remembers, ConnectionObjects
<1>3. Runs' => (Up(heap, held, reading) \/ Down(heap, held, reading))'
  BY DEF Outcome, Runs
<1> QED
  BY <1>1, <1>2, <1>3, OutcomeReleases DEF IInv

------------------------------------------------------------------------------
(* The steps of the program, one by one. *)

Steps == Outcome(heap', held', reading') /\ Remembers(heap, heap')

(* Only connections say what a client was told. *)
LEMMA Mute ==
  /\ {Server} \cap ConnectionObjects = {} /\ StreamObjects \cap ConnectionObjects = {}
  /\ SessionObjects \cap ConnectionObjects = {} /\ UserObjects \cap ConnectionObjects = {}
  /\ (Dummies \cup SessionObjects) \cap ConnectionObjects = {} /\ Own \cap ConnectionObjects = {}
BY Apart DEF Own

LEMMA SessionStep ==
  ASSUME Runs, Up(heap, held, reading) \/ Down(heap, held, reading), SessionNext
  PROVE  Steps
<1>0. heap.faults \subseteq Harmless
  BY DEF Runs
<1>1. CASE CreateServer
  <2>1. heap = EmptyHeap /\ heap' \in CreateNewServer(EmptyHeap) /\ held' = held /\ reading' = reading
    BY <1>1 DEF CreateServer, Unchanged
  <2>2. ~Lives(heap, Server, "self")
    BY <2>1 DEF EmptyHeap, Lives
  <2>3. held = {} /\ reading' \in {FALSE, reading} /\ ~reading
    BY <2>1, <2>2 DEF Up, ServerUp, Down
  <2>4. Up(heap', {}, FALSE) \/ Down(heap', {}, FALSE)
    BY <2>1, CreateServerGives
  <2>5. Remembers(heap, heap') /\ heap'.faults \subseteq Harmless
    BY <2>1, CreateServerRemembers
  <2>6. Up(heap', held', reading') \/ Down(heap', held', reading')
    <3>1. CASE Up(heap', {}, FALSE)
      <4>1. StreamPart(heap', {}, FALSE)
        BY <3>1 DEF Up
      <4>2. StreamPart(heap', {}, reading)
        BY <2>3, <4>1 DEF StreamPart
      <4> QED
        BY <2>1, <2>3, <3>1, <4>2 DEF Up
    <3>2. CASE Down(heap', {}, FALSE)
      BY <2>1, <2>3, <3>2 DEF Down
    <3> QED
      BY <2>4, <3>1, <3>2
  <2> QED
    BY <2>5, <2>6 DEF Steps, Outcome
<1>2. CASE CreateSession
  <2>1. /\ Lives(heap, Server, "self") /\ ~Lives(heap, Session, "self") /\ held = {}
        /\ heap' = NewSubsessions(NewServerMediaSession(heap, Session))
        /\ held' = {Session} /\ reading' = reading
    BY <1>2 DEF CreateSession, Unchanged
  <2>2. Up(heap, {}, reading)
    BY <2>1 DEF Down
  <2>3. Up(heap', {Session}, reading) /\ Clean(heap, heap', SessionObjects)
    BY <2>1, <2>2, CreateSessionGives
  <2> QED
    BY <1>0, <2>1, <2>3, Mute, UpOutcome DEF Steps
<1>3. CASE CloseSession
  <2>1. Session \in held /\ heap' = CloseMedium(heap, Session) /\ held' = held \ {Session} /\ reading' = reading
    BY <1>3 DEF CloseSession, Unchanged, Holds
  <2>2. Up(heap, held, reading)
    BY <2>1 DEF Down
  <2>3. Up(heap', held', reading') /\ Clean(heap, heap', SessionObjects)
    BY <2>1, <2>2, CloseHeldSessionGives
  <2> QED
    BY <1>0, <2>3, Mute, UpOutcome DEF Steps
<1>4. CASE AddSession
  <2>1. Session \in held /\ heap' = AddServerMediaSession(heap, Session) /\ held' = held \ {Session} /\ reading' = reading
    BY <1>4 DEF AddSession, Unchanged, Holds
  <2>2. Up(heap, held, reading)
    BY <2>1 DEF Down
  <2>3. Up(heap', held', reading') /\ Clean(heap, heap', {Server})
    BY <2>1, <2>2, AddSessionGives
  <2> QED
    BY <1>0, <2>3, Mute, UpOutcome DEF Steps
<1> QED
  BY <1>1, <1>2, <1>3, <1>4 DEF SessionNext

LEMMA StreamStep ==
  ASSUME Runs, Up(heap, held, reading) \/ Down(heap, held, reading), StreamNext
  PROVE  Steps
<1>0. heap.faults \subseteq Harmless
  BY DEF Runs
<1>u. Up(heap, held, reading)
  <2>1. Lives(heap, Server, "self") \/ held # {} \/ reading
    BY DEF StreamNext, CreateStream, CreateRtcp, Play, AuxSdpLine, Stop, SeeSps, SeePps, SeeOther, CloseRtcp,
           CloseSink, DeleteGroupsock, CloseStreamSource, Holds
  <2> QED
    BY <2>1 DEF Down
<1>r. reading => Sink(Stream) \in held
  BY <1>u DEF Up, StreamPart
<1>s. ASSUME Up(heap', held', reading'), Clean(heap, heap', StreamObjects) PROVE Steps
  BY <1>0, <1>s, Mute, UpOutcome DEF Steps
<1>1. CASE CreateStream
  <2>1. held = {} /\ held' = Trio /\ reading' = FALSE
    BY <1>1 DEF CreateStream, Trio
  <2>2. PICK own \in OwnSets \cup {NoSet} :
          heap' = CreateNewRtpSink(CreateGroupsock(CreateNewStreamSource(heap, Stream), Stream), Stream,
                                   IF own = NoSet THEN {} ELSE {"sps", "pps"})
    BY <1>1 DEF CreateStream
  <2> DEFINE sets == IF own = NoSet THEN {} ELSE {"sps", "pps"}
  <2>3. sets \subseteq {"sps", "pps"} /\ Up(heap, {}, reading)
    BY <1>u, <2>1
  <2>4. heap' = CreateNewRtpSink(CreateGroupsock(CreateNewStreamSource(heap, Stream), Stream), Stream, sets)
    BY <2>2
  <2> HIDE DEF sets
  <2>5. Up(heap', Trio, FALSE) /\ Clean(heap, heap', StreamObjects)
    BY <2>3, <2>4, StreamCreated
  <2> QED
    BY <1>s, <2>1, <2>5
<1>2. CASE CreateRtcp
  <2>1. /\ Sink(Stream) \in held /\ Rtcp(Stream) \notin held /\ held' = held \cup {Rtcp(Stream)} /\ reading' = reading
        /\ heap' = NewRtcpInstance(heap, Rtcp(Stream), Groupsock(Stream), Sink(Stream))
    BY <1>2 DEF CreateRtcp, Holds, Unchanged
  <2>2. Up(heap', held', reading') /\ Clean(heap, heap', StreamObjects)
    BY <1>u, <2>1, RtcpCreated
  <2> QED
    BY <1>s, <2>2
<1>3. CASE Play
  <2>1. /\ Sink(Stream) \in held /\ Ref(heap, Sink(Stream), "source") = Null /\ held' = held /\ reading' = TRUE
        /\ heap' = ByteStreamFileSourceRead(
                     StartPlaying(heap, Sink(Stream), Framer(Stream), Fragmenter(Stream)), File(Stream))
    BY <1>3 DEF Play, Holds
  <2>2. Up(heap', held', reading') /\ Clean(heap, heap', StreamObjects)
    BY <1>u, <2>1, StreamPlayed
  <2> QED
    BY <1>s, <2>2
<1>4. CASE AuxSdpLine
  <2>1. /\ Sink(Stream) \in held /\ held' = held /\ reading' = reading
        /\ \/ heap' = heap
           \/ heap' = Make(FreeIf(heap, Sink(Stream), "fmtp_sdp_line"), Sink(Stream), {"fmtp_sdp_line"})
    BY <1>4 DEF AuxSdpLine, Holds
  <2>2. CASE heap' = heap
    <3>1. Up(heap', held', reading') /\ Clean(heap, heap', StreamObjects)
      BY <1>u, <2>1, <2>2, CleanSelf DEF Up
    <3> QED
      BY <1>s, <3>1
  <2>3. CASE heap' = Make(FreeIf(heap, Sink(Stream), "fmtp_sdp_line"), Sink(Stream), {"fmtp_sdp_line"})
    <3>1. Up(heap', held', reading') /\ Clean(heap, heap', StreamObjects)
      BY <1>u, <2>1, <2>3, LineWritten
    <3> QED
      BY <1>s, <3>1
  <2> QED
    BY <2>1, <2>2, <2>3
<1>5. CASE Stop
  <2>1. Sink(Stream) \in held /\ heap' = StopPlaying(heap, Sink(Stream)) /\ held' = held /\ reading' = FALSE
    BY <1>5 DEF Stop, Holds
  <2>2. Up(heap', held', reading') /\ Clean(heap, heap', StreamObjects)
    BY <1>u, <2>1, StreamStopped
  <2> QED
    BY <1>s, <2>2
<1>6. ASSUME NEW s \in SpsSets, SeeSps(s) PROVE Steps
  <2>1. reading /\ held' = held /\ reading' = FALSE
        /\ heap' = Make(FreeIf(Touch(heap, Parser(Stream), "self"), Framer(Stream), "last_seen_sps"),
                        Framer(Stream), {"last_seen_sps"})
    BY <1>6 DEF SeeSps, SaveCopyOfSps
  <2> DEFINE part == "last_seen_sps"
  <2>2. part \in Seen /\ heap' = Make(FreeIf(Touch(heap, Parser(Stream), "self"), Framer(Stream), part), Framer(Stream), {part})
    BY <2>1 DEF Seen
  <2> HIDE DEF part
  <2>3. Up(heap', held, FALSE) /\ Clean(heap, heap', StreamObjects)
    BY <1>u, <1>r, <2>1, <2>2, SetSeen
  <2> QED
    BY <1>s, <2>1, <2>3
<1>7. ASSUME NEW s \in PpsSets, SeePps(s) PROVE Steps
  <2>1. reading /\ held' = held /\ reading' = FALSE
        /\ heap' = Make(FreeIf(Touch(heap, Parser(Stream), "self"), Framer(Stream), "last_seen_pps"),
                        Framer(Stream), {"last_seen_pps"})
    BY <1>7 DEF SeePps, SaveCopyOfPps
  <2> DEFINE part == "last_seen_pps"
  <2>2. part \in Seen /\ heap' = Make(FreeIf(Touch(heap, Parser(Stream), "self"), Framer(Stream), part), Framer(Stream), {part})
    BY <2>1 DEF Seen
  <2> HIDE DEF part
  <2>3. Up(heap', held, FALSE) /\ Clean(heap, heap', StreamObjects)
    BY <1>u, <1>r, <2>1, <2>2, SetSeen
  <2> QED
    BY <1>s, <2>1, <2>3
<1>8. CASE SeeOther
  <2>1. reading /\ heap' = heap /\ held' = held /\ reading' = FALSE
    BY <1>8 DEF SeeOther
  <2>2. Up(heap', held', reading') /\ Clean(heap, heap', StreamObjects)
    BY <1>u, <1>r, <2>1, UnitSeen
  <2> QED
    BY <1>s, <2>2
<1>9. CASE CloseRtcp
  <2>1. Rtcp(Stream) \in held /\ heap' = CloseMedium(heap, Rtcp(Stream)) /\ held' = held \ {Rtcp(Stream)} /\ reading' = reading
    BY <1>9 DEF CloseRtcp, Holds, Unchanged
  <2>2. Up(heap', held', reading') /\ Clean(heap, heap', StreamObjects)
    BY <1>u, <2>1, RtcpClosed
  <2> QED
    BY <1>s, <2>2
<1>10. CASE CloseSink
  <2>1. /\ Sink(Stream) \in held /\ Rtcp(Stream) \notin held /\ heap' = CloseMedium(heap, Sink(Stream))
        /\ held' = held \ {Sink(Stream)} /\ reading' = FALSE
    BY <1>10 DEF CloseSink, Holds
  <2>2. Up(heap', held', reading') /\ Clean(heap, heap', StreamObjects)
    BY <1>u, <2>1, SinkClosed
  <2> QED
    BY <1>s, <2>2
<1>11. CASE DeleteGroupsock
  <2>1. /\ Groupsock(Stream) \in held /\ Sink(Stream) \notin held /\ heap' = Free(heap, Groupsock(Stream), "self")
        /\ held' = held \ {Groupsock(Stream)} /\ reading' = reading
    BY <1>11 DEF DeleteGroupsock, Holds, Unchanged
  <2>2. Up(heap', held', reading') /\ Clean(heap, heap', StreamObjects)
    BY <1>u, <2>1, GroupsockDeleted
  <2> QED
    BY <1>s, <2>2
<1>12. CASE CloseStreamSource
  <2>1. /\ Framer(Stream) \in held /\ Sink(Stream) \notin held /\ heap' = CloseMedium(heap, Framer(Stream))
        /\ held' = held \ {Framer(Stream)} /\ reading' = reading
    BY <1>12 DEF CloseStreamSource, Holds
  <2>2. Up(heap', held', reading') /\ Clean(heap, heap', StreamObjects)
    BY <1>u, <2>1, SourceClosed
  <2> QED
    BY <1>s, <2>2
<1> QED
  BY <1>1, <1>2, <1>3, <1>4, <1>5, <1>6, <1>7, <1>8, <1>9, <1>10, <1>11, <1>12 DEF StreamNext

------------------------------------------------------------------------------
(* The steps of clients, one by one. *)

LEMMA OneConnection ==
  ASSUME NEW h, NEW g, NEW has, NEW reads, NEW c \in Connections, Up(h, has, reads),
         Clean(h, g, {Connection(c)}), ConnectionUp(g, Connection(c))
  PROVE  Up(g, has, reads) /\ Clean(h, g, ConnectionObjects)
<1>1. Connection(c) \in ConnectionObjects
  BY DEF ConnectionObjects
<1>2. Clean(h, g, ConnectionObjects)
  BY <1>1, CleanMore
<1>3. ASSUME NEW o \in ConnectionObjects PROVE ConnectionUp(g, o)
  <2>1. CASE o = Connection(c)
    BY <2>1
  <2>2. CASE o # Connection(c)
    <3>1. Same(h, g, o) /\ ConnectionUp(h, o)
      BY <2>2 DEF Clean, Up, ConnectionPart
    <3> QED
      BY <3>1 DEF Same, ConnectionUp
  <2> QED
    BY <2>1, <2>2
<1>4. ConnectionPart(g)
  BY <1>3 DEF ConnectionPart
<1> QED
  BY <1>2, <1>4, UpConnections

LEMMA QuietConnection ==
  ASSUME NEW c \in Connections, Runs, Up(heap, held, reading), held' = held, reading' = reading,
         Clean(heap, heap', {Connection(c)}), ConnectionUp(heap', Connection(c)),
         \A k \in {"realm", "nonce"} : Ref(heap', Connection(c), k) = Ref(heap, Connection(c), k)
  PROVE  Steps
<1>1. Up(heap', held', reading')
  BY OneConnection
<1>2. heap'.faults \subseteq Harmless
  BY DEF Runs, Clean
<1>3. Remembers(heap, heap')
  <2>1. ASSUME NEW o \in ConnectionObjects, NEW k \in {"realm", "nonce"} PROVE Ref(heap', o, k) = Ref(heap, o, k)
    <3>1. CASE o = Connection(c)
      BY <3>1
    <3>2. CASE o # Connection(c)
      BY <3>2 DEF Clean, Same
    <3> QED
      BY <3>1, <3>2
  <2> QED
    BY <2>1 DEF Remembers
<1> QED
  BY <1>1, <1>2, <1>3 DEF Steps, Outcome

LEMMA AcceptStep ==
  ASSUME NEW c \in Connections, Runs, Up(heap, held, reading), AcceptConnection(c)
  PROVE  Steps
<1>1. /\ heap' \in IncomingConnection(heap, Connection(c)) /\ ~Lives(heap, Connection(c), "self")
      /\ held' = held /\ reading' = reading
  BY DEF AcceptConnection, KeepStream
<1>2. Connection(c) \notin {Server, Tables} /\ ConnectionUp(heap, Connection(c)) /\ IsHeap(heap) /\ ServerUp(heap)
  BY Apart DEF ConnectionObjects, Up, ConnectionPart
<1>3. /\ Clean(heap, heap', {Connection(c)}) /\ ConnectionUp(heap', Connection(c))
      /\ \A k : k \in {"realm", "nonce"} => Ref(heap', Connection(c), k) = Ref(heap, Connection(c), k)
  BY <1>1, <1>2, IncomingGives
<1> QED
  BY <1>1, <1>3, QuietConnection

LEMMA EndStep ==
  ASSUME NEW c \in Connections, Runs, Up(heap, held, reading), EndConnection(c)
  PROVE  Steps
<1>1. /\ heap' = CloseSockets(heap, Connection(c)) /\ Lives(heap, Connection(c), "our_socket")
      /\ held' = held /\ reading' = reading
  BY DEF EndConnection, KeepStream
<1>2. ConnectionUp(heap, Connection(c)) /\ IsHeap(heap)
  BY DEF ConnectionObjects, Up, ConnectionPart
<1>3. /\ Clean(heap, heap', {Connection(c)}) /\ ConnectionUp(heap', Connection(c))
      /\ \A k : Ref(heap', Connection(c), k) = Ref(heap, Connection(c), k)
  BY <1>1, <1>2, CloseSocketsGives
<1> QED
  BY <1>1, <1>3, QuietConnection

(* What a request finds when it is let in, or when it is not. *)
LEMMA OutcomeGives ==
  ASSUME NEW c \in Connections, NEW header, NEW outcome \in Outcomes(c, header),
         Up(heap, held, reading), Lives(heap, Connection(c), "our_socket")
  PROVE  /\ Clean(heap, outcome.heap, {Connection(c)}) /\ Up(outcome.heap, held, reading)
         /\ outcome.ok => Remembers(heap, outcome.heap)
         /\ outcome.ok /\ Ref(heap, Server, "auth_db") # Null =>
              /\ NamesChallenge(heap, Connection(c), header) /\ LookupPassword(heap, Field(header, "username"))
              /\ outcome.response = Field(header, "response")
<1>1. PICK digest, nonce : outcome = AuthenticationOk(heap, Connection(c), header, digest, nonce)
  BY DEF Outcomes
<1>2. ConnectionUp(heap, Connection(c)) /\ IsHeap(heap)
  BY DEF ConnectionObjects, Up, ConnectionPart
<1>3. /\ Clean(heap, outcome.heap, {Connection(c)}) /\ ConnectionUp(outcome.heap, Connection(c))
      /\ outcome.ok => \A k : Ref(outcome.heap, Connection(c), k) = Ref(heap, Connection(c), k)
      /\ outcome.ok /\ Ref(heap, Server, "auth_db") # Null =>
           /\ NamesChallenge(heap, Connection(c), header) /\ LookupPassword(heap, Field(header, "username"))
           /\ outcome.response = Field(header, "response")
  <2> DEFINE h == heap
             o == Connection(c)
             r == AuthenticationOk(h, o, header, digest, nonce)
  <2>1. IsHeap(h) /\ ConnectionUp(h, o) /\ Lives(h, o, "our_socket")
    BY <1>2
  <2> HIDE DEF h
  <2>2. /\ IsHeap(r.heap) /\ Clean(h, r.heap, {o}) /\ ConnectionUp(r.heap, o)
        /\ r.ok => \A k : Ref(r.heap, o, k) = Ref(h, o, k)
        /\ r.ok /\ Ref(h, Server, "auth_db") # Null =>
             /\ NamesChallenge(h, o, header) /\ LookupPassword(h, Field(header, "username"))
             /\ r.response = Field(header, "response")
    BY <2>1, AuthenticationGives
  <2> HIDE DEF r
  <2>3. outcome = r
    BY <1>1 DEF r, h
  <2> QED
    BY <2>2, <2>3 DEF h
<1>4. Up(outcome.heap, held, reading)
  BY <1>3, OneConnection
<1>5. ASSUME outcome.ok, NEW o \in ConnectionObjects, NEW k \in {"realm", "nonce"}
      PROVE  Ref(outcome.heap, o, k) = Ref(heap, o, k)
  <2>1. CASE o = Connection(c)
    BY <1>3, <1>5, <2>1
  <2>2. CASE o # Connection(c)
    BY <1>3, <2>2 DEF Clean, Same
  <2> QED
    BY <2>1, <2>2
<1> QED
  BY <1>3, <1>4, <1>5 DEF Remembers

(* Whoever is let in was told the challenge that the request names. *)
LEMMA AnswerKeepsInv ==
  ASSUME NEW c \in Connections, NEW header, NEW outcome \in Outcomes(c, header), NEW O,
         Told(heap), Up(heap, held, reading), Lives(heap, Connection(c), "our_socket"), Authenticated(c, header, outcome),
         Clean(outcome.heap, heap', O), O \cap ConnectionObjects = {}, O \cap UserObjects = {},
         Outcome(heap', held', reading')
  PROVE  IInv'
<1> DEFINE k == outcome.heap
           told(h) == [d \in Connections |-> [realm |-> Ref(h, Connection(d), "realm"), nonce |-> Ref(h, Connection(d), "nonce")]]
<1>1. /\ Clean(heap, k, {Connection(c)})
      /\ outcome.ok => Remembers(heap, k)
      /\ outcome.ok /\ Ref(heap, Server, "auth_db") # Null =>
           /\ NamesChallenge(heap, Connection(c), header) /\ LookupPassword(heap, Field(header, "username"))
           /\ outcome.response = Field(header, "response")
  BY OutcomeGives
<1>2. Remembers(k, heap')
  BY CleanRemembers
<1>t. challenge = told(heap)
  BY DEF Told
<1>a. /\ answer' = IF outcome.ok /\ Ref(heap, Server, "auth_db") # Null
                   THEN [ok |-> TRUE, connection |-> c, header |-> header,
                         our_response |-> outcome.response]
                   ELSE NoAnswer
      /\ challenge' = IF outcome.ok THEN challenge
                      ELSE [challenge EXCEPT ![c] = [realm |-> Ref(k, Connection(c), "realm"),
                                                     nonce |-> Ref(k, Connection(c), "nonce")]]
  BY DEF Authenticated
<1>o. \A d \in Connections : Connection(d) \in ConnectionObjects /\ (Connection(d) = Connection(c) => d = c)
  BY DEF ConnectionObjects, Connection
<1> HIDE DEF k
<1>3. challenge' = told(heap')
  <2>1. CASE outcome.ok
    <3>1. \A d \in Connections : /\ Ref(heap', Connection(d), "realm") = Ref(heap, Connection(d), "realm")
                                 /\ Ref(heap', Connection(d), "nonce") = Ref(heap, Connection(d), "nonce")
      BY <1>1, <1>2, <1>o, <2>1 DEF Remembers
    <3> QED
      BY <1>a, <1>t, <2>1, <3>1
  <2>2. CASE ~outcome.ok
    <3>1. \A d \in Connections : /\ Ref(heap', Connection(d), "realm") = Ref(k, Connection(d), "realm")
                                 /\ Ref(heap', Connection(d), "nonce") = Ref(k, Connection(d), "nonce")
      BY <1>2, <1>o DEF Remembers
    <3>2. \A d \in Connections : d # c =>
            /\ Ref(k, Connection(d), "realm") = Ref(heap, Connection(d), "realm")
            /\ Ref(k, Connection(d), "nonce") = Ref(heap, Connection(d), "nonce")
      BY <1>1, <1>o DEF Clean, Same
    <3> QED
      BY <1>a, <1>t, <2>2, <3>1, <3>2
  <2> QED
    BY <2>1, <2>2
<1>4. Told(heap)'
  BY <1>3 DEF Told
<1>5. ASSUME answer'.ok
      PROVE  LET heard == challenge'[answer'.connection]
             IN  /\ heard # NotTold
                 /\ Field(answer'.header, "realm") = heard.realm
                 /\ Field(answer'.header, "nonce") = heard.nonce
                 /\ Field(answer'.header, "username") \in UsersIn(heap')
                 /\ Field(answer'.header, "response") = answer'.our_response
                 /\ ~ParseAuthorizationHeader(answer'.header)
  <2>1. outcome.ok /\ Ref(heap, Server, "auth_db") # Null
    BY <1>5, <1>a DEF NoAnswer
  <2>2. /\ answer'.connection = c /\ answer'.header = header /\ challenge' = challenge
        /\ answer'.our_response = Field(header, "response")
    BY <1>1, <1>a, <2>1
  <2>3. challenge'[c] = [realm |-> Ref(heap, Connection(c), "realm"), nonce |-> Ref(heap, Connection(c), "nonce")]
    BY <1>t, <2>2
  <2>4. /\ Ref(heap, Connection(c), "nonce") # Null
        /\ Field(header, "realm") = Ref(heap, Connection(c), "realm")
        /\ Field(header, "nonce") = Ref(heap, Connection(c), "nonce")
        /\ ~ParseAuthorizationHeader(header)
    BY <1>1, <2>1 DEF NamesChallenge
  <2>5. challenge'[c] # NotTold
    BY <2>3, <2>4 DEF NotTold
  <2> DEFINE user == Field(header, "username")
  <2>6. Lives(heap, Password(user), "self")
    BY <1>1, <2>1 DEF LookupPassword
  <2> HIDE DEF user
  <2>7. user \in Users
    <3>1. Password(user) \in Objects
      BY <2>6 DEF Up, NoOther, Gone, Within
    <3> QED
      BY <3>1, UserNames
  <2>8. Password(user) \in UserObjects
    BY <2>7 DEF UserObjects
  <2>9. Password(user) # Connection(c)
    BY <1>o, <2>8, Mute
  <2>10. Lives(k, Password(user), "self")
    BY <1>1, <2>6, <2>9 DEF Clean, Same
  <2>11. Lives(heap', Password(user), "self")
    BY <2>8, <2>10 DEF Clean, Same, k
  <2>12. user \in UsersIn(heap')
    BY <2>7, <2>11 DEF UsersIn, LookupPassword
  <2> QED
    BY <2>2, <2>3, <2>4, <2>5, <2>12 DEF user
<1>6. AdmittedAsChallenged'
  BY <1>5 DEF AdmittedAsChallenged
<1>7. Runs' => (Up(heap, held, reading) \/ Down(heap, held, reading))'
  BY DEF Outcome, Runs
<1> QED
  BY <1>4, <1>6, <1>7, OutcomeReleases DEF IInv

LEMMA Names0 ==
  ASSUME NEW h, NEW has, NEW reads, Up(h, has, reads)
  PROVE  LookupServerMediaSession(h) \in {Null, Session}
BY DEF Up, SessionPart, SessionWith

LEMMA DescribeStep ==
  ASSUME NEW c \in Connections, NEW request, NEW header, Runs, Told(heap), Up(heap, held, reading),
         HandleCmdDescribe(c, request, header)
  PROVE  IInv'
<1> DEFINE url == ParseRtspRequestString(request)
           media == Lookup(url.pre \o url.suf)
<1>1. PICK outcome \in Outcomes(c, header) :
        /\ heap' = IF outcome.ok THEN DescribeSession(outcome.heap, media) ELSE outcome.heap
        /\ Authenticated(c, header, outcome)
  BY DEF HandleCmdDescribe
<1>2. Lives(heap, Connection(c), "our_socket") /\ held' = held /\ reading' = reading
  BY DEF HandleCmdDescribe, KeepStream
<1>3. /\ Clean(heap, outcome.heap, {Connection(c)}) /\ Up(outcome.heap, held, reading)
  BY <1>1, <1>2, OutcomeGives
<1>4. media \in {Null, Session} /\ (media = Session => LookupServerMediaSession(outcome.heap) = Session)
  <2>1. LookupServerMediaSession(heap) \in {Null, Session}
    BY Names0
  <2>2. media \in {Null, LookupServerMediaSession(heap)}
    BY DEF Lookup
  <2>3. Same(heap, outcome.heap, Server)
    BY <1>3, Mute DEF Clean, ConnectionObjects
  <2> QED
    BY <2>1, <2>2, <2>3, TrackNames DEF Same, LookupServerMediaSession
<1> HIDE DEF media, url
<1>5. Clean(outcome.heap, heap', Dummies \cup SessionObjects) /\ Up(heap', held', reading')
  <2>1. CASE outcome.ok
    BY <1>1, <1>2, <1>3, <1>4, <2>1, DescribeGives
  <2>2. CASE ~outcome.ok
    BY <1>1, <1>2, <1>3, <2>2, CleanSelf DEF Up
  <2> QED
    BY <2>1, <2>2
<1>6. heap'.faults \subseteq Harmless
  BY <1>3, <1>5 DEF Clean, Runs
<1>7. Outcome(heap', held', reading')
  BY <1>5, <1>6 DEF Outcome
<1> DEFINE O == Dummies \cup SessionObjects
<1>8. Clean(outcome.heap, heap', O) /\ O \cap ConnectionObjects = {} /\ O \cap UserObjects = {}
  BY <1>5, Apart
<1> HIDE DEF O
<1> QED
  BY <1>1, <1>2, <1>7, <1>8, AnswerKeepsInv

LEMMA FirstSetupGives ==
  ASSUME NEW h, NEW reads, NEW i \in Sessions, NEW url, Up(h, held, reads), \A b \in h.live : b[1] # ClientSession(i),
         LookupServerMediaSession(h) = LookupServerMediaSession(heap)
  PROVE  LET g == HandleCmdSetup(CreateNewClientSessionWithId(h, ClientSession(i)), ClientSession(i), url)
         IN  Clean(h, g, Own) /\ Up(g, held, reads)
<1> DEFINE o == ClientSession(i)
           k == CreateNewClientSessionWithId(h, o)
           g == HandleCmdSetup(k, o, url)
<1>1. o \in ClientObjects /\ \A b \in h.live : b[1] # o
  BY DEF ClientObjects
<1>2. Serves(h, held)
  BY UpServes
<1> HIDE DEF o
<1>3. /\ Clean(h, k, Own) /\ Serves(k, held) /\ o \in ClientSessions(k)
      /\ LookupServerMediaSession(k) = LookupServerMediaSession(h)
  BY <1>1, <1>2, CreateClientGives
<1> HIDE DEF k
<1>4. Clean(k, g, Own) /\ Serves(g, held)
  BY <1>3, SetupGives
<1> HIDE DEF g
<1>5. Clean(h, g, Own)
  BY <1>3, <1>4, CleanThen
<1>6. Up(g, held, reads)
  BY <1>4, <1>5, ServesUp
<1> QED
  BY <1>5, <1>6 DEF g, k, o

LEMMA SetupFirstStep ==
  ASSUME NEW c \in Connections, NEW i \in Sessions, NEW request, NEW header, Runs, Told(heap), Up(heap, held, reading),
         SetupFirst(c, i, request, header)
  PROVE  IInv'
<1> DEFINE url == ParseRtspRequestString(request)
<1>1. PICK outcome \in Outcomes(c, header) :
        /\ heap' = IF outcome.ok
                   THEN HandleCmdSetup(CreateNewClientSessionWithId(outcome.heap, ClientSession(i)), ClientSession(i), url)
                   ELSE outcome.heap
        /\ Authenticated(c, header, outcome)
  BY DEF SetupFirst
<1>2. /\ Lives(heap, Connection(c), "our_socket") /\ held' = held /\ reading' = reading
      /\ \A b \in heap.live : b[1] # ClientSession(i)
  BY DEF SetupFirst, KeepStream
<1> HIDE DEF url
<1>3. /\ Clean(heap, outcome.heap, {Connection(c)}) /\ Up(outcome.heap, held, reading)
  BY <1>1, <1>2, OutcomeGives
<1>4. LookupServerMediaSession(outcome.heap) = LookupServerMediaSession(heap)
  <2>1. Same(heap, outcome.heap, Server)
    BY <1>3, Mute DEF Clean, ConnectionObjects
  <2> QED
    BY <2>1 DEF Same, LookupServerMediaSession
<1>5. \A b \in outcome.heap.live : b[1] # ClientSession(i)
  <2>1. ClientSession(i) # Connection(c)
    BY DEF ClientSession, Connection
  <2>2. \A part : ~Lives(heap, ClientSession(i), part)
    BY <1>2 DEF Lives
  <2>3. \A part : ~Lives(outcome.heap, ClientSession(i), part)
    BY <1>3, <2>1, <2>2 DEF Clean, Same
  <2> QED
    BY <1>3, <2>3 DEF Up, IsHeap, Lives
<1>6. Clean(outcome.heap, heap', Own) /\ Up(heap', held', reading')
  <2>1. CASE outcome.ok
    BY <1>1, <1>2, <1>3, <1>4, <1>5, <2>1, FirstSetupGives
  <2>2. CASE ~outcome.ok
    BY <1>1, <1>2, <1>3, <2>2, CleanSelf DEF Up
  <2> QED
    BY <2>1, <2>2
<1>7. heap'.faults \subseteq Harmless
  BY <1>3, <1>6 DEF Clean, Runs
<1>8. Outcome(heap', held', reading')
  BY <1>6, <1>7 DEF Outcome
<1>9. Own \cap ConnectionObjects = {} /\ Own \cap UserObjects = {}
  BY Apart DEF Own
<1> QED
  BY <1>1, <1>2, <1>6, <1>8, <1>9, AnswerKeepsInv

(* What a request leaves to the server's own objects. *)
LEMMA OwnStep ==
  ASSUME Runs, Up(heap, held, reading), held' = held, reading' = reading, Clean(heap, heap', Own), Serves(heap', held)
  PROVE  Steps
<1>1. Up(heap', held', reading')
  BY ServesUp
<1>2. heap.faults \subseteq Harmless
  BY DEF Runs
<1> QED
  BY <1>1, <1>2, Mute, UpOutcome DEF Steps

LEMMA SetupAgainStep ==
  ASSUME NEW c \in Connections, NEW i \in Sessions, NEW request, Runs, Up(heap, held, reading), SetupAgain(c, i, request)
  PROVE  Steps
<1> DEFINE o == ClientSession(i)
           url == ParseRtspRequestString(request)
<1>1. /\ o \in ClientSessions(heap) /\ held' = held /\ reading' = reading
      /\ heap' = HandleCmdSetup(NoteLiveness(heap, o), o, url)
  BY DEF SetupAgain, KeepStream
<1> HIDE DEF o, url
<1>2. Lives(heap, o, "liveness_check_task") /\ Ref(heap, o, "our_server_media_session") \in {Null, Session}
  BY <1>1 DEF Up, ClientPart, ClientUp, ClientLeft
<1>3. Ref(heap, o, "our_server_media_session") = Session => Lives(heap, Session, "self")
  <2>1. Ref(heap, o, "our_server_media_session") = Session => Tied(heap) # {}
    BY <1>1 DEF Tied
  <2>2. Tied(heap) # {} => SessionUp(heap)
    BY DEF Up, SessionPart, SessionWith
  <2> QED
    BY <2>1, <2>2 DEF SessionUp, SessionParts
<1>4. NoteLiveness(heap, o) = heap
  BY <1>2, <1>3, TouchGives DEF NoteLiveness
<1>5. Clean(heap, heap', Own) /\ Serves(heap', held)
  <2>1. Serves(heap, held)
    BY UpServes
  <2> QED
    BY <1>1, <1>4, <2>1, SetupGives
<1> QED
  BY <1>1, <1>5, OwnStep

LEMMA TimeoutStep ==
  ASSUME NEW i \in Sessions, Runs, Up(heap, held, reading), LivenessTimeout(i)
  PROVE  Steps
<1> DEFINE o == ClientSession(i)
<1>1. /\ o \in ClientSessions(heap) /\ held' = held /\ reading' = reading /\ heap' = LivenessTimeoutTask(heap, o)
  BY DEF LivenessTimeout, KeepStream
<1> HIDE DEF o
<1>2. Serves(heap, held)
  BY UpServes
<1>3. Clean(heap, heap', Own) /\ Serves(heap', held)
  BY <1>1, <1>2, TimeoutGives
<1> QED
  BY <1>1, <1>3, OwnStep

LEMMA RemoveStep ==
  ASSUME Runs, Up(heap, held, reading), RemoveSession \/ CloseClients
  PROVE  Steps
<1>1. held' = held /\ reading' = reading /\ LookupServerMediaSession(heap) = Session /\ Serves(heap, held)
  BY UpServes DEF RemoveSession, CloseClients, KeepStream, Offered
<1>2. Clean(heap, heap', Own) /\ Serves(heap', held)
  <2>1. CASE RemoveSession
    BY <1>1, <2>1, RemoveOfferedGives DEF RemoveSession
  <2>2. CASE CloseClients
    BY <1>1, <2>2, CloseAllClientsGives DEF CloseClients
  <2> QED
    BY <2>1, <2>2
<1> QED
  BY <1>1, <1>2, OwnStep

(* The one step after which nothing runs any more. *)
LEMMA DeleteSessionStep ==
  ASSUME Runs, Told(heap), Up(heap, held, reading), DeleteSession
  PROVE  IInv'
<1>1. /\ held' = held /\ reading' = reading /\ LookupServerMediaSession(heap) = Session /\ Serves(heap, held)
      /\ heap.faults \subseteq Harmless /\ Forget /\ heap' = DeleteMediaSessionAndClients(heap, Session)
  BY UpServes DEF DeleteSession, KeepStream, Offered, Runs
<1>2. (Clean(heap, heap', Own) /\ Serves(heap', held)) \/ (Late(heap') /\ ~(heap'.faults \subseteq Harmless))
  BY <1>1, DeleteWithClientsGives
<1>3. CASE Clean(heap, heap', Own) /\ Serves(heap', held)
  BY <1>1, <1>3, OwnStep, ForgetKeepsInv DEF Steps
<1>4. CASE Late(heap') /\ ~(heap'.faults \subseteq Harmless)
  <2>1. ReleasedOnce'
    BY <1>4, OutcomeReleases DEF Outcome
  <2>2. AdmittedAsChallenged'
    BY <1>1 DEF Forget, NoAnswer, AdmittedAsChallenged
  <2>3. ~Runs'
    BY <1>4 DEF Runs
  <2> QED
    BY <2>1, <2>2, <2>3 DEF IInv
<1> QED
  BY <1>2, <1>3, <1>4

LEMMA UserStep ==
  ASSUME NEW user \in Users, Runs, Up(heap, held, reading), AddUser(user) \/ RemoveUser(user)
  PROVE  Steps
<1>1. /\ held' = held /\ reading' = reading /\ Lives(heap, Database, "self")
      /\ heap.faults \subseteq Harmless /\ IsHeap(heap) /\ DatabasePart(heap)
  BY DEF AddUser, RemoveUser, KeepStream, Runs, Up
<1>2. Clean(heap, heap', UserObjects) /\ DatabasePart(heap')
  <2>1. CASE AddUser(user)
    BY <1>1, <2>1, AddUserGives DEF AddUser
  <2>2. CASE RemoveUser(user)
    BY <1>1, <2>2, RemoveUserGives DEF RemoveUser
  <2> QED
    BY <2>1, <2>2
<1>3. Up(heap', held', reading')
  BY <1>1, <1>2, UpUsers
<1> QED
  BY <1>1, <1>2, <1>3, Mute, UpOutcome DEF Steps

LEMMA DatabaseStep ==
  ASSUME Runs, Up(heap, held, reading), (\E realm \in Realms : SetUpDatabase(realm)) \/ TakeDownDatabase
  PROVE  Steps
<1> DEFINE O == UserObjects \cup {Server}
<1>0. heap.faults \subseteq Harmless /\ IsHeap(heap) /\ DatabasePart(heap)
  BY DEF Runs, Up
<1>o. UserObjects \subseteq O /\ {Server} \subseteq O /\ O \cap ConnectionObjects = {}
  BY Mute
<1> HIDE DEF O
<1>1. ASSUME NEW realm \in Realms, SetUpDatabase(realm) PROVE Steps
  <2> DEFINE k == NewUserAuthenticationDatabase(heap, realm)
  <2>1. held' = held /\ reading' = reading /\ heap' = SetAuthenticationDatabase(k, Database)
    BY <1>1 DEF SetUpDatabase, KeepStream
  <2>2. Clean(heap, k, UserObjects) /\ DatabasePart(k)
    BY <1>0, NewDatabaseGives
  <2> HIDE DEF k
  <2>3. Up(k, held, reading)
    BY <2>2, UpUsers
  <2>4. Up(heap', held, reading) /\ Clean(k, heap', {Server})
    BY <2>1, <2>3, UpDatabase
  <2>5. Clean(heap, heap', O)
    BY <1>o, <2>2, <2>4, CleanTwice
  <2> QED
    BY <1>0, <1>o, <2>1, <2>4, <2>5, UpOutcome DEF Steps
<1>2. CASE TakeDownDatabase
  <2> DEFINE k == SetAuthenticationDatabase(heap, Null)
             users == UsersIn(heap)
  <2>1. /\ held' = held /\ reading' = reading /\ Lives(heap, Database, "self")
        /\ heap' = DeleteUserAuthenticationDatabase(k, users)
    BY <1>2 DEF TakeDownDatabase, KeepStream
  <2>2. Up(k, held, reading) /\ Clean(heap, k, {Server})
    BY UpDatabase
  <2>3. users \in SUBSET Users /\ \A user \in Users : Lives(heap, Password(user), "self") => user \in users
    BY DEF UsersIn, LookupPassword
  <2> HIDE DEF k, users
  <2>4. Database \notin {Server} /\ \A user \in Users : Password(user) \notin {Server}
    BY Apart DEF UserObjects
  <2>5. Lives(k, Database, "self") /\ \A user \in Users : LookupPassword(k, user) => user \in users
    BY <2>1, <2>2, <2>3, <2>4 DEF Clean, Same, LookupPassword
  <2>6. Clean(k, heap', UserObjects) /\ DatabasePart(heap')
    BY <2>1, <2>2, <2>3, <2>5, DeleteDatabaseGives DEF Up
  <2>7. Up(heap', held, reading)
    BY <2>2, <2>6, UpUsers
  <2>8. Clean(heap, heap', O)
    BY <1>o, <2>2, <2>6, CleanTwice
  <2> QED
    BY <1>0, <1>o, <2>1, <2>7, <2>8, UpOutcome DEF Steps
<1> QED
  BY <1>1, <1>2

------------------------------------------------------------------------------
(* The invariant and what follows from it. *)

LEMMA InitIInv == ClientsInit => IInv
<1> SUFFICES ASSUME ClientsInit PROVE IInv
  OBVIOUS
<1>1. heap = EmptyHeap /\ held = {} /\ reading = FALSE
  BY DEF ClientsInit, Init
<1>2. Bare(heap) /\ Down(heap, held, reading)
  BY <1>1, BareEmpty, BareDown
<1>3. Told(heap)
  BY <1>2 DEF ClientsInit, Told, NotTold, Bare
<1>4. ReleasedOnce
  BY <1>2 DEF Bare, ReleasedOnce, Runs, Kept
<1>5. AdmittedAsChallenged
  BY DEF ClientsInit, NoAnswer, AdmittedAsChallenged
<1> QED
  BY <1>2, <1>3, <1>4, <1>5 DEF IInv

LEMMA NextIInv == IInv /\ [Next]_allvars => IInv'
<1> SUFFICES ASSUME IInv, [Next]_allvars PROVE IInv'
  OBVIOUS
<1>1. CASE UNCHANGED allvars
  <2>1. UNCHANGED <<heap, held, reading, answer, challenge>>
    BY <1>1 DEF allvars, vars
  <2> QED
    BY <2>1 DEF IInv, Runs, Told, ReleasedOnce, AdmittedAsChallenged, Done, Offered
<1>2. CASE Alone
  <2>1. Told(heap) /\ (Up(heap, held, reading) \/ Down(heap, held, reading)) /\ Runs /\ Forget
    BY <1>2 DEF Alone, IInv
  <2>2. Steps
    BY <1>2, <2>1, SessionStep, StreamStep DEF Alone
  <2> QED
    BY <2>1, <2>2, ForgetKeepsInv DEF Steps
<1>3. CASE Clients
  <2>1. Told(heap) /\ Runs /\ Up(heap, held, reading)
    BY <1>3 DEF Clients, IInv, Down
  <2>2. ASSUME Steps, Forget PROVE IInv'
    BY <2>1, <2>2, ForgetKeepsInv DEF Steps
  <2>3. ASSUME NEW c \in Connections, AcceptConnection(c) \/ EndConnection(c) PROVE IInv'
    <3>1. Forget
      BY <2>3 DEF AcceptConnection, EndConnection
    <3> QED
      BY <2>1, <2>2, <2>3, <3>1, AcceptStep, EndStep
  <2>4. ASSUME NEW c \in Connections, NEW r \in Requests, NEW a \in Headers, HandleCmdDescribe(c, r, a) PROVE IInv'
    BY <2>1, <2>4, DescribeStep
  <2>5. ASSUME NEW c \in Connections, NEW i \in Sessions, NEW r \in Requests, NEW a \in Headers, SetupFirst(c, i, r, a)
        PROVE  IInv'
    BY <2>1, <2>5, SetupFirstStep
  <2>6. ASSUME NEW c \in Connections, NEW i \in Sessions, NEW r \in Requests, SetupAgain(c, i, r) PROVE IInv'
    <3>1. Forget
      BY <2>6 DEF SetupAgain
    <3> QED
      BY <2>1, <2>2, <2>6, <3>1, SetupAgainStep
  <2>7. ASSUME NEW i \in Sessions, LivenessTimeout(i) PROVE IInv'
    <3>1. Forget
      BY <2>7 DEF LivenessTimeout
    <3> QED
      BY <2>1, <2>2, <2>7, <3>1, TimeoutStep
  <2>8. CASE RemoveSession \/ CloseClients
    <3>1. Forget
      BY <2>8 DEF RemoveSession, CloseClients
    <3> QED
      BY <2>1, <2>2, <2>8, <3>1, RemoveStep
  <2>9. CASE DeleteSession
    BY <2>1, <2>9, DeleteSessionStep
  <2>10. CASE (\E realm \in Realms : SetUpDatabase(realm)) \/ TakeDownDatabase
    <3>1. Forget
      BY <2>10 DEF SetUpDatabase, TakeDownDatabase
    <3> QED
      BY <2>1, <2>2, <2>10, <3>1, DatabaseStep
  <2>11. ASSUME NEW user \in Users, AddUser(user) \/ RemoveUser(user) PROVE IInv'
    <3>1. Forget
      BY <2>11 DEF AddUser, RemoveUser
    <3> QED
      BY <2>1, <2>2, <2>11, <3>1, UserStep
  <2> QED
    BY <1>3, <2>3, <2>4, <2>5, <2>6, <2>7, <2>8, <2>9, <2>10, <2>11 DEF Clients
<1> QED
  BY <1>1, <1>2, <1>3 DEF Next

(* Every state of a server and its clients is as its parts are described.    *)
THEOREM ClientsAsDescribed == Spec => []IInv
<1>1. ClientsInit => IInv
  BY InitIInv
<1>2. IInv /\ [Next]_allvars => IInv'
  BY NextIInv
<1> QED
  BY <1>1, <1>2, PTL DEF Spec

(* Whatever fails and in whatever order clients come, SETUP, fall silent and  *)
(* are thrown out, no destructor (livemedia, the deinit functions) frees *)
(* or touches what is gone, but for the known places, and when all is done   *)
(* nothing stays that the program is not known to keep.                      *)
THEOREM NothingReleasedTwice == Spec => []ReleasedOnce
<1>1. IInv => ReleasedOnce
  BY DEF IInv
<1> QED
  BY <1>1, ClientsAsDescribed, PTL

(* While a database is set, authentication_ok() (rtsp_server.c) lets in only *)
(* who names a user of the database, the realm and the nonce that his own    *)
(* connection was told last, and the response that was computed, however     *)
(* requests, connections and changes of the database follow one another.     *)
THEOREM OnlyTheChallengedAdmitted == Spec => []AdmittedAsChallenged
<1>1. IInv => AdmittedAsChallenged
  BY DEF IInv
<1> QED
  BY <1>1, ClientsAsDescribed, PTL

------------------------------------------------------------------------------
(* The parameter sets of a stream. *)

(* The hypotheses about the readers of bits, ClocksRead and ProfilesRead, are *)
(* about recursive functions and stay with TLC.                              *)

(* Whoever holds a stream holds no session; a sink that asked for a unit, and *)
(* one whose source has seen a set, has its fragmenter between them.         *)
Copies(sets) == {Saved[s] : s \in sets}
SetsKept ==
  /\ given \in OwnSets \cup {NoSet} /\ clock \in SpsSets \cup {NoSet}
  /\ sps \in Copies(SpsSets) \cup {NoSet} /\ pps \in Copies(PpsSets) \cup {NoSet}
  /\ Session \in held => held = {Session}
  /\ Sink(Stream) \in held /\ (reading \/ sps # NoSet \/ pps # NoSet) => SinkBusy(heap)

RateKept ==
  clock = NoSet \/ Whole(clock) =>
    rate = IF clock = NoSet THEN NoRate ELSE <<clock.time_scale, 2 * clock.num_units_in_tick>>

LEMMA ClientsLeaveSets ==
  ASSUME Clients
  PROVE  /\ Sink(Stream) \notin held /\ held' = held
         /\ UNCHANGED <<sps, pps, rate, given, reading, fmtp, clock>>
<1>1. held' = held /\ KeepStream
  BY DEF Clients, AcceptConnection, EndConnection, HandleCmdDescribe, SetupFirst, SetupAgain, LivenessTimeout,
         RemoveSession, CloseClients, DeleteSession, SetUpDatabase, AddUser, RemoveUser, TakeDownDatabase
<1>2. Sink(Stream) \notin held
  BY DEF Clients, Played
<1> QED
  BY <1>1, <1>2 DEF KeepStream

LEMMA SessionLeavesSets ==
  ASSUME Runs, Up(heap, held, reading) \/ Down(heap, held, reading), SetsKept, SessionNext
  PROVE  /\ Sink(Stream) \notin held' /\ (Session \in held' => held' = {Session})
         /\ UNCHANGED <<sps, pps, rate, given, reading, fmtp, clock>>
<1>0. Session # Sink(Stream)
  BY StreamNames
<1>1. CASE CreateServer
  <2>1. heap = EmptyHeap /\ held' = held /\ Unchanged
    BY <1>1 DEF CreateServer
  <2>2. Down(heap, held, reading)
    <3>1. heap.listed = {}
      BY <2>1 DEF EmptyHeap
    <3> QED
      BY <3>1 DEF Up, ServerUp
  <2>3. held = {}
    BY <2>2 DEF Down
  <2> QED
    BY <2>1, <2>3 DEF Unchanged
<1>2. CASE CreateSession
  BY <1>0, <1>2 DEF CreateSession, Unchanged
<1>3. CASE CloseSession
  BY <1>0, <1>3 DEF CloseSession, Unchanged, Holds, SetsKept
<1>4. CASE AddSession
  BY <1>0, <1>4 DEF AddSession, Unchanged, Holds, SetsKept
<1> QED
  BY <1>1, <1>2, <1>3, <1>4 DEF SessionNext

(* The fragmenter stays where it is until the sink is closed. *)
LEMMA StaysBusy ==
  ASSUME NEW h, NEW g, NEW O, SinkBusy(h), Clean(h, g, O), O \cap {Sink(Stream), Fragmenter(Stream)} = {}
  PROVE  SinkBusy(g)
<1>1. Same(h, g, Sink(Stream)) /\ Same(h, g, Fragmenter(Stream))
  BY DEF Clean
<1> QED
  BY <1>1, StreamPieces

LEMMA StreamKeepsSets ==
  ASSUME Runs, Up(heap, held, reading), SetsKept, StreamNext
  PROVE  SetsKept'
<1> DEFINE busy == Sink(Stream) \in held' /\ (reading' \/ sps' # NoSet \/ pps' # NoSet) => SinkBusy(heap')
           kinds == /\ given' \in OwnSets \cup {NoSet} /\ clock' \in SpsSets \cup {NoSet}
                    /\ sps' \in Copies(SpsSets) \cup {NoSet} /\ pps' \in Copies(PpsSets) \cup {NoSet}
           single == Session \in held' => held' = {Session}
<1>0. /\ Session \notin {Framer(Stream), Groupsock(Stream), Sink(Stream), Rtcp(Stream)} /\ IsHeap(heap)
      /\ reading => Sink(Stream) \in held
  BY StreamNames DEF Up, StreamPart
<1>k. kinds
  BY DEF SetsKept, Copies, StreamNext, CreateStream, CreateRtcp, Play, AuxSdpLine, Stop, SeeSps, SeePps, SeeOther, CloseRtcp,
         CloseSink, DeleteGroupsock, CloseStreamSource, Unchanged
<1>s. single
  BY <1>0 DEF SetsKept, StreamNext, CreateStream, CreateRtcp, Play, AuxSdpLine, Stop, SeeSps, SeePps, SeeOther, CloseRtcp,
         CloseSink, DeleteGroupsock, CloseStreamSource, Unchanged, Holds
<1>q. SUFFICES busy
  <2> HIDE DEF kinds, single, busy
  <2>1. kinds /\ single /\ (busy => SetsKept')
    BY <1>k, <1>s DEF kinds, single, busy, SetsKept
  <2> QED
    BY <2>1
<1> HIDE DEF kinds, single
<1>1. CASE CreateStream
  BY <1>1 DEF CreateStream
<1>2. CASE CreateRtcp
  <2>1. /\ Sink(Stream) \in held /\ Rtcp(Stream) \notin held /\ Unchanged
        /\ heap' = NewRtcpInstance(heap, Rtcp(Stream), Groupsock(Stream), Sink(Stream))
    BY <1>2 DEF CreateRtcp, Holds
  <2>2. /\ IsHeap(heap) /\ TablesUp(heap) /\ Lives(heap, Groupsock(Stream), "self") /\ Gone(heap, Rtcp(Stream), {})
    BY <2>1, WithSink
  <2>3. Clean(heap, heap', {Rtcp(Stream)})
    BY <2>1, <2>2, MakeRtcpOfStream
  <2>4. SinkBusy(heap) => SinkBusy(heap')
    BY <2>3, StaysBusy, StreamNames
  <2> QED
    BY <2>1, <2>4 DEF SetsKept, Unchanged
<1>3. CASE Play
  <2>1. /\ Sink(Stream) \in held /\ Ref(heap, Sink(Stream), "source") = Null
        /\ heap' = ByteStreamFileSourceRead(
                     StartPlaying(heap, Sink(Stream), Framer(Stream), Fragmenter(Stream)), File(Stream))
    BY <1>3 DEF Play, Holds
  <2>2. SinkBusy(heap')
    BY <2>1, WithSink, PlayGives
  <2> QED
    BY <2>2
<1>4. CASE AuxSdpLine
  <2>1. /\ Sink(Stream) \in held /\ held' = held /\ UNCHANGED <<sps, pps, reading>>
        /\ \/ heap' = heap
           \/ heap' = Make(FreeIf(heap, Sink(Stream), "fmtp_sdp_line"), Sink(Stream), {"fmtp_sdp_line"})
    BY <1>4 DEF AuxSdpLine, Holds
  <2>2. SinkBusy(heap) => SinkBusy(heap')
    BY <2>1, WithSink, LineGives
  <2> QED
    BY <2>1, <2>2 DEF SetsKept
<1>5. CASE Stop
  <2>1. Sink(Stream) \in held /\ heap' = StopPlaying(heap, Sink(Stream)) /\ held' = held /\ reading' = FALSE
        /\ UNCHANGED <<sps, pps>>
    BY <1>5 DEF Stop, Holds
  <2>2. SinkBusy(heap) => SinkBusy(heap')
    BY <2>1, WithSink, StopGives
  <2> QED
    BY <2>1, <2>2 DEF SetsKept
<1>6. ASSUME NEW part \in Seen, reading, held' = held,
             heap' = Make(FreeIf(Touch(heap, Parser(Stream), "self"), Framer(Stream), part), Framer(Stream), {part})
      PROVE  busy
  <2>1. Sink(Stream) \in held /\ SinkBusy(heap)
    BY <1>0, <1>6 DEF SetsKept
  <2>2. Clean(heap, heap', {Framer(Stream)})
    BY <1>6, <2>1, WithSink, SaveGives
  <2>3. SinkBusy(heap')
    BY <2>1, <2>2, StaysBusy, StreamNames
  <2> QED
    BY <2>3
<1>7. ASSUME NEW s \in SpsSets, SeeSps(s) PROVE busy
  <2> HIDE DEF busy
  <2> QED
    BY <1>6, <1>7 DEF SeeSps, SaveCopyOfSps, Seen
<1>8. ASSUME NEW s \in PpsSets, SeePps(s) PROVE busy
  <2> HIDE DEF busy
  <2> QED
    BY <1>6, <1>8 DEF SeePps, SaveCopyOfPps, Seen
<1>9. CASE SeeOther
  BY <1>9 DEF SeeOther, SetsKept
<1>10. CASE CloseRtcp
  <2>1. Rtcp(Stream) \in held /\ heap' = CloseMedium(heap, Rtcp(Stream)) /\ held' = held \ {Rtcp(Stream)} /\ Unchanged
    BY <1>10 DEF CloseRtcp, Holds
  <2>2. Sink(Stream) \in held
    BY <2>1 DEF Up, StreamPart
  <2>3. /\ IsHeap(heap) /\ Server \in heap.listed /\ Lives(heap, Groupsock(Stream), "self")
        /\ RtcpUp(heap, Rtcp(Stream), Groupsock(Stream)) /\ Within(heap, Rtcp(Stream), RtcpParts)
    BY <2>1, <2>2, WithSink
  <2>4. Clean(heap, heap', {Rtcp(Stream)})
    BY <2>1, <2>3, CloseRtcpOfStream
  <2>5. SinkBusy(heap) => SinkBusy(heap')
    BY <2>4, StaysBusy, StreamNames
  <2> QED
    BY <2>1, <2>2, <2>5 DEF SetsKept, Unchanged
<1>11. CASE CloseSink
  BY <1>11 DEF CloseSink
<1>12. CASE DeleteGroupsock
  BY <1>12 DEF DeleteGroupsock, Holds
<1>13. CASE CloseStreamSource
  BY <1>13 DEF CloseStreamSource, Holds
<1> QED
  BY <1>1, <1>2, <1>3, <1>4, <1>5, <1>7, <1>8, <1>9, <1>10, <1>11, <1>12, <1>13 DEF StreamNext

LEMMA InitSetsKept == ClientsInit => SetsKept /\ RateKept
BY DEF ClientsInit, Init, SetsKept, RateKept

LEMMA NextSetsKept == IInv /\ SetsKept /\ [Next]_allvars => SetsKept'
<1> SUFFICES ASSUME IInv, SetsKept, [Next]_allvars PROVE SetsKept'
  OBVIOUS
<1>1. CASE UNCHANGED allvars
  BY <1>1 DEF allvars, vars, SetsKept
<1>2. ASSUME Next PROVE Runs /\ (Up(heap, held, reading) \/ Down(heap, held, reading))
  BY <1>2 DEF Next, Alone, Clients, IInv
<1>3. CASE Clients
  <2>1. Runs /\ Up(heap, held, reading)
    BY <1>2, <1>3 DEF Next, Clients, Down
  <2> QED
    BY <1>3, <2>1, ClientsLeaveSets DEF SetsKept
<1>4. CASE Alone /\ SessionNext
  <2>1. Runs /\ (Up(heap, held, reading) \/ Down(heap, held, reading))
    BY <1>2, <1>4 DEF Next
  <2> QED
    BY <1>4, <2>1, SessionLeavesSets DEF SetsKept
<1>5. CASE Alone /\ StreamNext
  <2>1. Runs /\ (Up(heap, held, reading) \/ Down(heap, held, reading))
    BY <1>2, <1>5 DEF Next
  <2>2. Lives(heap, Server, "self") \/ held # {} \/ reading
    BY <1>5 DEF StreamNext, CreateStream, CreateRtcp, Play, AuxSdpLine, Stop, SeeSps, SeePps, SeeOther, CloseRtcp,
           CloseSink, DeleteGroupsock, CloseStreamSource, Holds
  <2>3. Up(heap, held, reading)
    BY <2>1, <2>2 DEF Down
  <2> QED
    BY <1>5, <2>1, <2>3, StreamKeepsSets
<1> QED
  BY <1>1, <1>3, <1>4, <1>5 DEF Next, Alone

LEMMA NextRateKept == ASSUME ClocksRead PROVE SetsKept /\ RateKept /\ [Next]_allvars => RateKept'
<1> SUFFICES ASSUME SetsKept, RateKept, [Next]_allvars PROVE RateKept'
  OBVIOUS
<1>1. CASE UNCHANGED <<rate, clock>>
  BY <1>1 DEF RateKept
<1>2. CASE rate' = NoRate /\ clock' = NoSet
  BY <1>2 DEF RateKept
<1>3. ASSUME NEW s \in SpsSets, SeeSps(s) PROVE RateKept'
  <2>1. /\ rate' = ParsedFrameRate(rate, Timing[s])
        /\ clock' = IF clock = NoSet /\ (HasClock(s) \/ ~Whole(s)) THEN s ELSE clock
    BY <1>3 DEF SeeSps
  <2>2. s.num_units_in_tick \in Nat /\ s.time_scale \in Nat /\ s # NoSet
    <3>1. s \in [unit : Units, num_units_in_tick : Nat, time_scale : Nat, profile : Seq(0 .. 255)]
      BY DescriptionAssumption
    <3>2. s.unit # << >>
      BY <3>1 DEF Units
    <3> QED
      BY <3>1, <3>2 DEF NoSet
  <2>3. CASE clock = NoSet /\ ~Whole(s)
    <3>1. clock' = s
      BY <2>1, <2>3
    <3> QED
      BY <2>2, <2>3, <3>1 DEF RateKept
  <2>4. CASE Whole(s) \/ clock # NoSet
    <3>1. CASE clock # NoSet /\ ~Whole(clock)
      BY <2>1, <3>1 DEF RateKept
    <3>2. CASE clock # NoSet /\ Whole(clock)
      <4>1. rate = <<clock.time_scale, 2 * clock.num_units_in_tick>> /\ clock' = clock
        BY <2>1, <3>2 DEF RateKept
      <4>2. clock.num_units_in_tick \in Nat
        BY <3>2, DescriptionAssumption DEF SetsKept
      <4>3. 2 * clock.num_units_in_tick # 1
        BY <4>2
      <4>4. rate # NoRate
        BY <4>1, <4>3 DEF NoRate
      <4> QED
        BY <2>1, <3>2, <4>1, <4>4 DEF RateKept, ParsedFrameRate
    <3>3. CASE clock = NoSet /\ Whole(s)
      <4>1. Timing[s] = [num_units_in_tick |-> s.num_units_in_tick, time_scale |-> s.time_scale]
        BY <3>3 DEF ClocksRead
      <4>2. rate' = IF rate # NoRate \/ s.num_units_in_tick = 0 \/ s.time_scale = 0 THEN rate
                    ELSE <<s.time_scale, 2 * s.num_units_in_tick>>
        BY <2>1, <4>1 DEF ParsedFrameRate
      <4>3. HasClock(s) <=> ~ (s.num_units_in_tick = 0 \/ s.time_scale = 0)
        BY <2>2 DEF HasClock
      <4>4. rate = NoRate
        BY <3>3 DEF RateKept
      <4>5. clock' = IF HasClock(s) THEN s ELSE clock
        BY <2>1, <3>3
      <4> QED
        BY <2>2, <3>3, <4>2, <4>3, <4>4, <4>5 DEF RateKept
    <3> QED
      BY <2>4, <3>1, <3>2, <3>3
  <2> QED
    BY <2>3, <2>4
<1>4. \/ UNCHANGED <<rate, clock>>
      \/ rate' = NoRate /\ clock' = NoSet
      \/ \E s \in SpsSets : SeeSps(s)
  <2>1. CASE Clients
    <3>1. KeepStream
      BY <2>1 DEF Clients, AcceptConnection, EndConnection, HandleCmdDescribe, SetupFirst, SetupAgain, LivenessTimeout,
             RemoveSession, CloseClients, DeleteSession, SetUpDatabase, AddUser, RemoveUser, TakeDownDatabase
    <3> QED
      BY <3>1 DEF KeepStream
  <2>2. CASE SessionNext
    BY <2>2 DEF SessionNext, CreateServer, CreateSession, CloseSession, AddSession, Unchanged
  <2>3. CASE StreamNext
    BY <2>3 DEF StreamNext, CreateStream, CreateRtcp, Play, AuxSdpLine, Stop, SeePps, SeeOther, CloseRtcp,
           CloseSink, DeleteGroupsock, CloseStreamSource, Unchanged
  <2> QED
    BY <2>1, <2>2, <2>3 DEF Next, Alone, allvars, vars
<1> QED
  BY <1>1, <1>2, <1>3, <1>4

(* A set that a program has, or the copy of one. *)
SpsKnown == SpsSets \cup Copies(SpsSets)
PpsKnown == PpsSets \cup Copies(PpsSets)

LEMMA KnownSets ==
  ASSUME ProfilesRead
  PROVE  /\ \A s \in SpsKnown :
              /\ s # NoSet /\ s.unit \in Units
              /\ LET web == RemoveEmulationBytes(Len(s.unit), s.unit)
                 IN  Len(web) >= 4 /\ SubSeq(web, 2, 4) = s.profile
         /\ \A p \in PpsKnown : p # NoSet /\ p.unit \in Units
<1> DEFINE Reads(unit, profile) == LET web == RemoveEmulationBytes(Len(unit), unit)
                                   IN  Len(web) >= 4 /\ SubSeq(web, 2, 4) = profile
<1>1. \A s \in SpsSets : Reads(s.unit, s.profile) /\ Reads(SavedUnit(s.unit), s.profile)
  BY DEF ProfilesRead
<1> HIDE DEF Reads
<1>2. \A s \in SpsSets \cup PpsSets : SavedUnit(s.unit) \in Units /\ s.unit \in Units
  BY DescriptionAssumption DEF ProfilesRead
<1>3. \A s : s.unit \in Units => s # NoSet
  BY DEF NoSet, Units
<1>4. \A s \in SpsSets : Saved[s].unit = SavedUnit(s.unit) /\ Saved[s].profile = s.profile
  <2> SUFFICES ASSUME NEW s \in SpsSets
               PROVE  Saved[s].unit = SavedUnit(s.unit) /\ Saved[s].profile = s.profile
    OBVIOUS
  <2>1. s \in [unit : Units, num_units_in_tick : Nat, time_scale : Nat, profile : Seq(0 .. 255)]
    BY DescriptionAssumption
  <2>2. Saved[s] = [s EXCEPT !.unit = SavedUnit(s.unit)]
    BY DEF Saved
  <2> QED
    BY <2>1, <2>2
<1>5. \A p \in PpsSets : Saved[p].unit = SavedUnit(p.unit)
  <2> SUFFICES ASSUME NEW p \in PpsSets PROVE Saved[p].unit = SavedUnit(p.unit)
    OBVIOUS
  <2>1. p \in [unit : Units]
    BY DescriptionAssumption
  <2>2. Saved[p] = [p EXCEPT !.unit = SavedUnit(p.unit)]
    BY DEF Saved
  <2> QED
    BY <2>1, <2>2
<1>6. \A s \in SpsKnown : s # NoSet /\ s.unit \in Units /\ Reads(s.unit, s.profile)
  BY <1>1, <1>2, <1>3, <1>4 DEF SpsKnown, Copies
<1>7. \A p \in PpsKnown : p # NoSet /\ p.unit \in Units
  BY <1>2, <1>3, <1>5 DEF PpsKnown, Copies
<1> QED
  BY <1>6, <1>7 DEF Reads

(* The line that is written from two sets. *)
LEMMA FmtpLineGives ==
  ASSUME ProfilesRead, NEW s \in SpsKnown, NEW p \in PpsKnown
  PROVE  LET line == FmtpLine([sps |-> s.unit, pps |-> p.unit])
         IN  /\ line # NoLine /\ ParseSPropParameterSets(line.sprop) = <<s.unit, p.unit>>
             /\ line.profile_level_id = s.profile
<1> DEFINE sets == [sps |-> s.unit, pps |-> p.unit]
           web == RemoveEmulationBytes(Len(s.unit), s.unit)
           text == Base64Encode(s.unit) \o <<Comma>> \o Base64Encode(p.unit)
<1>1. s.unit \in Units /\ p.unit \in Units
  BY KnownSets
<1>2. s.unit # << >> /\ p.unit # << >> /\ s.unit \in Seq(Bytes) /\ p.unit \in Seq(Bytes)
  BY <1>1 DEF Units, Bytes
<1>3. Len(web) >= 4 /\ SubSeq(web, 2, 4) = s.profile
  BY KnownSets
<1>4. sets.sps = s.unit /\ sets.pps = p.unit
  OBVIOUS
<1>5. ~ (Len(web) < 4)
  BY <1>3
<1>6. ParseSPropParameterSets(text) = <<s.unit, p.unit>>
  BY <1>2, ParseGives
<1> HIDE DEF web, sets, text
<1>7. FmtpLine(sets) = [profile_level_id |-> SubSeq(web, 2, 4), sprop |-> text]
  BY <1>2, <1>4, <1>5 DEF FmtpLine, web, text
<1>8. FmtpLine(sets) # NoLine
  <2>1. "sprop" \in DOMAIN FmtpLine(sets)
    BY <1>7
  <2>2. "sprop" \notin DOMAIN NoLine
    BY DEF NoLine
  <2> QED
    BY <2>1, <2>2
<1>9. FmtpLine(sets).sprop = text /\ FmtpLine(sets).profile_level_id = s.profile
  BY <1>3, <1>7
<1> QED
  BY <1>6, <1>8, <1>9 DEF sets

LEMMA NextDescribed ==
  ASSUME ProfilesRead
  PROVE  IInv /\ SetsKept /\ ParameterSetsDescribed /\ [Next]_allvars => ParameterSetsDescribed'
<1> SUFFICES ASSUME IInv, SetsKept, ParameterSetsDescribed, [Next]_allvars PROVE ParameterSetsDescribed'
  OBVIOUS
<1>1. CASE fmtp' = fmtp
  BY <1>1 DEF ParameterSetsDescribed
<1>2. CASE fmtp' = NotAsked
  BY <1>2 DEF ParameterSetsDescribed, NotAsked
<1>3. CASE Runs /\ AuxSdpLine
  <2> DEFINE sets == VpsSpsPps(heap)
             s == IF given = NoSet THEN sps ELSE given.sps
             p == IF given = NoSet THEN pps ELSE given.pps
  <2>1. Sink(Stream) \in held /\ fmtp' = [line |-> FmtpLine(sets), sps |-> s, pps |-> p]
    BY <1>3 DEF AuxSdpLine, Holds
  <2>2. s \in SpsKnown \cup {NoSet} /\ p \in PpsKnown \cup {NoSet}
    <3>1. given # NoSet => given.sps \in SpsSets /\ given.pps \in PpsSets
      BY DescriptionAssumption DEF SetsKept
    <3> QED
      BY <3>1 DEF SetsKept, SpsKnown, PpsKnown
  <2>3. NoSet.unit = << >>
    BY DEF NoSet
  <2>4. sets = [sps |-> s.unit, pps |-> p.unit]
    <3>1. CASE given # NoSet
      BY <3>1 DEF VpsSpsPps
    <3>2. CASE given = NoSet /\ sps = NoSet /\ pps = NoSet
      BY <2>3, <3>2 DEF VpsSpsPps
    <3>3. CASE given = NoSet /\ (sps # NoSet \/ pps # NoSet)
      <4>1. SinkBusy(heap)
        BY <2>1, <3>3 DEF SetsKept
      <4>2. Ref(heap, Sink(Stream), "our_fragmenter") # Null /\ Ref(heap, Fragmenter(Stream), "input_source") # Null
        BY <4>1, Names DEF SinkBusy, FragmenterUp
      <4> QED
        BY <3>3, <4>2 DEF VpsSpsPps
    <3> QED
      BY <3>1, <3>2, <3>3
  <2> HIDE DEF sets, s, p
  <2>5. CASE s = NoSet \/ p = NoSet
    <3>1. sets.sps = << >> \/ sets.pps = << >>
      BY <2>3, <2>4, <2>5
    <3>2. FmtpLine(sets) = NoLine
      BY <3>1 DEF FmtpLine
    <3> QED
      BY <2>1, <2>5, <3>2 DEF ParameterSetsDescribed
  <2>6. CASE s # NoSet /\ p # NoSet
    <3>1. s \in SpsKnown /\ p \in PpsKnown
      BY <2>2, <2>6
    <3> DEFINE line == FmtpLine(sets)
    <3>2. /\ line # NoLine /\ ParseSPropParameterSets(line.sprop) = <<s.unit, p.unit>>
          /\ line.profile_level_id = s.profile
      BY <2>4, <3>1, FmtpLineGives
    <3>3. fmtp'.line = line /\ fmtp'.sps = s /\ fmtp'.pps = p
      BY <2>1
    <3> HIDE DEF line
    <3> QED
      BY <2>6, <3>2, <3>3 DEF ParameterSetsDescribed
  <2> QED
    BY <2>5, <2>6
<1>4. fmtp' = fmtp \/ fmtp' = NotAsked \/ (Runs /\ AuxSdpLine)
  <2>1. CASE Clients
    <3>1. KeepStream
      BY <2>1 DEF Clients, AcceptConnection, EndConnection, HandleCmdDescribe, SetupFirst, SetupAgain, LivenessTimeout,
             RemoveSession, CloseClients, DeleteSession, SetUpDatabase, AddUser, RemoveUser, TakeDownDatabase
    <3> QED
      BY <3>1 DEF KeepStream
  <2>2. CASE SessionNext
    BY <2>2 DEF SessionNext, CreateServer, CreateSession, CloseSession, AddSession, Unchanged
  <2>3. CASE Runs /\ StreamNext
    BY <2>3 DEF StreamNext, CreateStream, CreateRtcp, Play, Stop, SeeSps, SeePps, SeeOther, CloseRtcp,
           CloseSink, DeleteGroupsock, CloseStreamSource, Unchanged
  <2> QED
    BY <2>1, <2>2, <2>3 DEF Next, Alone, allvars, vars
<1> QED
  BY <1>1, <1>2, <1>3, <1>4

(* However often a stream is made, played, stopped and closed, beside         *)
(* sessions and before clients: while it has a sink and its framer has seen   *)
(* a parameter set, the way from the sink to the framer is there.             *)
THEOREM SetsStayKnown == Spec => []SetsKept
<1>1. ClientsInit => SetsKept
  BY InitSetsKept
<1>2. IInv /\ SetsKept /\ [Next]_allvars => SetsKept'
  BY NextSetsKept
<1> QED
  BY <1>1, <1>2, ClientsAsDescribed, PTL DEF Spec

(* If the analysis of a set that was saved whole                              *)
(* (analyze_seq_parameter_set_data) reads the clock that the encoder wrote,   *)
(* the frame rate of a framer is that of the first set with a clock that it   *)
(* saw, whatever sets follow and how often it is stopped, and 25 until then   *)
(* and in the next framer - unless a set that was not saved whole came first. *)
THEOREM RateIsTheFirstClocks == ASSUME ClocksRead PROVE Spec => []TimingAsWritten
<1>1. ClientsInit => RateKept
  BY InitSetsKept
<1>2. SetsKept /\ RateKept /\ [Next]_allvars => RateKept'
  BY NextRateKept
<1>3. RateKept => TimingAsWritten
  BY DEF RateKept, TimingAsWritten
<1> QED
  BY <1>1, <1>2, <1>3, SetsStayKnown, PTL DEF Spec

(* If without escapes the profile follows the header of each set and copy,    *)
(* the line "a=fmtp" (aux_sdp_line in h264_video_rtp_sink.c) is there when    *)
(* both sets are known, and who takes it apart (parse_s_prop_parameter_sets)  *)
(* gets, byte for byte, the sets that were given or the copies that the       *)
(* framer saved last (save_copy_of_sps, save_copy_of_pps), of any length and  *)
(* content; where such a copy is not what the encoder wrote, neither is what  *)
(* the reader gets.                                                           *)
THEOREM ReadersGetTheSets == ASSUME ProfilesRead PROVE Spec => []ParameterSetsDescribed
<1>1. ClientsInit => ParameterSetsDescribed
  BY DEF ClientsInit, Init, NotAsked, ParameterSetsDescribed
<1>2. IInv /\ SetsKept /\ ParameterSetsDescribed /\ [Next]_allvars => ParameterSetsDescribed'
  BY NextDescribed
<1> QED
  BY <1>1, <1>2, ClientsAsDescribed, SetsStayKnown, PTL DEF Spec
===============================================================================
