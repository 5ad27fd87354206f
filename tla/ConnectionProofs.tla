--------------------------- MODULE ConnectionProofs ---------------------------
(***************************************************************************)
(* The safety of the connections of the clients.                           *)
(*                                                                         *)
(* First the requests of a connection, for every client, every size of the *)
(* buffer and every value left over: its contexts are counted and its      *)
(* socket is closed once; and with nothing left over, patient clients are  *)
(* answered in order and eager ones are not forgotten.                     *)
(*                                                                         *)
(* Then what is streamed over the connections, for sessions, tracks and    *)
(* sockets of any number and channel numbers of any width: two tracks of a *)
(* session never get the same interleaved channel from the server before   *)
(* the count comes round, and the table of the server and the states of    *)
(* the sessions agree on what is streamed over which socket.               *)
(***************************************************************************)
EXTENDS RtspConnection, TcpStreaming, FiniteSetTheorems, SequenceTheorems, WellFoundedInduction, TLAPS

(* The requests of the client. *)
Text(r) == client.requests[r].text
Body(r) == client.requests[r].body
Size(r) == 5 + Text(r) + Body(r)

Kinds == {"start", "text", "CR", "LF", "body", "blank"}
Cells == Kinds \X (Requests \cup {0})

(* The first n bytes of the buffer, from place p on, are those of request r. *)
Holds(buffer, p, r, n) == \A i \in 1 .. n : buffer[p + i - 1] = RequestBytes(r)[i]

------------------------------------------------------------------------------
(* What the client sends. *)

LEMMA RequestsTyped ==
  ASSUME client \in Clients
  PROVE  /\ client.patient \in BOOLEAN /\ Len(client.requests) \in Nat
         /\ \A r \in Requests : Text(r) \in Nat /\ Body(r) \in Nat /\ Size(r) \in Nat
<1>1. client.requests \in Seq([text : Nat, body : Nat, answers : BOOLEAN]) /\ client.patient \in BOOLEAN
  BY ClientsAssumption
<1> DEFINE S == [text : Nat, body : Nat, answers : BOOLEAN]
           requests == client.requests
<1>2. \A r \in 1 .. Len(requests) : requests[r] \in S
  <2>1. requests \in Seq(S)
    BY <1>1
  <2> HIDE DEF requests, S
  <2> QED
    BY <2>1
<1>3. \A r \in Requests : client.requests[r].text \in Nat /\ client.requests[r].body \in Nat
  BY <1>2 DEF Requests
<1>4. Len(requests) \in Nat
  <2>1. requests \in Seq(S)
    BY <1>1
  <2> HIDE DEF requests, S
  <2> QED
    BY <2>1
<1>5. \A r \in Requests : Text(r) \in Nat /\ Body(r) \in Nat
  BY <1>3 DEF Text, Body
<1>6. \A r \in Requests : Size(r) \in Nat
  BY <1>5 DEF Size
<1> QED
  BY <1>1, <1>4, <1>5, <1>6

LEMMA Joined ==
  ASSUME NEW S, NEW s \in Seq(S), NEW u \in Seq(S)
  PROVE  /\ s \o u \in Seq(S) /\ Len(s \o u) = Len(s) + Len(u)
         /\ \A i \in 1 .. Len(s) : (s \o u)[i] = s[i]
         /\ \A i \in 1 .. Len(u) : (s \o u)[Len(s) + i] = u[i]
OBVIOUS

(* The bytes of a request, one by one. *)
BytesAre(s, r) ==
  /\ s \in Seq(Cells) /\ Len(s) = Size(r)
  /\ s[1] = <<"start", r>>
  /\ \A i \in 2 .. Text(r) + 1 : s[i] = <<"text", r>>
  /\ s[Text(r) + 2] = <<"CR", r>> /\ s[Text(r) + 3] = <<"LF", r>>
  /\ s[Text(r) + 4] = <<"CR", r>> /\ s[Text(r) + 5] = <<"LF", r>>
  /\ \A i \in Text(r) + 6 .. Size(r) : s[i] = <<"body", r>>

LEMMA RequestBytesAre ==
  ASSUME client \in Clients, NEW r \in Requests
  PROVE  BytesAre(RequestBytes(r), r)
<1> DEFINE T == Text(r)
           B == Body(r)
           a == <<<<"start", r>>>>
           t == [i \in 1 .. T |-> <<"text", r>>]
           e == <<<<"CR", r>>, <<"LF", r>>, <<"CR", r>>, <<"LF", r>>>>
           b == [i \in 1 .. B |-> <<"body", r>>]
<1>1. T \in Nat /\ B \in Nat /\ Size(r) = 5 + T + B
  BY RequestsTyped DEF Size
<1>2. RequestBytes(r) = ((a \o t) \o e) \o b
  BY DEF RequestBytes, Text, Body
<1>3. \A kind \in Kinds : <<kind, r>> \in Cells
  BY DEF Cells
<1> DEFINE start == <<"start", r>>
           text == <<"text", r>>
           cr == <<"CR", r>>
           lf == <<"LF", r>>
           body == <<"body", r>>
<1>4. {start, text, cr, lf, body} \subseteq Cells
  BY <1>3 DEF Kinds
<1>5. a = <<start>> /\ e = <<cr, lf, cr, lf>>
      /\ t = [i \in 1 .. T |-> text] /\ b = [i \in 1 .. B |-> body]
  OBVIOUS
<1> HIDE DEF start, text, cr, lf, body, T, B, a, t, e, b
<1>6. a \in Seq(Cells) /\ Len(a) = 1 /\ a[1] = start
  BY <1>4, <1>5
<1>7. t \in Seq(Cells) /\ Len(t) = T /\ \A i \in 1 .. T : t[i] = text
  BY <1>1, <1>4, <1>5
<1>8. e \in Seq(Cells) /\ Len(e) = 4 /\ e[1] = cr /\ e[2] = lf /\ e[3] = cr /\ e[4] = lf
  BY <1>4, <1>5
<1>9. b \in Seq(Cells) /\ Len(b) = B /\ \A i \in 1 .. B : b[i] = body
  BY <1>1, <1>4, <1>5
<1> DEFINE at == a \o t
<1>10. /\ at \in Seq(Cells) /\ Len(at) = 1 + T /\ at[1] = start
       /\ \A i \in 2 .. T + 1 : at[i] = text
  <2>0. /\ at \in Seq(Cells) /\ Len(at) = Len(a) + Len(t)
        /\ \A i \in 1 .. Len(a) : at[i] = a[i]
        /\ \A i \in 1 .. Len(t) : at[Len(a) + i] = t[i]
    <3>1. a \in Seq(Cells) /\ t \in Seq(Cells)
      BY <1>6, <1>7
    <3> QED
      BY <3>1, Joined
  <2> HIDE DEF at
  <2>1. /\ at \in Seq(Cells) /\ Len(at) = 1 + T /\ at[1] = a[1]
        /\ \A i \in 1 .. T : at[1 + i] = t[i]
    BY <1>1, <1>6, <1>7, <2>0
  <2> HIDE DEF at
  <2>2. \A i \in 2 .. T + 1 : i - 1 \in 1 .. T /\ 1 + (i - 1) = i
    BY <1>1
  <2> QED
    BY <1>6, <1>7, <2>1, <2>2
<1> HIDE DEF at
<1> DEFINE ate == at \o e
<1>11. /\ ate \in Seq(Cells) /\ Len(ate) = 5 + T /\ \A i \in 1 .. T + 1 : ate[i] = at[i]
       /\ ate[T + 2] = cr /\ ate[T + 3] = lf /\ ate[T + 4] = cr /\ ate[T + 5] = lf
  <2>0. /\ ate \in Seq(Cells) /\ Len(ate) = Len(at) + Len(e)
        /\ \A i \in 1 .. Len(at) : ate[i] = at[i]
        /\ \A i \in 1 .. Len(e) : ate[Len(at) + i] = e[i]
    <3>1. at \in Seq(Cells) /\ e \in Seq(Cells)
      BY <1>8, <1>10
    <3> QED
      BY <3>1, Joined
  <2> HIDE DEF ate
  <2>1. /\ ate \in Seq(Cells) /\ Len(ate) = 1 + T + 4
        /\ \A i \in 1 .. 1 + T : ate[i] = at[i]
        /\ \A i \in 1 .. 4 : ate[1 + T + i] = e[i]
    BY <1>8, <1>10, <2>0
  <2> HIDE DEF ate
  <2>2. ate[1 + T + 1] = cr /\ ate[1 + T + 2] = lf /\ ate[1 + T + 3] = cr /\ ate[1 + T + 4] = lf
    BY <1>8, <2>1
  <2>3. 1 + T + 1 = T + 2 /\ 1 + T + 2 = T + 3 /\ 1 + T + 3 = T + 4 /\ 1 + T + 4 = T + 5
        /\ 1 + T = T + 1
    BY <1>1
  <2> QED
    BY <1>1, <2>1, <2>2, <2>3
<1> HIDE DEF ate
<1> DEFINE s == ate \o b
<1>12. /\ s \in Seq(Cells) /\ Len(s) = 5 + T + B /\ \A i \in 1 .. T + 5 : s[i] = ate[i]
       /\ \A i \in T + 6 .. 5 + T + B : s[i] = body
  <2>1. ate \in Seq(Cells) /\ b \in Seq(Cells)
    BY <1>9, <1>11
  <2>2. /\ s \in Seq(Cells) /\ Len(s) = Len(ate) + Len(b)
        /\ \A i \in 1 .. Len(ate) : s[i] = ate[i]
        /\ \A i \in 1 .. Len(b) : s[Len(ate) + i] = b[i]
    BY <2>1, Joined
  <2> HIDE DEF s
  <2>3. /\ s \in Seq(Cells) /\ Len(s) = (5 + T) + B
        /\ \A i \in 1 .. 5 + T : s[i] = ate[i]
        /\ \A i \in 1 .. B : s[(5 + T) + i] = body
    BY <1>9, <1>11, <2>2
  <2>4. \A i \in T + 6 .. 5 + T + B : i - (5 + T) \in 1 .. B /\ (5 + T) + (i - (5 + T)) = i
    BY <1>1
  <2>5. (5 + T) + B = 5 + T + B /\ 5 + T = T + 5
    BY <1>1
  <2> QED
    BY <2>3, <2>4, <2>5
<1>13. s = RequestBytes(r)
  BY <1>2 DEF at, ate
<1> HIDE DEF s
<1>14. /\ s[1] = start /\ (\A i \in 2 .. T + 1 : s[i] = text)
       /\ s[T + 2] = cr /\ s[T + 3] = lf /\ s[T + 4] = cr /\ s[T + 5] = lf
  BY <1>1, <1>10, <1>11, <1>12
<1> QED
  BY <1>1, <1>12, <1>13, <1>14 DEF BytesAre, T, start, text, cr, lf, body

------------------------------------------------------------------------------
(* Counting up to n. *)

Below == {p \in Nat \X Nat : p[1] < p[2]}

LEMMA SmallestNumber ==
  ASSUME NEW T, T \subseteq Nat, T # {}
  PROVE  \E x \in T : \A y \in T : x <= y
<1>1. IsWellFoundedOn(Below, Nat)
  BY NatLessThanWellFounded DEF OpToRel, Below
<1>2. PICK x \in T : \A y \in T : ~ (<<y, x>> \in Below)
  BY <1>1, WFMin
<1>3. ASSUME NEW y \in T PROVE x <= y
  <2>1. x \in Nat /\ y \in Nat
    OBVIOUS
  <2>2. <<y, x>> \in Nat \X Nat /\ <<y, x>>[1] = y /\ <<y, x>>[2] = x
    BY <2>1
  <2>3. y < x => <<y, x>> \in Below
    BY <2>2 DEF Below
  <2> QED
    BY <1>2, <2>1, <2>3
<1> QED
  BY <1>3

LEMMA CountingUp ==
  ASSUME NEW n \in Nat, NEW S, 0 \in S, \A i \in 1 .. n : i - 1 \in S => i \in S
  PROVE  0 .. n \subseteq S
<1> DEFINE T == {i \in 0 .. n : i \notin S}
<1> SUFFICES ASSUME T # {} PROVE FALSE
  OBVIOUS
<1>1. PICK x \in T : \A y \in T : x <= y
  <2>1. T \subseteq Nat
    OBVIOUS
  <2> HIDE DEF T
  <2> QED
    BY <2>1, SmallestNumber
<1>2. x # 0 /\ x \in 1 .. n
  OBVIOUS
<1>3. x - 1 \in 0 .. n /\ x - 1 \notin T
  BY <1>1, <1>2
<1> QED
  BY <1>2, <1>3

(* What the client sends is a recursive function, which exists because it     *)
(* does for the first requests.                                              *)

SendsUpTo(f, n) ==
  f = [r \in 0 .. n |-> IF r = 0 THEN << >> ELSE f[r - 1] \o RequestBytes(r)]

LEMMA SendSteps ==
  ASSUME NEW n \in Nat, NEW f, SendsUpTo(f, n)
  PROVE  f[0] = << >> /\ \A r \in 1 .. n : f[r] = f[r - 1] \o RequestBytes(r)
<1> DEFINE F(r) == IF r = 0 THEN << >> ELSE f[r - 1] \o RequestBytes(r)
<1>1. ASSUME NEW r \in 0 .. n PROVE f[r] = F(r)
  <2> DEFINE g == [j \in 0 .. n |-> F(j)]
  <2>1. f = g
    BY DEF SendsUpTo
  <2>2. g[r] = F(r)
    OBVIOUS
  <2> HIDE DEF g, F
  <2> QED
    BY <2>1, <2>2
<1>2. 0 \in 0 .. n /\ \A r \in 1 .. n : r \in 0 .. n /\ r # 0
  OBVIOUS
<1> QED
  BY <1>1, <1>2

LEMMA SendExists ==
  ASSUME NEW n \in Nat
  PROVE  \E f : SendsUpTo(f, n)
<1> DEFINE S == {m \in Nat : \E f : SendsUpTo(f, m)}
           start == << >>
<1>1. 0 \in S
  <2> DEFINE f == [r \in 0 .. 0 |-> start]
             F(r) == IF r = 0 THEN start ELSE f[r - 1] \o RequestBytes(r)
  <2>1. \A r \in 0 .. 0 : r = 0
    OBVIOUS
  <2>2. \A r \in 0 .. 0 : F(r) = start
    BY <2>1
  <2>3. f = [r \in 0 .. 0 |-> F(r)]
    <3> HIDE DEF F, start
    <3> QED
      BY <2>2
  <2>4. SendsUpTo(f, 0)
    BY <2>3 DEF SendsUpTo
  <2> HIDE DEF f
  <2> QED
    BY <2>4
<1>2. ASSUME NEW i \in 1 .. n, i - 1 \in S PROVE i \in S
  <2>1. PICK f : SendsUpTo(f, i - 1)
    BY <1>2
  <2> DEFINE last == f[i - 1] \o RequestBytes(i)
             g == [r \in 0 .. i |-> IF r = i THEN last ELSE f[r]]
             G(r) == IF r = 0 THEN start ELSE g[r - 1] \o RequestBytes(r)
  <2>2. g[i] = last /\ (\A r \in 0 .. i - 1 : g[r] = f[r]) /\ g = [r \in 0 .. i |-> g[r]]
    OBVIOUS
  <2>3. f[0] = start /\ \A r \in 1 .. i - 1 : f[r] = f[r - 1] \o RequestBytes(r)
    <3>1. i - 1 \in Nat
      OBVIOUS
    <3> QED
      BY <2>1, <3>1, SendSteps
  <2> HIDE DEF g, start
  <2>4. ASSUME NEW r \in 0 .. i PROVE g[r] = G(r)
    <3>1. CASE r = 0
      <4>1. 0 \in 0 .. i - 1
        OBVIOUS
      <4>2. g[0] = start
        BY <2>2, <2>3, <4>1
      <4> QED
        BY <3>1, <4>2
    <3>2. CASE r \in 1 .. i - 1
      <4>1. r \in 0 .. i - 1 /\ r - 1 \in 0 .. i - 1 /\ r # 0
        BY <3>2
      <4>2. g[r] = f[r] /\ g[r - 1] = f[r - 1]
        BY <2>2, <4>1
      <4> QED
        BY <2>3, <3>2, <4>1, <4>2
    <3>3. CASE r = i
      <4>1. i - 1 \in 0 .. i - 1 /\ r # 0
        BY <3>3
      <4>2. g[i - 1] = f[i - 1]
        BY <2>2, <4>1
      <4> QED
        BY <2>2, <3>3, <4>1, <4>2
    <3> QED
      BY <3>1, <3>2, <3>3
  <2>5. g = [r \in 0 .. i |-> G(r)]
    <3> HIDE DEF G
    <3> QED
      BY <2>2, <2>4
  <2>6. SendsUpTo(g, i)
    BY <2>5 DEF SendsUpTo, start
  <2> QED
    BY <2>6
<1>3. 0 .. n \subseteq S
  <2> HIDE DEF S
  <2> QED
    BY <1>1, <1>2, CountingUp
<1> QED
  BY <1>3

LEMMA SentInSteps ==
  ASSUME client \in Clients
  PROVE  SentUpTo[0] = << >> /\ \A r \in Requests : SentUpTo[r] = SentUpTo[r - 1] \o RequestBytes(r)
<1> DEFINE n == Len(client.requests)
<1>1. n \in Nat
  BY RequestsTyped
<1>2. SentUpTo = CHOOSE f : SendsUpTo(f, n)
  BY DEF SentUpTo, SendsUpTo
<1> HIDE DEF n
<1>3. SendsUpTo(SentUpTo, n)
  <2>1. \E f : SendsUpTo(f, n)
    BY <1>1, SendExists
  <2> QED
    BY <1>2, <2>1
<1>4. SentUpTo[0] = << >> /\ \A r \in 1 .. n : SentUpTo[r] = SentUpTo[r - 1] \o RequestBytes(r)
  BY <1>1, <1>3, SendSteps
<1> QED
  BY <1>4 DEF n, Requests

(* Request r and its bytes, at the end of what is sent up to it. *)
EndsAt(r) ==
  /\ EndOf(r - 1) \in Nat /\ EndOf(r) = EndOf(r - 1) + Size(r)
  /\ \A i \in 1 .. EndOf(r - 1) : SentUpTo[r][i] = SentUpTo[r - 1][i]
  /\ \A i \in 1 .. Size(r) : SentUpTo[r][EndOf(r - 1) + i] = RequestBytes(r)[i]

LEMMA RequestsEnd ==
  ASSUME client \in Clients
  PROVE  /\ EndOf(0) = 0 /\ \A r \in 0 .. Len(client.requests) : SentUpTo[r] \in Seq(Cells)
         /\ \A r \in Requests : EndsAt(r)
<1> DEFINE n == Len(client.requests)
           S == {r \in 0 .. n : SentUpTo[r] \in Seq(Cells)}
<1>1. n \in Nat /\ Requests = 1 .. n
  BY RequestsTyped DEF Requests
<1> HIDE DEF n
<1>2. SentUpTo[0] = << >> /\ \A r \in 1 .. n : SentUpTo[r] = SentUpTo[r - 1] \o RequestBytes(r)
  BY <1>1, SentInSteps
<1>3. ASSUME NEW r \in 1 .. n
      PROVE  RequestBytes(r) \in Seq(Cells) /\ Len(RequestBytes(r)) = Size(r)
  BY <1>1, RequestBytesAre DEF BytesAre
<1>4. 0 .. n \subseteq S
  <2>1. 0 \in S
    <3> DEFINE none == << >>
    <3>1. none \in Seq(Cells)
      OBVIOUS
    <3>2. SentUpTo[0] = none /\ 0 \in 0 .. n
      BY <1>1, <1>2
    <3> HIDE DEF none
    <3>3. SentUpTo[0] \in Seq(Cells)
      BY <3>1, <3>2
    <3> QED
      BY <3>2, <3>3
  <2>2. ASSUME NEW r \in 1 .. n, r - 1 \in S PROVE r \in S
    <3> DEFINE s == SentUpTo[r - 1]
               u == RequestBytes(r)
    <3>1. s \in Seq(Cells) /\ u \in Seq(Cells)
      BY <1>3, <2>2
    <3>2. SentUpTo[r] = s \o u
      BY <1>2
    <3> HIDE DEF s, u
    <3>3. s \o u \in Seq(Cells)
      BY <3>1, Joined
    <3>4. SentUpTo[r] \in Seq(Cells) /\ r \in 0 .. n
      BY <1>1, <3>2, <3>3
    <3> QED
      BY <3>4
  <2> HIDE DEF S
  <2> QED
    BY <1>1, <2>1, <2>2, CountingUp
<1>5. ASSUME NEW r \in 1 .. n PROVE EndsAt(r)
  <2> DEFINE s == SentUpTo[r - 1]
             u == RequestBytes(r)
             su == SentUpTo[r]
  <2>1. r - 1 \in 0 .. n
    BY <1>1
  <2>2. s \in Seq(Cells) /\ u \in Seq(Cells) /\ Len(u) = Size(r)
    BY <1>3, <1>4, <2>1
  <2>3. su = s \o u
    BY <1>2
  <2>4. EndOf(r - 1) = Len(s) /\ EndOf(r) = Len(su)
    BY DEF EndOf
  <2> HIDE DEF s, u, su
  <2>5. s \in Seq(Cells) /\ u \in Seq(Cells)
    BY <2>2
  <2>6. /\ Len(s \o u) = Len(s) + Len(u)
        /\ \A i \in 1 .. Len(s) : (s \o u)[i] = s[i]
        /\ \A i \in 1 .. Len(u) : (s \o u)[Len(s) + i] = u[i]
    BY <2>5, Joined
  <2>7. Len(s) \in Nat
    BY <2>5
  <2> QED
    BY <2>2, <2>3, <2>4, <2>6, <2>7 DEF EndsAt, s, u, su
<1>6. EndOf(0) = 0
  BY <1>2 DEF EndOf
<1> QED
  BY <1>1, <1>4, <1>5, <1>6 DEF n

LEMMA EndsGrow ==
  ASSUME client \in Clients, NEW q \in 0 .. Len(client.requests), NEW r \in 0 .. Len(client.requests),
         q <= r
  PROVE  /\ EndOf(q) \in Nat /\ EndOf(r) \in Nat /\ EndOf(q) <= EndOf(r)
         /\ \A i \in 1 .. EndOf(q) : SentUpTo[r][i] = SentUpTo[q][i]
<1> DEFINE n == Len(client.requests)
           Grown(x) == /\ EndOf(x) \in Nat /\ EndOf(q) <= EndOf(x)
                       /\ \A i \in 1 .. EndOf(q) : SentUpTo[x][i] = SentUpTo[q][i]
           S == {x \in 0 .. n : x >= q => Grown(x)}
<1>1. n \in Nat /\ Requests = 1 .. n
  BY RequestsTyped DEF Requests
<1>2. EndOf(0) = 0 /\ \A x \in 1 .. n : EndsAt(x)
  BY <1>1, RequestsEnd
<1>3. EndOf(q) \in Nat
  <2>1. CASE q = 0
    BY <1>2, <2>1
  <2>2. CASE q # 0
    <3>1. q \in 1 .. n /\ Size(q) \in Nat
      BY <1>1, <2>2, RequestsTyped
    <3> QED
      BY <1>2, <3>1 DEF EndsAt
  <2> QED
    BY <2>1, <2>2
<1> HIDE DEF n
<1>4. Grown(q)
  BY <1>3
<1>5. 0 \in S
  <2>1. 0 >= q => q = 0
    BY <1>1 DEF n
  <2> QED
    BY <1>1, <1>4, <2>1
<1>6. ASSUME NEW x \in 1 .. n, x - 1 \in S PROVE x \in S
  <2> SUFFICES ASSUME x >= q PROVE Grown(x)
    OBVIOUS
  <2>1. CASE x = q
    BY <1>4, <2>1
  <2>2. CASE x # q
    <3>1. Grown(x - 1)
      <4>1. x - 1 >= q
        BY <1>1, <2>2 DEF n
      <4> QED
        BY <1>6, <4>1
    <3>2. EndsAt(x) /\ Size(x) \in Nat
      BY <1>1, <1>2, RequestsTyped
    <3>3. EndOf(x) \in Nat /\ EndOf(x - 1) <= EndOf(x)
      BY <3>2 DEF EndsAt
    <3>4. ASSUME NEW i \in 1 .. EndOf(q) PROVE SentUpTo[x][i] = SentUpTo[q][i]
      <4>1. i \in 1 .. EndOf(x - 1)
        BY <1>3, <3>1
      <4> QED
        BY <3>1, <3>2, <4>1 DEF EndsAt
    <3> QED
      BY <1>3, <3>1, <3>3, <3>4
  <2> QED
    BY <2>1, <2>2
<1>7. 0 .. n \subseteq S
  <2> HIDE DEF S
  <2> QED
    BY <1>1, <1>5, <1>6, CountingUp
<1>8. Grown(r)
  BY <1>7 DEF n
<1> QED
  BY <1>3, <1>8

(* All that is sent: request r is in it behind the ones before. *)
LEMMA SentHolds ==
  ASSUME client \in Clients, NEW r \in Requests
  PROVE  /\ EndOf(r - 1) \in Nat /\ EndOf(r) \in Nat /\ EndOf(r) = EndOf(r - 1) + Size(r)
         /\ TotalSent \in Nat /\ EndOf(r) <= TotalSent
         /\ \A i \in 1 .. Size(r) : Sent[EndOf(r - 1) + i] = RequestBytes(r)[i]
<1> DEFINE n == Len(client.requests)
<1>1. n \in Nat /\ Requests = 1 .. n /\ n \in 0 .. n /\ r \in 0 .. n /\ r <= n
  BY RequestsTyped DEF Requests
<1>2. EndsAt(r) /\ Size(r) \in Nat
  BY RequestsEnd, RequestsTyped
<1>3. /\ EndOf(r) \in Nat /\ EndOf(n) \in Nat /\ EndOf(r) <= EndOf(n)
      /\ \A i \in 1 .. EndOf(r) : SentUpTo[n][i] = SentUpTo[r][i]
  BY <1>1, EndsGrow
<1>4. TotalSent = EndOf(n) /\ Sent = SentUpTo[n]
  BY DEF TotalSent, Sent, EndOf
<1>5. ASSUME NEW i \in 1 .. Size(r) PROVE Sent[EndOf(r - 1) + i] = RequestBytes(r)[i]
  <2>1. EndOf(r - 1) + i \in 1 .. EndOf(r)
    BY <1>2 DEF EndsAt
  <2> QED
    BY <1>2, <1>3, <1>4, <2>1 DEF EndsAt
<1> QED
  BY <1>2, <1>3, <1>4, <1>5 DEF EndsAt

(* The largest and the smallest number of a set within bounds. *)
LEMMA LargestOf ==
  ASSUME NEW a \in Int, NEW b \in Int, NEW S, S \subseteq a .. b, S # {}
  PROVE  Max(S) \in S /\ \A y \in S : y <= Max(S)
<1> DEFINE T == {x \in 0 .. b - a : b - x \in S}
<1>1. T \subseteq Nat /\ T # {}
  <2>1. PICK y \in S : TRUE
    OBVIOUS
  <2>2. b - y \in 0 .. b - a /\ b - (b - y) = y
    OBVIOUS
  <2>3. b - y \in T
    BY <2>2
  <2>4. T \subseteq Nat
    OBVIOUS
  <2> HIDE DEF T
  <2> QED
    BY <2>3, <2>4
<1>2. PICK x \in T : \A y \in T : x <= y
  <2> HIDE DEF T
  <2> QED
    BY <1>1, SmallestNumber
<1>3. b - x \in S /\ \A y \in S : b - x >= y
  <2>1. ASSUME NEW y \in S PROVE b - x >= y
    <3>1. b - y \in T /\ y \in Int
      <4>1. b - y \in 0 .. b - a /\ b - (b - y) = y
        OBVIOUS
      <4> QED
        BY <4>1
    <3>2. x <= b - y
      BY <1>2, <3>1
    <3> QED
      BY <3>1, <3>2
  <2> QED
    BY <2>1
<1>4. Max(S) \in S /\ \A y \in S : Max(S) >= y
  BY <1>3 DEF Max
<1>5. \A y \in S : y \in Int
  OBVIOUS
<1> QED
  BY <1>4, <1>5

LEMMA SmallestOf ==
  ASSUME NEW a \in Int, NEW b \in Int, NEW S, S \subseteq a .. b, S # {}
  PROVE  Min(S) \in S /\ \A y \in S : Min(S) <= y
<1> DEFINE T == {x \in 0 .. b - a : a + x \in S}
<1>1. T \subseteq Nat /\ T # {}
  <2>1. PICK y \in S : TRUE
    OBVIOUS
  <2>2. y - a \in 0 .. b - a /\ a + (y - a) = y
    OBVIOUS
  <2>3. y - a \in T
    BY <2>2
  <2>4. T \subseteq Nat
    OBVIOUS
  <2> HIDE DEF T
  <2> QED
    BY <2>3, <2>4
<1>2. PICK x \in T : \A y \in T : x <= y
  <2> HIDE DEF T
  <2> QED
    BY <1>1, SmallestNumber
<1>3. a + x \in S /\ \A y \in S : a + x <= y
  <2>1. ASSUME NEW y \in S PROVE a + x <= y
    <3>1. y - a \in T /\ y \in Int
      <4>1. y - a \in 0 .. b - a /\ a + (y - a) = y
        OBVIOUS
      <4> QED
        BY <4>1
    <3>2. x <= y - a
      BY <1>2, <3>1
    <3> QED
      BY <3>1, <3>2
  <2> QED
    BY <2>1
<1> QED
  BY <1>3 DEF Min

------------------------------------------------------------------------------
(* Looking at the buffer. *)

Buffers == [Indices -> Cells]
Places == -3 .. BufferSize - 3

(* What is found is a place of the buffer and a request of the client. *)
LookTyped(look, left, n) ==
  /\ look.verdict \in {"refused", "incomplete", "complete"}
  /\ (look.verdict = "refused") <=> Refused(n, left)
  /\ look.last \in Places
  /\ look.request \in Requests \cup {0}

LEMMA LooksTyped ==
  ASSUME NEW buffer \in Buffers, NEW seen \in Nat, NEW last \in Places, NEW n \in Nat \ {0},
         seen < BufferSize
  PROVE  LookTyped(LookAt(buffer, seen, BufferSize - seen, last, n), BufferSize - seen, n)
<1> DEFINE left == BufferSize - seen
           ends == LineEnds(buffer, seen, last, n)
           empty == EmptyLines(ends, last)
           end == Min(empty)
           request == ParsedRequest(buffer, end)
           early == seen + n < end + 2 + BodyLength(request)
           look == LookAt(buffer, seen, left, last, n)
<1>0. BufferSize \in Nat \ {0} /\ last \in Int /\ last >= -3
  BY SizesAssumption DEF Places
<1>1. look = IF Refused(n, left) THEN [verdict |-> "refused", last |-> last, request |-> 0]
             ELSE IF empty = {}
               THEN [verdict |-> "incomplete", last |-> Max(ends \cup {last}), request |-> 0]
               ELSE [verdict |-> IF early THEN "incomplete" ELSE "complete",
                     last |-> end - 2, request |-> request]
  BY DEF LookAt
<1>2. ends \subseteq 0 .. seen + n - 2
  <2>1. Max({last + 2, 0}) \in {last + 2, 0} /\ 0 <= Max({last + 2, 0})
    <3> DEFINE S == {last + 2, 0}
    <3>1. S \subseteq -1 .. last + 4 /\ S # {} /\ 0 \in S
      BY <1>0
    <3> HIDE DEF S
    <3>2. -1 \in Int /\ last + 4 \in Int
      BY <1>0
    <3>3. Max(S) \in S /\ \A y \in S : y <= Max(S)
      BY <3>1, <3>2, LargestOf
    <3> QED
      BY <3>1, <3>3 DEF S
  <2>2. Max({last + 2, 0}) \in Nat
    BY <1>0, <2>1
  <2> QED
    BY <2>2 DEF LineEnds
<1>3. empty \subseteq ends
  BY DEF EmptyLines
<1>4. ParsedRequest(buffer, end) \in Requests \cup {0}
  <2>1. buffer[0] \in Cells
    BY <1>0 DEF Buffers, Indices
  <2>2. buffer[0][2] \in Requests \cup {0}
    BY <2>1 DEF Cells
  <2> QED
    BY <2>2 DEF ParsedRequest
<1> HIDE DEF ends, empty, end, request, early, look
<1>5. CASE Refused(n, left)
  <2>1. look = [verdict |-> "refused", last |-> last, request |-> 0]
    BY <1>1, <1>5
  <2> QED
    BY <1>5, <2>1 DEF LookTyped, look
<1>6. CASE ~Refused(n, left)
  <2>0. seen + n - 2 <= BufferSize - 3 /\ seen + n - 2 \in Int
    BY <1>0, <1>6 DEF Refused
  <2>1. CASE empty = {}
    <3> DEFINE S == ends \cup {last}
    <3>0. ends \subseteq Places
      <4>1. ASSUME NEW p \in ends PROVE p \in Places
        <5>1. p \in Int /\ 0 <= p /\ p <= seen + n - 2
          BY <1>2, <2>0
        <5> QED
          BY <1>0, <2>0, <5>1 DEF Places
      <4> QED
        BY <4>1
    <3>1. S \subseteq Places /\ S # {}
      BY <3>0
    <3>2. Max(S) \in S
      <4> HIDE DEF S
      <4>1. -3 \in Int /\ BufferSize - 3 \in Int /\ S \subseteq -3 .. BufferSize - 3
        BY <1>0, <3>1 DEF Places
      <4> QED
        BY <3>1, <4>1, LargestOf
    <3>3. look = [verdict |-> "incomplete", last |-> Max(S), request |-> 0]
      BY <1>1, <1>6, <2>1
    <3>4. Max(S) \in Places
      BY <3>1, <3>2
    <3> HIDE DEF S
    <3> QED
      BY <1>6, <3>3, <3>4 DEF LookTyped, look
  <2>2. CASE empty # {}
    <3>1. end \in empty
      <4>1. empty \subseteq 0 .. seen + n - 2 /\ 0 \in Int
        BY <1>2, <1>3
      <4> QED
        BY <2>0, <2>2, <4>1, SmallestOf DEF end
    <3>2. end \in 0 .. seen + n - 2
      BY <1>2, <1>3, <3>1
    <3>3. end - 2 \in Places
      BY <1>0, <2>0, <3>2 DEF Places
    <3> DEFINE verdict == IF early THEN "incomplete" ELSE "complete"
               place == end - 2
    <3>4. look = [verdict |-> verdict, last |-> place, request |-> request]
      BY <1>1, <1>6, <2>2
    <3>5. verdict \in {"incomplete", "complete"}
      OBVIOUS
    <3>6. place \in Places /\ request \in Requests \cup {0}
      BY <1>4, <3>3 DEF request
    <3> HIDE DEF verdict, place
    <3> QED
      BY <1>6, <3>4, <3>5, <3>6 DEF LookTyped, look
  <2> QED
    BY <2>1, <2>2
<1> QED
  BY <1>5, <1>6

------------------------------------------------------------------------------
(* The client stays the same, and with it all that is defined by it. *)

LEMMA SameClient ==
  ASSUME client' = client
  PROVE  /\ Requests' = Requests /\ Sent' = Sent /\ TotalSent' = TotalSent
         /\ Cells' = Cells /\ Buffers' = Buffers
<1>1. Requests' = Requests
  BY DEF Requests
<1>2. Cells' = Cells /\ Buffers' = Buffers
  BY <1>1 DEF Buffers, Cells, Kinds, Indices
<1>3. SentUpTo' = SentUpTo
  BY DEF SentUpTo, RequestBytes
<1> QED
  BY <1>1, <1>2, <1>3 DEF Sent, TotalSent

Contexts == 1 .. BufferSize - 1

(* Types, and what makes the counters and the socket right: a patient client  *)
(* has at most one write under way, and none once its socket is closed.      *)
Typed ==
  /\ client \in Clients
  /\ ConnectionTypeOK
  /\ request_buffer \in Buffers
  /\ writes \in Seq(Contexts)
  /\ responses \in Seq(Requests \cup {0})

OneWrite ==
  client.patient =>
    /\ Len(writes) <= 1 /\ socket # "reused"
    /\ writes # << >> => socket \in {"open", "lost"}

Kept == Typed /\ ContextsCounted /\ OneWrite

LEMMA BlankIsCell == Blank \in Cells
BY DEF Blank, Cells, Kinds

LEMMA KeptAtFirst == ConnectionInit => Kept
<1> SUFFICES ASSUME ConnectionInit PROVE Kept
  OBVIOUS
<1>0. client \in Clients /\ BufferSize \in Nat \ {0}
  BY SizesAssumption DEF ConnectionInit
<1>1. TotalSent \in Nat
  <2>1. Len(client.requests) \in Nat
    BY <1>0, RequestsTyped
  <2>2. SentUpTo[Len(client.requests)] \in Seq(Cells)
    BY <1>0, <2>1, RequestsEnd
  <2>3. Sent \in Seq(Cells)
    BY <2>2 DEF Sent
  <2> HIDE DEF Cells
  <2> QED
    BY <2>3 DEF TotalSent
<1>2. request_buffer \in Buffers
  BY BlankIsCell DEF ConnectionInit, Buffers
<1>3. ConnectionTypeOK
  BY <1>0, <1>1 DEF ConnectionInit, ConnectionTypeOK
<1>4. writes = << >> /\ responses = << >> /\ Len(writes) = 0 /\ socket = "open" /\ is_active
      /\ recursion_count = 0
  BY DEF ConnectionInit
<1> QED
  BY <1>0, <1>2, <1>3, <1>4 DEF Kept, Typed, ContextsCounted, OneWrite

(* A response, written when a request was found by a look of n bytes. *)
LEMMA Responding ==
  ASSUME NEW pending \in Seq(Contexts), NEW request \in Requests \cup {0}, NEW n \in Contexts,
         Typed, Respond(pending, request, n)
  PROVE  /\ response_buffer' \in Requests \cup {0}
         /\ responses' \in Seq(Requests \cup {0}) /\ responses' = Append(responses, response_buffer')
         /\ writes' \in Seq(Contexts) /\ Len(writes') = Len(pending) + 1
<1> DEFINE S == Requests \cup {0}
<1>1. response_buffer \in S /\ responses \in Seq(S)
  BY DEF Typed, ConnectionTypeOK
<1>2. response_buffer' \in S
  BY <1>1 DEF Respond, Answer
<1> HIDE DEF S
<1>3. responses' = Append(responses, response_buffer') /\ responses' \in Seq(S)
  BY <1>1, <1>2 DEF Respond
<1>4. writes' \in Seq(Contexts) /\ Len(writes') = Len(pending) + 1
  BY DEF Respond
<1> QED
  BY <1>2, <1>3, <1>4 DEF S

LEMMA ReadKeeps ==
  ASSUME Kept, NEW n \in 1 .. BufferSize, Read(n)
  PROVE  Kept'
<1> DEFINE seen == request_bytes_already_seen
           left == request_buffer_bytes_left
           buffer == [i \in Indices |-> IF i \in seen .. seen + n - 1
                                          THEN Sent[received + 1 + i - seen] ELSE request_buffer[i]]
           look == LookAt(buffer, seen, left, last_crlf, n)
<1>0. /\ client \in Clients /\ BufferSize \in Nat \ {0} /\ n \in Nat \ {0}
      /\ seen \in 0 .. BufferSize - 1 /\ left = BufferSize - seen /\ last_crlf \in Places
      /\ request_buffer \in Buffers /\ received \in 0 .. TotalSent
      /\ writes \in Seq(Contexts) /\ responses \in Seq(Requests \cup {0})
      /\ recursion_count \in Nat /\ is_active \in BOOLEAN
  BY SizesAssumption DEF Kept, Typed, ConnectionTypeOK, Places
<1>1. /\ socket = "open" /\ n <= left /\ received + n <= TotalSent /\ MayArrive(n)
      /\ received' = received + n /\ recursion_count' = recursion_count + 1
      /\ request_buffer' = buffer /\ last_crlf' = look.last
      /\ Count(seen, left, n, look.verdict)
      /\ is_active' = (is_active /\ look.verdict # "refused")
      /\ client' = client /\ socket' = socket
  BY DEF Read, CountContext
<1>2. \/ look.verdict = "complete" /\ Respond(writes, look.request, n)
      \/ look.verdict # "complete" /\ UNCHANGED <<response_buffer, responses, writes>>
  BY DEF Read
<1>3. Sent \in Seq(Cells) /\ Len(Sent) = TotalSent
  <2>1. Len(client.requests) \in Nat
    BY <1>0, RequestsTyped
  <2>2. SentUpTo[Len(client.requests)] \in Seq(Cells)
    BY <1>0, <2>1, RequestsEnd
  <2> QED
    BY <2>2 DEF Sent, TotalSent
<1>4. buffer \in Buffers
  <2>1. ASSUME NEW i \in Indices, i \in seen .. seen + n - 1
        PROVE  Sent[received + 1 + i - seen] \in Cells
    <3>1. received + 1 + i - seen \in 1 .. Len(Sent)
      BY <1>0, <1>1, <1>3, <2>1
    <3> HIDE DEF Cells
    <3> QED
      BY <1>3, <3>1
  <2>2. \A i \in Indices : request_buffer[i] \in Cells
    BY <1>0 DEF Buffers
  <2> QED
    BY <2>1, <2>2 DEF Buffers
<1>5. LookTyped(look, left, n)
  <2>1. seen \in Nat /\ seen < BufferSize
    BY <1>0
  <2> HIDE DEF buffer
  <2> QED
    BY <1>0, <1>4, <2>1, LooksTyped
<1> HIDE DEF buffer, look
<1>6. look.verdict # "refused" => n \in Contexts /\ seen + n \in 0 .. BufferSize - 1
  BY <1>0, <1>5 DEF LookTyped, Refused, Contexts
<1>7. /\ request_bytes_already_seen' \in 0 .. BufferSize - 1
      /\ request_buffer_bytes_left' = BufferSize - request_bytes_already_seen'
  BY <1>0, <1>1, <1>6 DEF Count
<1>8. /\ response_buffer' \in Requests \cup {0} /\ responses' \in Seq(Requests \cup {0})
      /\ writes' \in Seq(Contexts) /\ Len(writes') <= Len(writes) + 1
      /\ look.verdict # "complete" => writes' = writes
  <2>1. CASE look.verdict = "complete"
    <3>1. Respond(writes, look.request, n) /\ look.request \in Requests \cup {0} /\ n \in Contexts
      BY <1>2, <1>5, <1>6, <2>1 DEF LookTyped
    <3>2. Typed /\ writes \in Seq(Contexts)
      BY <1>0 DEF Kept
    <3>3. /\ response_buffer' \in Requests \cup {0} /\ responses' \in Seq(Requests \cup {0})
          /\ writes' \in Seq(Contexts) /\ Len(writes') = Len(writes) + 1
      BY <3>1, <3>2, Responding
    <3>4. Len(writes) \in Nat
      BY <1>0
    <3> QED
      BY <2>1, <3>3, <3>4
  <2>2. CASE look.verdict # "complete"
    <3>1. response_buffer' = response_buffer /\ responses' = responses /\ writes' = writes
      BY <1>2, <2>2
    <3>2. response_buffer \in Requests \cup {0} /\ Len(writes) \in Nat
      BY <1>0 DEF Kept, Typed, ConnectionTypeOK
    <3> QED
      BY <1>0, <3>1, <3>2
  <2> QED
    BY <2>1, <2>2
<1>9. Typed'
  <2>1. Requests' = Requests /\ TotalSent' = TotalSent /\ Buffers' = Buffers
    BY <1>1, SameClient
  <2>2. Contexts' = Contexts
    BY DEF Contexts
  <2>3. ConnectionTypeOK'
    <3>1. received' \in 0 .. TotalSent
      BY <1>0, <1>1, <1>3
    <3>2. DOMAIN request_buffer' = Indices
      BY <1>1, <1>4 DEF Buffers
    <3>3. last_crlf' \in -3 .. BufferSize - 3
      BY <1>1, <1>5 DEF LookTyped, Places
    <3>4. is_active' \in BOOLEAN /\ recursion_count' \in Nat
      BY <1>0, <1>1
    <3>5. socket' = "open"
      BY <1>1
    <3> QED
      BY <1>7, <1>8, <2>1, <3>1, <3>2, <3>3, <3>4, <3>5 DEF ConnectionTypeOK, Indices
  <2> QED
    BY <1>0, <1>1, <1>4, <1>8, <2>1, <2>2, <2>3 DEF Typed
<1>10. ContextsCounted'
  <2>1. recursion_count >= Len(writes) + (IF is_active THEN 0 ELSE 1) /\ Len(writes) \in Nat
        /\ Len(writes') \in Nat
    BY <1>0, <1>8 DEF Kept, ContextsCounted
  <2>2. CASE look.verdict = "complete"
    <3>1. is_active' = is_active
      BY <1>0, <1>1, <2>2
    <3> QED
      BY <1>0, <1>1, <1>8, <2>1, <3>1 DEF ContextsCounted
  <2>3. CASE look.verdict # "complete"
    <3>1. writes' = writes
      BY <1>8, <2>3
    <3> QED
      BY <1>0, <1>1, <2>1, <3>1 DEF ContextsCounted
  <2> QED
    BY <2>2, <2>3
<1>11. OneWrite'
  <2> SUFFICES ASSUME client.patient PROVE Len(writes') <= 1
    BY <1>1 DEF OneWrite
  <2>1. writes = << >>
    BY <1>1 DEF MayArrive
  <2> QED
    BY <1>8, <2>1
<1> QED
  BY <1>9, <1>10, <1>11 DEF Kept

LEMMA PeerGoneKeeps ==
  ASSUME Kept, PeerGone
  PROVE  Kept'
<1>1. /\ client' = client /\ received' = received /\ UNCHANGED buffer_vars
      /\ response_buffer' = response_buffer /\ writes' = writes /\ responses' = responses
      /\ socket = "open"
  BY DEF PeerGone
<1>2. \/ socket' = "lost" /\ recursion_count' = recursion_count /\ is_active' = is_active
      \/ is_active /\ is_active' = FALSE /\ recursion_count' = recursion_count + 1 /\ socket' = socket
  BY DEF PeerGone, CountContext
<1>3. Requests' = Requests /\ TotalSent' = TotalSent /\ Buffers' = Buffers
  BY <1>1, SameClient
<1>4. is_active' \in BOOLEAN /\ recursion_count' \in Nat
      /\ socket' \in {"open", "closed", "reused", "deleted", "lost"}
  <2>1. is_active \in BOOLEAN /\ recursion_count \in Nat
    BY DEF Kept, Typed, ConnectionTypeOK
  <2>2. is_active' \in BOOLEAN
    BY <1>2, <2>1
  <2>3. recursion_count' \in Nat
    BY <1>2, <2>1
  <2>4. socket' \in {"open", "closed", "reused", "deleted", "lost"}
    BY <1>1, <1>2
  <2> QED
    BY <2>2, <2>3, <2>4
<1>5. Typed'
  BY <1>1, <1>3, <1>4 DEF Kept, Typed, ConnectionTypeOK, buffer_vars, Indices, Contexts
<1>6. ContextsCounted'
  <2>1. Len(writes) \in Nat /\ recursion_count \in Nat
        /\ recursion_count >= Len(writes) + (IF is_active THEN 0 ELSE 1)
    BY DEF Kept, Typed, ConnectionTypeOK, ContextsCounted
  <2> QED
    BY <1>1, <1>2, <2>1 DEF ContextsCounted
<1>7. OneWrite'
  BY <1>1, <1>2 DEF Kept, OneWrite
<1> QED
  BY <1>5, <1>6, <1>7 DEF Kept

LEMMA WriteDoneKeeps ==
  ASSUME Kept, NEW content_length \in LeftOver, WriteDone(content_length)
  PROVE  Kept'
<1> DEFINE size == last_crlf + 4 + content_length
           remaining == request_bytes_already_seen - size
           n == IF remaining > 0 THEN remaining ELSE Head(writes)
           buffer == Leftover(request_buffer, size, remaining)
           look == LookAt(buffer, 0, BufferSize, FreshLastCrlf, n)
           again == remaining # 0
<1>0. /\ client \in Clients /\ BufferSize \in Nat \ {0}
      /\ request_bytes_already_seen \in 0 .. BufferSize - 1 /\ last_crlf \in Places
      /\ request_buffer \in Buffers /\ received \in 0 .. TotalSent
      /\ writes \in Seq(Contexts) /\ responses \in Seq(Requests \cup {0})
      /\ recursion_count \in Nat /\ is_active \in BOOLEAN /\ content_length \in Nat
      /\ response_buffer \in Requests \cup {0}
  BY SizesAssumption DEF Kept, Typed, ConnectionTypeOK, Places
<1>1. /\ writes # << >> /\ socket \in {"open", "closed"}
      /\ request_buffer' = buffer
      /\ last_crlf' = IF again THEN look.last ELSE FreshLastCrlf
      /\ IF again
           THEN Count(0, BufferSize, n, look.verdict)
           ELSE request_bytes_already_seen' = 0 /\ request_buffer_bytes_left' = BufferSize
      /\ is_active' = (is_active /\ (again => look.verdict # "refused"))
      /\ client' = client /\ received' = received
  BY DEF WriteDone
<1>2. \/ /\ again /\ look.verdict = "complete"
         /\ Respond(Tail(writes), look.request, Head(writes))
         /\ socket' = IF socket = "open" THEN socket ELSE "reused"
         /\ recursion_count' = recursion_count
      \/ writes' = Tail(writes) /\ CleanUp /\ response_buffer' = response_buffer /\ responses' = responses
  BY DEF WriteDone
<1>3. /\ Head(writes) \in Contexts /\ Tail(writes) \in Seq(Contexts)
      /\ Len(writes) \in Nat \ {0} /\ Len(Tail(writes)) = Len(writes) - 1
  <2> HIDE DEF Contexts
  <2> QED
    BY <1>0, <1>1
<1>4. n \in Contexts /\ (remaining > 0 => n = remaining /\ size + remaining <= BufferSize - 1)
      /\ size \in Nat /\ remaining \in Int
  BY <1>0, <1>3 DEF Contexts, Places
<1>5. buffer \in Buffers
  <2>1. \A i \in Indices : request_buffer[i] \in Cells
    BY <1>0 DEF Buffers
  <2>2. ASSUME NEW i \in Indices, i < remaining PROVE size + i \in Indices
    BY <1>0, <1>4, <2>2 DEF Indices
  <2> QED
    BY <2>1, <2>2 DEF Buffers, Leftover
<1>6. LookTyped(look, BufferSize, n)
  <2>1. 0 \in Nat /\ FreshLastCrlf \in Places /\ 0 < BufferSize /\ BufferSize - 0 = BufferSize
        /\ n \in Nat \ {0}
    BY <1>0, <1>4 DEF FreshLastCrlf, Places, Contexts
  <2> HIDE DEF buffer, n
  <2>2. LookTyped(LookAt(buffer, 0, BufferSize - 0, FreshLastCrlf, n), BufferSize - 0, n)
    BY <1>5, <2>1, LooksTyped
  <2> QED
    BY <2>1, <2>2
<1> HIDE DEF size, remaining, n, buffer, look
<1>7. look.verdict # "refused" /\ is_active' = is_active
  <2>1. look.verdict # "refused"
    BY <1>0, <1>4, <1>6 DEF LookTyped, Refused, Contexts
  <2> QED
    BY <1>0, <1>1, <2>1
<1>8. /\ request_bytes_already_seen' \in 0 .. BufferSize - 1
      /\ request_buffer_bytes_left' = BufferSize - request_bytes_already_seen'
      /\ last_crlf' \in Places
  <2>1. FreshLastCrlf \in Places /\ look.last \in Places
    BY <1>0, <1>6 DEF LookTyped, FreshLastCrlf, Places
  <2>2. CASE again
    BY <1>0, <1>1, <1>4, <1>7, <2>1, <2>2 DEF Count, Contexts
  <2>3. CASE ~again
    BY <1>0, <1>1, <2>1, <2>3
  <2> QED
    BY <2>2, <2>3
<1> HIDE DEF again
<1>9. CASE /\ again /\ look.verdict = "complete"
           /\ Respond(Tail(writes), look.request, Head(writes))
           /\ socket' = IF socket = "open" THEN socket ELSE "reused"
           /\ recursion_count' = recursion_count
  <2>1. /\ response_buffer' \in Requests \cup {0} /\ responses' \in Seq(Requests \cup {0})
        /\ writes' \in Seq(Contexts) /\ Len(writes') = Len(Tail(writes)) + 1
    <3>1. Typed /\ look.request \in Requests \cup {0}
      BY <1>6 DEF Kept, LookTyped
    <3> QED
      BY <1>3, <1>9, <3>1, Responding
  <2>2. Len(writes') = Len(writes)
    BY <1>3, <2>1
  <2>3. Typed'
    <3>1. Requests' = Requests /\ TotalSent' = TotalSent /\ Buffers' = Buffers
      BY <1>1, SameClient
    <3>2. socket' \in {"open", "closed", "reused", "deleted", "lost"}
      BY <1>1, <1>9
    <3>3. DOMAIN request_buffer' = Indices
      BY <1>1, <1>5 DEF Buffers
    <3>4. ConnectionTypeOK'
      BY <1>0, <1>1, <1>7, <1>8, <1>9, <2>1, <3>1, <3>2, <3>3
         DEF ConnectionTypeOK, Indices, Places
    <3> QED
      BY <1>0, <1>1, <1>5, <2>1, <3>1, <3>4 DEF Typed, Contexts
  <2>4. ContextsCounted'
    BY <1>7, <1>9, <2>2 DEF Kept, ContextsCounted
  <2>5. OneWrite'
    <3> SUFFICES ASSUME client.patient
                 PROVE  Len(writes') <= 1 /\ socket' = "open"
      BY <1>1 DEF OneWrite
    <3>1. Len(writes) <= 1 /\ socket = "open"
      BY <1>1 DEF Kept, OneWrite
    <3> QED
      BY <1>9, <2>2, <3>1
  <2> QED
    BY <2>3, <2>4, <2>5 DEF Kept
<1>10. CASE writes' = Tail(writes) /\ CleanUp /\ response_buffer' = response_buffer
            /\ responses' = responses
  <2>1. /\ recursion_count' = recursion_count - 1
        /\ socket' = IF is_active THEN socket
                     ELSE IF recursion_count' = 0 THEN "deleted"
                     ELSE IF socket = "open" THEN "closed" ELSE "reused"
    BY <1>10 DEF CleanUp
  <2>2. recursion_count >= Len(writes) + (IF is_active THEN 0 ELSE 1)
    BY DEF Kept, ContextsCounted
  <2>3. recursion_count' \in Nat
    BY <1>0, <1>3, <2>1, <2>2
  <2>4. Typed'
    <3>1. Requests' = Requests /\ TotalSent' = TotalSent /\ Buffers' = Buffers
      BY <1>1, SameClient
    <3>2. socket' \in {"open", "closed", "reused", "deleted", "lost"}
      BY <1>1, <2>1
    <3>3. DOMAIN request_buffer' = Indices
      BY <1>1, <1>5 DEF Buffers
    <3>4. ConnectionTypeOK'
      BY <1>0, <1>1, <1>7, <1>8, <1>10, <2>3, <3>1, <3>2, <3>3
         DEF ConnectionTypeOK, Indices, Places
    <3> QED
      BY <1>0, <1>1, <1>3, <1>5, <1>10, <3>1, <3>4 DEF Typed, Contexts
  <2>5. ContextsCounted'
    BY <1>0, <1>3, <1>7, <1>10, <2>1, <2>2 DEF ContextsCounted
  <2>6. OneWrite'
    <3> SUFFICES ASSUME client.patient
                 PROVE  Len(writes') <= 1 /\ socket' # "reused" /\ writes' = << >>
      BY <1>1 DEF OneWrite
    <3>1. Len(writes) <= 1 /\ socket = "open"
      BY <1>1 DEF Kept, OneWrite
    <3>2. Len(writes') = 0
      BY <1>3, <1>10, <3>1
    <3>3. writes' \in Seq(Contexts)
      BY <1>3, <1>10
    <3>4. writes' = << >>
      <4> HIDE DEF Contexts
      <4> QED
        BY <3>2, <3>3
    <3> QED
      BY <2>1, <3>1, <3>2, <3>4
  <2> QED
    BY <2>4, <2>5, <2>6 DEF Kept
<1> QED
  BY <1>2, <1>9, <1>10

LEMMA StutterKeeps == Kept /\ UNCHANGED connection_vars => Kept'
<1> SUFFICES ASSUME Kept, UNCHANGED connection_vars PROVE Kept'
  OBVIOUS
<1>1. client' = client
  BY DEF connection_vars
<1>2. Requests' = Requests /\ TotalSent' = TotalSent /\ Buffers' = Buffers
  BY <1>1, SameClient
<1>3. Typed'
  BY <1>1, <1>2 DEF Kept, Typed, ConnectionTypeOK, connection_vars, Indices, Contexts
<1>4. ContextsCounted' /\ OneWrite'
  BY DEF Kept, ContextsCounted, OneWrite, connection_vars
<1> QED
  BY <1>3, <1>4 DEF Kept

LEMMA NextKeeps == Kept /\ [ConnectionNext]_connection_vars => Kept'
<1> SUFFICES ASSUME Kept, [ConnectionNext]_connection_vars PROVE Kept'
  OBVIOUS
<1>1. CASE \E n \in 1 .. BufferSize : Read(n)
  BY <1>1, ReadKeeps
<1>2. CASE PeerGone
  BY <1>2, PeerGoneKeeps
<1>3. CASE \E content_length \in LeftOver : WriteDone(content_length)
  BY <1>3, WriteDoneKeeps
<1>4. CASE UNCHANGED connection_vars
  BY <1>4, StutterKeeps
<1> QED
  BY <1>1, <1>2, <1>3, <1>4 DEF ConnectionNext

(* Whatever is left in content_length when a completed write begins, every     *)
(* write under way is counted, so that rtsp_server_write_cb() never works on  *)
(* a deleted connection; a patient client's connection never uses a socket   *)
(* that it has closed; and every counter of the buffer keeps to its bounds.   *)
THEOREM ContextsStayCounted ==
  ConnectionSpec => [](ConnectionTypeOK /\ ContextsCounted /\ SocketClosedOnce)
<1>1. Kept => ConnectionTypeOK /\ ContextsCounted /\ SocketClosedOnce
  BY DEF Kept, Typed, OneWrite, SocketClosedOnce
<1> QED
  BY <1>1, KeptAtFirst, NextKeeps, PTL DEF ConnectionSpec

------------------------------------------------------------------------------
(* What is found when the buffer begins with a request. *)

LEMMA LineEndsOf ==
  ASSUME client \in Clients, NEW r \in Requests, NEW buffer, NEW m \in 0 .. Size(r),
         Holds(buffer, 0, r, m)
  PROVE  \A p \in 0 .. m - 2 : LineEndsAt(buffer, p) <=> p \in {Text(r) + 1, Text(r) + 3}
<1> DEFINE T == Text(r)
<1>1. T \in Nat /\ Body(r) \in Nat /\ Size(r) = 5 + T + Body(r)
  BY RequestsTyped DEF Size
<1>2. BytesAre(RequestBytes(r), r)
  BY RequestBytesAre
<1> HIDE DEF T
<1>3. ASSUME NEW p \in 0 .. m - 1
      PROVE  /\ buffer[p][1] = "CR" <=> p \in {T + 1, T + 3}
             /\ buffer[p][1] = "LF" <=> p \in {T + 2, T + 4}
  <2>1. p + 1 \in 1 .. m /\ p + 1 \in 1 .. Size(r) /\ 0 + (p + 1) - 1 = p
    BY <1>1, <1>3
  <2>2. buffer[p] = RequestBytes(r)[p + 1]
    BY <2>1 DEF Holds
  <2>3. \/ p = 0 \/ p \in 1 .. T \/ p = T + 1 \/ p = T + 2 \/ p = T + 3 \/ p = T + 4
        \/ p \in T + 5 .. Size(r) - 1
    BY <1>1, <1>3
  <2>4. CASE p = 0
    <3>1. buffer[p] = <<"start", r>>
      BY <1>2, <2>2, <2>4 DEF BytesAre
    <3>2. buffer[p][1] = "start"
      BY <3>1
    <3> QED
      BY <1>1, <2>4, <3>2
  <2>5. CASE p \in 1 .. T
    <3>1. buffer[p] = <<"text", r>>
      <4>1. p + 1 \in 2 .. T + 1
        BY <1>1, <2>5
      <4> QED
        BY <1>2, <2>2, <4>1 DEF BytesAre, T
    <3>2. buffer[p][1] = "text"
      BY <3>1
    <3> QED
      BY <1>1, <2>5, <3>2
  <2>6. CASE p = T + 1
    <3>1. buffer[p] = <<"CR", r>>
      <4>1. p + 1 = T + 2
        BY <1>1, <2>6
      <4> QED
        BY <1>2, <2>2, <4>1 DEF BytesAre, T
    <3>2. buffer[p][1] = "CR"
      BY <3>1
    <3> QED
      BY <1>1, <2>6, <3>2
  <2>7. CASE p = T + 2
    <3>1. buffer[p] = <<"LF", r>>
      <4>1. p + 1 = T + 3
        BY <1>1, <2>7
      <4> QED
        BY <1>2, <2>2, <4>1 DEF BytesAre, T
    <3>2. buffer[p][1] = "LF"
      BY <3>1
    <3> QED
      BY <1>1, <2>7, <3>2
  <2>8. CASE p = T + 3
    <3>1. buffer[p] = <<"CR", r>>
      <4>1. p + 1 = T + 4
        BY <1>1, <2>8
      <4> QED
        BY <1>2, <2>2, <4>1 DEF BytesAre, T
    <3>2. buffer[p][1] = "CR"
      BY <3>1
    <3> QED
      BY <1>1, <2>8, <3>2
  <2>9. CASE p = T + 4
    <3>1. buffer[p] = <<"LF", r>>
      <4>1. p + 1 = T + 5
        BY <1>1, <2>9
      <4> QED
        BY <1>2, <2>2, <4>1 DEF BytesAre, T
    <3>2. buffer[p][1] = "LF"
      BY <3>1
    <3> QED
      BY <1>1, <2>9, <3>2
  <2>10. CASE p \in T + 5 .. Size(r) - 1
    <3>1. buffer[p] = <<"body", r>>
      <4>1. p + 1 \in T + 6 .. Size(r)
        BY <1>1, <2>10
      <4> QED
        BY <1>2, <2>2, <4>1 DEF BytesAre, T
    <3>2. buffer[p][1] = "body"
      BY <3>1
    <3> QED
      BY <1>1, <2>10, <3>2
  <2> QED
    BY <2>3, <2>4, <2>5, <2>6, <2>7, <2>8, <2>9, <2>10
<1>4. ASSUME NEW p \in 0 .. m - 2
      PROVE  LineEndsAt(buffer, p) <=> p \in {T + 1, T + 3}
  <2>1. p \in 0 .. m - 1 /\ p + 1 \in 0 .. m - 1
    BY <1>1
  <2>2. buffer[p][1] = "CR" <=> p \in {T + 1, T + 3}
    BY <1>3, <2>1
  <2>3. buffer[p + 1][1] = "LF" <=> p + 1 \in {T + 2, T + 4}
    BY <1>3, <2>1
  <2>4. p \in {T + 1, T + 3} <=> p + 1 \in {T + 2, T + 4}
    BY <1>1
  <2> QED
    BY <2>2, <2>3, <2>4 DEF LineEndsAt
<1> QED
  BY <1>4 DEF T

(* Where the search for line ends begins. *)
LEMMA SearchBegins ==
  ASSUME NEW T \in Nat, NEW last \in {-3, T + 1}
  PROVE  Max({last + 2, 0}) = IF last = -3 THEN 0 ELSE T + 3
<1> DEFINE S == {last + 2, 0}
<1>1. S \subseteq -1 .. T + 3 /\ S # {} /\ -1 \in Int /\ T + 3 \in Int /\ S = {last + 2, 0}
  OBVIOUS
<1> HIDE DEF S
<1>2. Max(S) \in S /\ \A y \in S : y <= Max(S)
  BY <1>1, LargestOf
<1>3. Max(S) = IF last = -3 THEN 0 ELSE T + 3
  BY <1>1, <1>2
<1> QED
  BY <1>3 DEF S

(* A whole text of a request is found, wherever the search begins. *)
Finds(look, r, m) ==
  /\ look.verdict = IF m < Size(r) THEN "incomplete" ELSE "complete"
  /\ look.last = Text(r) + 1 /\ look.request = r

LEMMA TextParsed ==
  ASSUME client \in Clients, NEW r \in Requests, NEW buffer,
         Holds(buffer, 0, r, Text(r) + 5)
  PROVE  ParsedRequest(buffer, Text(r) + 3) = r
<1> DEFINE T == Text(r)
           s == RequestBytes(r)
           text == [i \in 1 .. T + 5 |-> buffer[i - 1]]
<1>1. T \in Nat /\ Body(r) \in Nat /\ Size(r) = 5 + T + Body(r) /\ T + 3 + 2 = T + 5
  BY RequestsTyped DEF Size
<1>2. BytesAre(s, r)
  BY RequestBytesAre
<1>3. s \in Seq(Cells) /\ Len(s) = Size(r) /\ s[1] = <<"start", r>>
  BY <1>2 DEF BytesAre
<1>4. \A i \in 1 .. T + 5 : buffer[i - 1] = s[i]
  BY <1>1 DEF Holds
<1>5. buffer[0] = <<"start", r>> /\ buffer[0][2] = r
  <2>1. 1 \in 1 .. T + 5 /\ 1 - 1 = 0
    BY <1>1
  <2>2. buffer[0] = s[1]
    BY <1>4, <2>1
  <2>3. buffer[0] = <<"start", r>>
    BY <1>3, <2>2
  <2> QED
    BY <2>3
<1>6. r # 0 /\ r \in Nat
  BY RequestsTyped DEF Requests
<1>7. IsPrefix(text, s)
  <2> HIDE DEF s, T
  <2>1. text = [i \in 1 .. T + 5 |-> s[i]]
    BY <1>4
  <2> HIDE DEF text
  <2>2. Len(text) = T + 5
    BY <1>1, <2>1
  <2>3. SubSeq(s, 1, T + 5) = [i \in 1 .. T + 5 |-> s[i]]
    <3> HIDE DEF Cells
    <3> QED
      BY <1>1, <1>3
  <2>4. SubSeq(text, 1, T + 5) = text
    <3>1. \A i \in 1 .. T + 5 : s[i] \in Cells
      <4> HIDE DEF Cells
      <4> QED
        BY <1>1, <1>3
    <3>2. text \in Seq(Cells)
      <4> HIDE DEF Cells
      <4> QED
        BY <1>1, <2>1, <3>1
    <3> HIDE DEF Cells
    <3>3. T + 5 \in Nat
      BY <1>1
    <3>4. text = [i \in 1 .. T + 5 |-> text[i]]
      BY <2>1
    <3> QED
      BY <2>2, <3>2, <3>3, <3>4
  <2> QED
    BY <1>1, <1>3, <2>1, <2>2, <2>3, <2>4 DEF IsPrefix
<1> QED
  <2>1. text = [i \in 1 .. (Text(r) + 3) + 2 |-> buffer[i - 1]]
    BY <1>1
  <2> HIDE DEF text, s
  <2> QED
    BY <1>5, <1>6, <1>7, <2>1 DEF ParsedRequest, s

LEMMA LookFinds ==
  ASSUME client \in Clients, NEW r \in Requests, NEW buffer, Holds(buffer, 0, r, Text(r) + 5),
         NEW seen \in Nat, NEW n \in Nat, seen + n >= Text(r) + 5,
         NEW last \in {-3, Text(r) + 1}, NEW left, ~Refused(n, left)
  PROVE  Finds(LookAt(buffer, seen, left, last, n), r, seen + n)
<1> DEFINE T == Text(r)
           ends == LineEnds(buffer, seen, last, n)
           empty == EmptyLines(ends, last)
           end == Min(empty)
           request == ParsedRequest(buffer, end)
           early == seen + n < end + 2 + BodyLength(request)
           look == LookAt(buffer, seen, left, last, n)
<1>1. T \in Nat /\ Body(r) \in Nat /\ Size(r) = 5 + T + Body(r) /\ T + 5 \in 0 .. Size(r)
  BY RequestsTyped DEF Size
<1>2. look = IF empty = {}
               THEN [verdict |-> "incomplete", last |-> Max(ends \cup {last}), request |-> 0]
               ELSE [verdict |-> IF early THEN "incomplete" ELSE "complete",
                     last |-> end - 2, request |-> request]
  BY DEF LookAt
<1>3. ends = {p \in (IF last = -3 THEN 0 ELSE T + 3) .. seen + n - 2 : LineEndsAt(buffer, p)}
  <2>1. Max({last + 2, 0}) = IF last = -3 THEN 0 ELSE T + 3
    BY <1>1, SearchBegins
  <2> QED
    BY <2>1 DEF LineEnds
<1>4. \A p \in 0 .. T + 3 : LineEndsAt(buffer, p) <=> p \in {T + 1, T + 3}
  <2>1. \A p \in 0 .. (T + 5) - 2 : LineEndsAt(buffer, p) <=> p \in {T + 1, T + 3}
    BY <1>1, LineEndsOf
  <2> QED
    BY <1>1, <2>1
<1>5. empty = {p \in ends : p - 2 \in ends \cup {last}}
  BY DEF EmptyLines
<1> HIDE DEF empty, ends, T
<1>6. ends \subseteq 0 .. seen + n - 2
  BY <1>1, <1>3
<1>7. T + 3 \in ends /\ (last = -3 => T + 1 \in ends) /\ \A p \in ends : p >= T + 3 \/ p = T + 1
  BY <1>1, <1>3, <1>4 DEF T
<1>8. T + 3 \in empty
  <2>1. (T + 3) - 2 \in ends \cup {last}
    BY <1>1, <1>7 DEF T
  <2> QED
    BY <1>5, <1>7, <2>1
<1>9. \A p \in empty : p >= T + 3
  <2> SUFFICES ASSUME T + 1 \in empty PROVE FALSE
    BY <1>1, <1>5, <1>7
  <2>1. (T + 1) - 2 \in ends \cup {last}
    BY <1>5
  <2>2. T - 1 \notin ends /\ T - 1 # last
    BY <1>1, <1>7 DEF T
  <2> QED
    BY <1>1, <2>1, <2>2
<1>10. end = T + 3
  <2> HIDE DEF end
  <2>1. empty \subseteq ends /\ empty # {}
    BY <1>5, <1>8
  <2> DEFINE b == seen + n - 2
  <2>2. empty \subseteq 0 .. b /\ b \in Int /\ 0 \in Int /\ empty # {}
    BY <1>6, <2>1
  <2> HIDE DEF b
  <2>3. end \in empty /\ \A p \in empty : end <= p
    BY <2>2, SmallestOf DEF end
  <2>4. end \in Int
    BY <2>2, <2>3
  <2> QED
    BY <1>1, <1>8, <1>9, <2>3, <2>4
<1>11. request = r
  BY <1>10, TextParsed DEF T
<1>12. early <=> seen + n < Size(r)
  <2>1. r # 0
    BY RequestsTyped DEF Requests
  <2>2. BodyLength(request) = Body(r)
    BY <1>11, <2>1 DEF BodyLength, Body
  <2> HIDE DEF end, request
  <2> QED
    BY <1>1, <1>10, <2>2
<1> DEFINE verdict == IF seen + n < Size(r) THEN "incomplete" ELSE "complete"
           place == T + 1
<1>13. look = [verdict |-> verdict, last |-> place, request |-> r]
  <2>1. end - 2 = place
    <3> HIDE DEF end
    <3> QED
      BY <1>1, <1>10
  <2> HIDE DEF end, request, early, look
  <2> QED
    BY <1>2, <1>8, <1>11, <1>12, <2>1
<1>14. verdict = IF seen + n < Size(r) THEN "incomplete" ELSE "complete"
  OBVIOUS
<1> HIDE DEF look, verdict
<1>15. look.verdict = verdict /\ look.last = place /\ look.request = r
  BY <1>13
<1> QED
  BY <1>14, <1>15 DEF Finds, look, T

(* The last line end of the first n bytes of request r, while its text is not  *)
(* followed by an empty line.                                                *)
Mark(r, n) == IF n >= Text(r) + 3 THEN Text(r) + 1 ELSE -3

LEMMA LookWaits ==
  ASSUME client \in Clients, NEW r \in Requests, NEW buffer,
         NEW seen \in Nat, NEW n \in Nat \ {0}, seen + n < Text(r) + 5, Holds(buffer, 0, r, seen + n),
         NEW last, last = Mark(r, seen), NEW left, ~Refused(n, left)
  PROVE  /\ LookAt(buffer, seen, left, last, n).verdict = "incomplete"
         /\ LookAt(buffer, seen, left, last, n).last = Mark(r, seen + n)
<1> DEFINE T == Text(r)
           ends == LineEnds(buffer, seen, last, n)
           empty == EmptyLines(ends, last)
           look == LookAt(buffer, seen, left, last, n)
           place == Max(ends \cup {last})
<1>1. T \in Nat /\ Body(r) \in Nat /\ Size(r) = 5 + T + Body(r) /\ seen + n \in 0 .. Size(r)
      /\ last \in {-3, T + 1}
  BY RequestsTyped DEF Size, Mark
<1>2. ends = {p \in (IF last = -3 THEN 0 ELSE T + 3) .. seen + n - 2 : LineEndsAt(buffer, p)}
  <2>1. Max({last + 2, 0}) = IF last = -3 THEN 0 ELSE T + 3
    BY <1>1, SearchBegins
  <2> QED
    BY <2>1 DEF LineEnds
<1>3. \A p \in 0 .. seen + n - 2 : LineEndsAt(buffer, p) <=> p \in {T + 1, T + 3}
  BY <1>1, LineEndsOf
<1>4. empty = {p \in ends : p - 2 \in ends \cup {last}}
  BY DEF EmptyLines
<1> HIDE DEF ends, empty
<1>5. \A p \in ends : p = T + 1 /\ last = -3 /\ seen + n >= T + 3
  BY <1>1, <1>2, <1>3 DEF T
<1>6. last = -3 /\ seen + n >= T + 3 => T + 1 \in ends
  BY <1>1, <1>2, <1>3
<1>7. empty = {}
  <2> SUFFICES ASSUME NEW p \in empty PROVE FALSE
    OBVIOUS
  <2>1. p = T + 1 /\ last = -3 /\ p - 2 \in ends \cup {last}
    BY <1>4, <1>5
  <2>2. p - 2 = T + 1 \/ p - 2 = -3
    BY <1>5, <2>1
  <2> HIDE DEF T
  <2> QED
    BY <1>1, <2>1, <2>2
<1>8. place = Mark(r, seen + n)
  <2> DEFINE S == ends \cup {last}
  <2>1. CASE last = -3 /\ seen + n >= T + 3
    <3>1. S = {T + 1, -3}
      BY <1>5, <1>6, <2>1
    <3>2. -3 \in Int /\ T + 1 \in Int /\ S \subseteq -3 .. T + 1 /\ S # {}
      <4> HIDE DEF S
      <4> QED
        BY <1>1, <3>1
    <3> HIDE DEF S
    <3>3. Max(S) \in S /\ \A y \in S : y <= Max(S)
      BY <3>2, LargestOf
    <3>4. Max(S) = T + 1
      BY <1>1, <3>1, <3>3
    <3> QED
      BY <2>1, <3>4 DEF S, Mark
  <2>2. CASE ~(last = -3 /\ seen + n >= T + 3)
    <3>1. S = {last}
      BY <1>5, <2>2
    <3>2. last \in Int /\ S \subseteq last .. last /\ S # {}
      <4> HIDE DEF S
      <4> QED
        BY <1>1, <3>1
    <3> HIDE DEF S
    <3>3. Max(S) \in S
      BY <3>2, LargestOf
    <3>4. Max(S) = last
      BY <3>1, <3>3
    <3>5. last = Mark(r, seen + n)
      BY <1>1, <2>2 DEF Mark
    <3> QED
      BY <3>4, <3>5 DEF S
  <2> QED
    BY <2>1, <2>2
<1> HIDE DEF place
<1>9. look = [verdict |-> "incomplete", last |-> place, request |-> 0]
  BY <1>7 DEF LookAt, ends, empty, place
<1> HIDE DEF look
<1>10. look.verdict = "incomplete" /\ look.last = place
  BY <1>9
<1> QED
  BY <1>8, <1>10 DEF look

------------------------------------------------------------------------------
(* A patient client is answered in order.                                     *)

LEMMA SameRequests ==
  ASSUME client' = client
  PROVE  \A r : /\ Text(r)' = Text(r) /\ Body(r)' = Body(r) /\ Size(r)' = Size(r)
                /\ RequestBytes(r)' = RequestBytes(r) /\ EndOf(r)' = EndOf(r)
<1>1. \A r : Text(r)' = Text(r) /\ Body(r)' = Body(r) /\ RequestBytes(r)' = RequestBytes(r)
  BY DEF Text, Body, RequestBytes
<1>2. SentUpTo' = SentUpTo
  BY DEF SentUpTo, RequestBytes
<1>3. \A r : Size(r)' = Size(r) /\ EndOf(r)' = EndOf(r)
  BY <1>1, <1>2 DEF Size, EndOf
<1> QED
  BY <1>1, <1>3

LEMMA SmallerOf ==
  ASSUME NEW a \in Int, NEW b \in Int
  PROVE  Min({a, b}) = IF a <= b THEN a ELSE b
<1> DEFINE S == {a, b}
           low == IF a <= b THEN a ELSE b
           high == IF a <= b THEN b ELSE a
<1>1. S \subseteq low .. high /\ S # {} /\ low \in Int /\ high \in Int /\ low \in S
      /\ \A x \in S : low <= x
  OBVIOUS
<1> HIDE DEF S, low, high
<1>2. Min(S) \in S /\ \A x \in S : Min(S) <= x
  BY <1>1, SmallestOf
<1>3. Min(S) = low
  <2>0. \A x \in S : x \in Int
    BY DEF S
  <2>1. Min(S) \in Int
    BY <1>2, <2>0
  <2>2. Min(S) <= low /\ low <= Min(S)
    BY <1>1, <1>2
  <2> QED
    BY <1>1, <2>1, <2>2
<1> QED
  BY <1>3 DEF S, low

(* None of the requests before request k has a body. *)
Clean(k) == \A q \in Requests : q < k => Body(q) = 0

Answered ==
  \A k \in 1 .. Len(responses) :
    Clean(k) => k \in Requests /\ responses[k] = Due(k) /\ EndOf(k) <= received

(* The response buffer keeps the response that was written last. *)
LastWritten ==
  response_buffer = IF Len(responses) = 0 THEN 0 ELSE responses[Len(responses)]

(* With no write under way, the buffer holds what has been read of the request *)
(* whose turn it is, if there is another.                                     *)
Awaiting ==
  writes = << >> /\ Clean(Len(responses) + 1) =>
    /\ received = EndOf(Len(responses)) + request_bytes_already_seen
    /\ Len(responses) + 1 \notin Requests => request_bytes_already_seen = 0
    /\ Len(responses) + 1 \in Requests =>
         /\ request_bytes_already_seen < Size(Len(responses) + 1)
         /\ Holds(request_buffer, 0, Len(responses) + 1, request_bytes_already_seen)
         /\ last_crlf = Mark(Len(responses) + 1, request_bytes_already_seen)

(* During a write it is filled with the request answered, and nothing else. *)
Answering ==
  writes # << >> /\ Clean(Len(responses)) =>
    /\ Len(responses) \in Requests
    /\ received = EndOf(Len(responses))
    /\ request_bytes_already_seen = Size(Len(responses))
    /\ last_crlf = Text(Len(responses)) + 1

Orderly == client.patient /\ is_active => Answered /\ Awaiting /\ Answering

LEMMA ResponsesCounted == Kept => Len(responses) \in Nat /\ responses \in Seq(Requests \cup {0})
<1> DEFINE S == Requests \cup {0}
<1>1. Kept => responses \in Seq(S)
  BY DEF Kept, Typed
<1> HIDE DEF S
<1>2. responses \in Seq(S) => Len(responses) \in Nat
  OBVIOUS
<1> QED
  BY <1>1, <1>2 DEF S

LEMMA LastWrittenStays ==
  ASSUME Kept, Kept', LastWritten, [ConnectionNext]_connection_vars
  PROVE  LastWritten'
<1> DEFINE S == Requests \cup {0}
<1>1. responses \in Seq(S) /\ client' = client
  BY ResponsesCounted DEF ConnectionNext, Read, PeerGone, WriteDone, connection_vars
<1>2. response_buffer' \in S
  BY <1>1, SameClient DEF Kept, Typed, ConnectionTypeOK
<1>3. \/ responses' = Append(responses, response_buffer')
      \/ responses' = responses /\ response_buffer' = response_buffer
  <2>1. \/ \E pending, request, n : Respond(pending, request, n)
        \/ responses' = responses /\ response_buffer' = response_buffer
    <3>1. CASE \E n \in 1 .. BufferSize : Read(n)
      BY <3>1 DEF Read
    <3>2. CASE \E content_length \in LeftOver : WriteDone(content_length)
      BY <3>2 DEF WriteDone
    <3>3. CASE PeerGone \/ UNCHANGED connection_vars
      BY <3>3 DEF PeerGone, connection_vars
    <3> QED
      BY <3>1, <3>2, <3>3 DEF ConnectionNext
  <2> QED
    BY <2>1 DEF Respond
<1> HIDE DEF S
<1>4. CASE responses' = Append(responses, response_buffer')
  <2>1. Len(responses') = Len(responses) + 1 /\ responses'[Len(responses) + 1] = response_buffer'
        /\ Len(responses) \in Nat
    BY <1>1, <1>2, <1>4
  <2> QED
    BY <2>1 DEF LastWritten
<1> QED
  BY <1>3, <1>4 DEF LastWritten

(* What a read brings of request r. *)
NextRead(r) ==
  /\ r \in Requests
  /\ received' = EndOf(r - 1) + request_bytes_already_seen'
  /\ request_bytes_already_seen' \in 0 .. Size(r)
  /\ Holds(request_buffer', 0, r, request_bytes_already_seen')
  /\ last_crlf' = Mark(r, request_bytes_already_seen')
  /\ \/ request_bytes_already_seen' < Size(r) /\ responses' = responses /\ writes' = writes
     \/ /\ request_bytes_already_seen' = Size(r) /\ responses' = Append(responses, Answer(r))
        /\ writes' # << >>

LEMMA NextRequestRead ==
  ASSUME Kept, client.patient, is_active, Answered, Awaiting, Clean(Len(responses) + 1),
         NEW n \in 1 .. BufferSize, Read(n), is_active'
  PROVE  NextRead(Len(responses) + 1)
<1> DEFINE K == Len(responses)
           r == K + 1
           N == Len(client.requests)
           seen == request_bytes_already_seen
           left == request_buffer_bytes_left
           buffer == [i \in Indices |-> IF i \in seen .. seen + n - 1
                                          THEN Sent[received + 1 + i - seen] ELSE request_buffer[i]]
           look == LookAt(buffer, seen, left, last_crlf, n)
<1>0. /\ client \in Clients /\ BufferSize \in Nat \ {0} /\ n \in Nat \ {0}
      /\ seen \in 0 .. BufferSize - 1 /\ left = BufferSize - seen
      /\ writes \in Seq(Contexts) /\ N \in Nat /\ Requests = 1 .. N
  BY SizesAssumption, RequestsTyped DEF Kept, Typed, ConnectionTypeOK, Requests
<1>1. /\ writes = << >> /\ received + n <= EndOf(Min({r, N}))
      /\ received' = received + n
      /\ request_buffer' = buffer /\ last_crlf' = look.last
      /\ Count(seen, left, n, look.verdict)
      /\ look.verdict # "refused"
  BY DEF Read, MayArrive
<1>2. \/ look.verdict = "complete" /\ Respond(writes, look.request, n)
      \/ look.verdict # "complete" /\ UNCHANGED <<response_buffer, responses, writes>>
  BY DEF Read
<1>3. ~Refused(n, left) /\ seen + n \in 1 .. BufferSize - 1
  <2>1. Refused(n, left) => look.verdict = "refused"
    <3>1. Refused(n, left) => look = [verdict |-> "refused", last |-> last_crlf, request |-> 0]
      BY DEF LookAt
    <3> HIDE DEF look
    <3> QED
      BY <3>1
  <2>2. ~Refused(n, left)
    BY <1>1, <2>1
  <2> QED
    BY <1>0, <2>2 DEF Refused
<1>4. K \in Nat /\ (K = 0 \/ K \in Requests)
  <2>1. K \in Nat
    BY ResponsesCounted
  <2>2. Clean(K)
    BY <1>0, <2>1 DEF Clean
  <2> QED
    BY <2>1, <2>2 DEF Answered
<1>5. /\ received = EndOf(K) + seen
      /\ r \notin Requests => seen = 0
      /\ r \in Requests => /\ seen < Size(r) /\ Holds(request_buffer, 0, r, seen)
                           /\ last_crlf = Mark(r, seen)
  BY <1>1 DEF Awaiting
<1>6. r \in Requests
  <2> SUFFICES ASSUME r \notin Requests PROVE FALSE
    OBVIOUS
  <2>1. K = N /\ seen = 0
    BY <1>0, <1>4, <1>5
  <2>2. Min({r, N}) = N
    BY <1>0, <1>4, <2>1, SmallerOf
  <2>3. EndOf(N) \in Nat
    BY <1>0, EndsGrow
  <2>4. EndOf(N) + n <= EndOf(N)
    BY <1>1, <1>5, <2>1, <2>2, <2>3
  <2> QED
    BY <1>0, <2>3, <2>4
<1> HIDE DEF buffer, look
<1>7. /\ EndOf(K) \in Nat /\ EndOf(r) = EndOf(K) + Size(r) /\ TotalSent \in Nat /\ EndOf(r) <= TotalSent
      /\ \A i \in 1 .. Size(r) : Sent[EndOf(K) + i] = RequestBytes(r)[i]
  <2>1. r - 1 = K
    BY <1>4
  <2> QED
    BY <1>0, <1>6, <2>1, SentHolds
<1>8. Text(r) \in Nat /\ Body(r) \in Nat /\ Size(r) = 5 + Text(r) + Body(r)
  BY <1>0, <1>6, RequestsTyped DEF Size
<1>9. seen + n <= Size(r)
  <2>1. Min({r, N}) = r
    BY <1>0, <1>4, <1>6, SmallerOf
  <2> QED
    BY <1>0, <1>1, <1>5, <1>7, <1>8, <2>1
<1> HIDE DEF K, N, seen, left, r
<1> SUFFICES NextRead(r)
  BY DEF r, K
<1>10. Holds(buffer, 0, r, seen + n)
  <2>1. ASSUME NEW i \in 1 .. seen + n PROVE buffer[0 + i - 1] = RequestBytes(r)[i]
    <3>1. i - 1 \in Indices /\ 0 + i - 1 = i - 1 /\ i \in Int /\ i \in 1 .. Size(r)
      BY <1>0, <1>3, <1>8, <1>9 DEF Indices
    <3>2. CASE i <= seen
      <4>1. buffer[i - 1] = request_buffer[i - 1]
        <5>1. i - 1 \notin seen .. seen + n - 1
          BY <1>0, <3>1, <3>2
        <5> QED
          BY <3>1, <5>1 DEF buffer
      <4>2. request_buffer[0 + i - 1] = RequestBytes(r)[i]
        <5>1. i \in 1 .. seen
          BY <3>1, <3>2
        <5> QED
          BY <1>5, <1>6, <5>1 DEF Holds
      <4> QED
        BY <3>1, <4>1, <4>2
    <3>3. CASE i > seen
      <4>1. i - 1 \in seen .. seen + n - 1
        BY <1>0, <3>1, <3>3
      <4>2. buffer[i - 1] = Sent[received + 1 + (i - 1) - seen]
        BY <3>1, <4>1 DEF buffer
      <4>3. received + 1 + (i - 1) - seen = EndOf(K) + i
        BY <1>0, <1>5, <1>7, <3>1
      <4> QED
        BY <1>7, <3>1, <4>2, <4>3
    <3> QED
      BY <1>0, <3>1, <3>2, <3>3
  <2> QED
    BY <2>1 DEF Holds
<1>11. request_bytes_already_seen' = seen + n
  BY <1>1 DEF Count
<1>12. received' = EndOf(K) + (seen + n)
  BY <1>0, <1>1, <1>5, <1>7
<1>13. CASE seen + n < Text(r) + 5
  <2>1. look.verdict = "incomplete" /\ look.last = Mark(r, seen + n)
    <3>1. seen \in Nat /\ last_crlf = Mark(r, seen)
      BY <1>0, <1>5, <1>6
    <3> QED
      BY <1>0, <1>3, <1>6, <1>10, <1>13, <3>1, LookWaits DEF look
  <2>2. responses' = responses /\ writes' = writes
    BY <1>2, <2>1
  <2>3. seen + n < Size(r) /\ seen + n \in 0 .. Size(r)
    BY <1>0, <1>3, <1>8, <1>13
  <2>4. r - 1 = K
    BY <1>4 DEF r
  <2> QED
    BY <1>1, <1>6, <1>10, <1>11, <1>12, <2>1, <2>2, <2>3, <2>4 DEF NextRead
<1>14. CASE seen + n >= Text(r) + 5
  <2>1. Finds(look, r, seen + n)
    <3>1. seen \in Nat /\ n \in Nat /\ last_crlf \in {-3, Text(r) + 1}
      BY <1>0, <1>5, <1>6 DEF Mark
    <3>2. Holds(buffer, 0, r, Text(r) + 5)
      BY <1>0, <1>3, <1>8, <1>10, <1>14 DEF Holds
    <3> QED
      BY <1>0, <1>3, <1>6, <1>14, <3>1, <3>2, LookFinds DEF look
  <2>2. look.last = Mark(r, seen + n) /\ look.request = r
    BY <1>0, <1>8, <1>14, <2>1 DEF Finds, Mark
  <2>3. seen + n \in 0 .. Size(r) /\ r - 1 = K /\ r # 0
    BY <1>0, <1>3, <1>4, <1>9, <1>8 DEF r
  <2>4. CASE seen + n < Size(r)
    <3>1. responses' = responses /\ writes' = writes
      BY <1>2, <2>1, <2>4 DEF Finds
    <3> QED
      BY <1>1, <1>6, <1>10, <1>11, <1>12, <2>2, <2>3, <2>4, <3>1 DEF NextRead
  <2>5. CASE ~(seen + n < Size(r))
    <3>1. Respond(writes, r, n)
      BY <1>2, <2>1, <2>2, <2>5 DEF Finds
    <3>2. responses' = Append(responses, Answer(r))
      BY <3>1 DEF Respond
    <3>3. writes' = Append(writes, n) /\ writes' # << >>
      <4>1. writes' = Append(writes, n) /\ n \in Contexts
        BY <1>0, <1>3, <3>1 DEF Respond, Contexts
      <4> HIDE DEF Contexts
      <4> QED
        BY <1>0, <4>1
    <3>4. seen + n = Size(r)
      BY <1>0, <1>8, <1>9, <2>5
    <3> QED
      BY <1>1, <1>6, <1>10, <1>11, <1>12, <2>2, <2>3, <3>2, <3>3, <3>4 DEF NextRead
  <2> QED
    BY <2>4, <2>5
<1> QED
  BY <1>0, <1>8, <1>13, <1>14

LEMMA CleanSame ==
  ASSUME client' = client
  PROVE  Requests' = Requests /\ \A k : Clean(k)' = Clean(k)
<1>1. Requests' = Requests /\ \A r : Body(r)' = Body(r)
  BY SameClient, SameRequests
<1> QED
  BY <1>1 DEF Clean

LEMMA CleanBefore ==
  ASSUME client \in Clients, NEW k \in Nat, NEW m \in Nat, k <= m, Clean(m)
  PROVE  Clean(k)
<1>1. \A q \in Requests : q \in Nat
  BY RequestsTyped DEF Requests
<1>2. \A q \in Requests : q < k => q < m
  BY <1>1
<1> QED
  BY <1>2 DEF Clean

(* An answer more, when it is in order. *)
LEMMA AnsweredStays ==
  ASSUME Kept, client' = client, Answered, LastWritten, received' \in Nat, received <= received',
         NEW answer,
         \/ responses' = responses
         \/ /\ responses' = Append(responses, answer) /\ answer \in Requests \cup {0}
            /\ Clean(Len(responses) + 1) =>
                 /\ answer = Answer(Len(responses) + 1) /\ Len(responses) + 1 \in Requests
                 /\ EndOf(Len(responses) + 1) <= received'
  PROVE  Answered'
<1> DEFINE K == Len(responses)
<1>0. client \in Clients /\ received \in Nat
  <2>1. client \in Clients /\ received \in 0 .. TotalSent
    BY DEF Kept, Typed, ConnectionTypeOK
  <2> QED
    BY <2>1
<1>1. K \in Nat
  BY ResponsesCounted
<1>2. Requests' = Requests /\ (\A k : Clean(k)' = Clean(k)) /\ \A k : EndOf(k)' = EndOf(k)
  BY CleanSame, SameRequests
<1>3. \A k \in Requests : EndOf(k) \in Nat
  <2>1. ASSUME NEW k \in Requests PROVE k \in 0 .. Len(client.requests)
    BY <1>0, RequestsTyped DEF Requests
  <2> QED
    BY <1>0, <2>1, EndsGrow
<1>4. ASSUME NEW k \in 1 .. K, Clean(k)
      PROVE  k \in Requests /\ responses[k] = Due(k) /\ EndOf(k) <= received'
  <2>1. k \in Requests /\ responses[k] = Due(k) /\ EndOf(k) <= received
    BY <1>4 DEF Answered
  <2> QED
    BY <1>0, <1>3, <2>1
<1>5. CASE responses' = responses
  <2>1. \A k : Due(k)' = Due(k)
    BY <1>5 DEF Due
  <2> QED
    BY <1>2, <1>4, <1>5, <2>1 DEF Answered
<1>6. CASE /\ responses' = Append(responses, answer) /\ answer \in Requests \cup {0}
           /\ Clean(K + 1) => /\ answer = Answer(K + 1) /\ K + 1 \in Requests
                              /\ EndOf(K + 1) <= received'
  <2> DEFINE S == Requests \cup {0}
  <2>1. responses \in Seq(S) /\ answer \in S
    BY <1>6, ResponsesCounted
  <2> HIDE DEF S
  <2>2. Len(responses') = K + 1 /\ responses'[K + 1] = answer
        /\ \A k \in 1 .. K : responses'[k] = responses[k]
    BY <1>6, <2>1
  <2>3. response_buffer = IF K = 0 THEN 0 ELSE responses[K]
    BY DEF LastWritten
  <2> HIDE DEF K
  <2>4. ASSUME NEW k \in Nat, k = K + 1
        PROVE  Due(k)' = IF client.requests[k].answers THEN k ELSE IF K = 0 THEN 0 ELSE responses[K]
    <3>1. K # 0 => K \in 1 .. K
      BY <1>1
    <3>2. K # 0 => responses'[(K + 1) - 1] = responses[K]
      BY <1>1, <2>2, <3>1
    <3>3. (k = 1) <=> (K = 0)
      BY <1>1, <2>4
    <3>4. Due(k)' = IF client.requests[k].answers THEN k ELSE IF k = 1 THEN 0 ELSE responses'[k - 1]
      BY DEF Due
    <3> QED
      BY <2>4, <3>2, <3>3, <3>4
  <2>5. ASSUME NEW k \in Nat, k = K + 1
        PROVE  Answer(K + 1) = Due(k)'
    <3>1. k # 0
      BY <1>1, <2>5
    <3> QED
      BY <2>3, <2>4, <2>5, <3>1 DEF Answer
  <2>6. ASSUME NEW k \in 1 .. K
        PROVE  Due(k)' = Due(k)
    <3>1. k # 1 => k - 1 \in 1 .. K
      BY <1>1
    <3>2. k # 1 => responses'[k - 1] = responses[k - 1]
      BY <2>2, <3>1
    <3> QED
      BY <3>2 DEF Due
  <2>7. ASSUME NEW k \in 1 .. K + 1, Clean(k)
        PROVE  k \in Requests /\ responses'[k] = Due(k)' /\ EndOf(k) <= received'
    <3>1. CASE k = K + 1
      <4>1. k \in Nat
        BY <1>1
      <4> QED
        BY <1>6, <2>2, <2>5, <2>7, <3>1, <4>1
    <3>2. CASE k # K + 1
      <4>1. k \in 1 .. K
        BY <1>1, <3>2
      <4> QED
        BY <1>4, <2>2, <2>6, <2>7, <4>1
    <3> QED
      BY <3>1, <3>2
  <2> QED
    BY <1>2, <2>2, <2>7 DEF Answered
<1> QED
  BY <1>5, <1>6

(* Behind a request with a body, nothing is said of the order. *)
LEMMA UncleanStays ==
  ASSUME Kept, client' = client, Answered, LastWritten, received' \in Nat, received <= received',
         ~Clean(Len(responses) + 1),
         \/ \E answer \in Requests \cup {0} : responses' = Append(responses, answer)
         \/ responses' = responses /\ writes' = << >>
  PROVE  Answered' /\ Awaiting' /\ Answering'
<1> DEFINE K == Len(responses)
<1>1. client \in Clients /\ K \in Nat /\ responses \in Seq(Requests \cup {0})
  BY ResponsesCounted DEF Kept, Typed
<1>2. \A k : Clean(k)' = Clean(k)
  BY CleanSame
<1>3. CASE responses' = responses /\ writes' = << >>
  <2>1. Answered'
    BY <1>3, AnsweredStays
  <2>2. ~Clean(Len(responses) + 1)'
    BY <1>2, <1>3
  <2> QED
    BY <1>3, <2>1, <2>2 DEF Awaiting, Answering
<1>4. ASSUME NEW answer \in Requests \cup {0}, responses' = Append(responses, answer)
      PROVE  Answered' /\ Awaiting' /\ Answering'
  <2>1. Answered'
    BY <1>4, AnsweredStays
  <2>2. Len(responses') = K + 1
    <3> DEFINE S == Requests \cup {0}
    <3>1. responses \in Seq(S) /\ answer \in S
      BY <1>1
    <3> HIDE DEF S
    <3> QED
      BY <1>4, <3>1
  <2>3. ~Clean(K + 2)
    BY <1>1, CleanBefore
  <2>4. ~Clean(Len(responses))' /\ ~Clean(Len(responses) + 1)'
    <3>1. Len(responses') + 1 = K + 2
      BY <1>1, <2>2
    <3> QED
      BY <1>2, <2>2, <2>3, <3>1
  <2> QED
    BY <2>1, <2>4 DEF Awaiting, Answering
<1> QED
  BY <1>3, <1>4

LEMMA ReadOrderly ==
  ASSUME Kept, Kept', Orderly, LastWritten, NEW n \in 1 .. BufferSize, Read(n)
  PROVE  Orderly'
<1> DEFINE K == Len(responses)
<1>1. client' = client /\ received' = received + n /\ (is_active' => is_active) /\ MayArrive(n)
  BY DEF Read
<1> SUFFICES ASSUME client.patient, is_active' PROVE Answered' /\ Awaiting' /\ Answering'
  BY <1>1 DEF Orderly
<1>2. is_active /\ writes = << >> /\ Answered /\ Awaiting
  BY <1>1 DEF Orderly, MayArrive
<1>3. client \in Clients /\ received \in Nat /\ received' \in Nat /\ received <= received'
      /\ K \in Nat
  <2>1. client \in Clients /\ received \in 0 .. TotalSent
    BY DEF Kept, Typed, ConnectionTypeOK
  <2> QED
    BY <1>1, <2>1, ResponsesCounted
<1>4. Requests' = Requests /\ (\A k : Clean(k)' = Clean(k))
      /\ \A r : /\ Text(r)' = Text(r) /\ Body(r)' = Body(r) /\ Size(r)' = Size(r)
                /\ RequestBytes(r)' = RequestBytes(r) /\ EndOf(r)' = EndOf(r)
  BY <1>1, CleanSame, SameRequests
<1>5. responses \in Seq(Requests \cup {0})
  BY ResponsesCounted
<1>6. CASE Clean(K + 1)
  <2> DEFINE r == K + 1
  <2>1. NextRead(r)
    BY <1>2, <1>6, NextRequestRead
  <2> HIDE DEF r
  <2>2. /\ r \in Requests /\ received' = EndOf(r - 1) + request_bytes_already_seen'
        /\ request_bytes_already_seen' \in 0 .. Size(r)
        /\ Holds(request_buffer', 0, r, request_bytes_already_seen')
        /\ last_crlf' = Mark(r, request_bytes_already_seen')
    BY <2>1 DEF NextRead
  <2>3. /\ r = K + 1 /\ r - 1 = K /\ EndOf(r) = EndOf(r - 1) + Size(r) /\ EndOf(r - 1) \in Nat
        /\ Text(r) \in Nat /\ Body(r) \in Nat /\ Size(r) = 5 + Text(r) + Body(r)
    BY <1>3, <2>2, SentHolds, RequestsTyped DEF r, Size
  <2>4. CASE request_bytes_already_seen' < Size(r) /\ responses' = responses /\ writes' = writes
    <3>1. Answered'
      BY <1>1, <1>2, <1>3, <2>4, AnsweredStays
    <3>2. Awaiting'
      <4>1. Holds(request_buffer, 0, r, request_bytes_already_seen)'
        <5>1. \A i \in 1 .. request_bytes_already_seen' :
                request_buffer'[0 + i - 1] = RequestBytes(r)[i]
          BY <2>2 DEF Holds
        <5>2. r' = r
          BY <2>4 DEF r
        <5> QED
          BY <1>4, <5>1, <5>2 DEF Holds
      <4>2. Mark(r, request_bytes_already_seen)' = Mark(r, request_bytes_already_seen')
        <5>1. r' = r
          BY <2>4 DEF r
        <5> QED
          BY <1>4, <5>1 DEF Mark
      <4> QED
        BY <1>4, <2>2, <2>3, <2>4, <4>1, <4>2 DEF Awaiting, r
    <3>3. Answering'
      BY <1>2, <2>4 DEF Answering
    <3> QED
      BY <3>1, <3>2, <3>3
  <2>5. CASE /\ request_bytes_already_seen' = Size(r) /\ responses' = Append(responses, Answer(r))
             /\ writes' # << >>
    <3>1. received' = EndOf(r)
      BY <2>2, <2>3, <2>5
    <3>2. Answered'
      <4>1. EndOf(r) <= received' /\ Answer(r) \in Requests \cup {0}
        BY <1>3, <2>2, <3>1 DEF Answer, Kept, Typed, ConnectionTypeOK
      <4> QED
        BY <1>1, <1>2, <1>3, <2>2, <2>3, <2>5, <4>1, AnsweredStays
    <3>3. Awaiting'
      BY <2>5 DEF Awaiting
    <3>4. Len(responses') = r
      <4> DEFINE S == Requests \cup {0}
      <4>1. responses \in Seq(S) /\ Answer(r) \in S
        BY <1>5, <2>2 DEF Answer, Kept, Typed, ConnectionTypeOK
      <4> HIDE DEF S
      <4> QED
        BY <2>3, <2>5, <4>1
    <3>5. Answering'
      <4>1. Mark(r, Size(r)) = Text(r) + 1
        BY <2>3 DEF Mark
      <4>2. \A k : (k = r) => /\ k \in Requests' /\ received' = EndOf(k)'
                              /\ request_bytes_already_seen' = Size(k)'
                              /\ last_crlf' = Text(k)' + 1
        BY <1>4, <2>2, <2>5, <3>1, <4>1
      <4>3. EndOf(Len(responses))' = EndOf(r) /\ Size(Len(responses))' = Size(r)
            /\ Text(Len(responses))' = Text(r)
        BY <1>4, <3>4
      <4> QED
        BY <1>4, <2>2, <2>5, <3>1, <3>4, <4>1, <4>3 DEF Answering
    <3> QED
      BY <3>2, <3>3, <3>5
  <2> QED
    BY <2>1, <2>4, <2>5 DEF NextRead
<1>7. CASE ~Clean(K + 1)
  <2>1. \/ \E answer \in Requests \cup {0} : responses' = Append(responses, answer)
        \/ responses' = responses /\ writes' = << >>
    <3>1. \/ \E request : Respond(writes, request, n)
          \/ responses' = responses /\ writes' = writes
      BY DEF Read
    <3>2. response_buffer' \in Requests \cup {0}
      BY <1>4 DEF Kept, Typed, ConnectionTypeOK
    <3> QED
      BY <1>2, <3>1, <3>2 DEF Respond
  <2> QED
    BY <1>1, <1>2, <1>3, <1>7, <2>1, UncleanStays
<1> QED
  BY <1>6, <1>7

LEMMA TailOfOne ==
  ASSUME NEW S, NEW s \in Seq(S), s # << >>, Len(s) <= 1
  PROVE  Tail(s) = << >>
<1>1. Len(s) = 1
  <2>1. Len(s) \in Nat
    OBVIOUS
  <2>2. Len(s) # 0
    BY EmptySeq
  <2> QED
    BY <2>1, <2>2
<1>2. Tail(s) \in Seq(S) /\ Len(Tail(s)) = 0
  BY <1>1
<1> DEFINE u == Tail(s)
<1>3. u \in Seq(S) /\ Len(u) = 0
  BY <1>2
<1> HIDE DEF u
<1>4. u = << >>
  BY <1>3
<1> QED
  BY <1>4 DEF u

LEMMA WriteDoneOrderly ==
  ASSUME Kept, Kept', Orderly, LastWritten, WriteDone(0)
  PROVE  Orderly'
<1> DEFINE K == Len(responses)
           size == last_crlf + 4 + 0
           remaining == request_bytes_already_seen - size
<1>1. /\ client' = client /\ received' = received /\ (is_active' => is_active)
      /\ writes # << >> /\ socket \in {"open", "closed"}
  BY DEF WriteDone
<1> SUFFICES ASSUME client.patient, is_active' PROVE Answered' /\ Awaiting' /\ Answering'
  BY <1>1 DEF Orderly
<1>2. Answered /\ Answering
  BY <1>1 DEF Orderly
<1>3. client \in Clients /\ received \in Nat /\ received' \in Nat /\ received <= received'
      /\ K \in Nat
  <2>1. client \in Clients /\ received \in 0 .. TotalSent
    BY DEF Kept, Typed, ConnectionTypeOK
  <2> QED
    BY <1>1, <2>1, ResponsesCounted
<1>4. Requests' = Requests /\ (\A k : Clean(k)' = Clean(k))
      /\ \A r : /\ Text(r)' = Text(r) /\ Body(r)' = Body(r) /\ Size(r)' = Size(r)
                /\ RequestBytes(r)' = RequestBytes(r) /\ EndOf(r)' = EndOf(r)
  BY <1>1, CleanSame, SameRequests
<1>5. Tail(writes) = << >>
  <2>1. writes \in Seq(Contexts) /\ Len(writes) <= 1
    BY DEF Kept, Typed, OneWrite
  <2> QED
    BY <1>1, <2>1, TailOfOne
<1>6. CASE Clean(K + 1)
  <2>1. Clean(K)
    <3>1. K + 1 \in Nat /\ K <= K + 1
      BY <1>3
    <3> QED
      BY <1>3, <1>6, <3>1, CleanBefore
  <2>2. /\ K \in Requests /\ received = EndOf(K)
        /\ request_bytes_already_seen = Size(K) /\ last_crlf = Text(K) + 1
    BY <1>1, <1>2, <2>1 DEF Answering
  <2>3. Body(K) = 0 /\ Text(K) \in Nat /\ Size(K) = 5 + Text(K)
    <3>1. K < K + 1
      BY <1>3
    <3>2. Body(K) = 0
      BY <1>6, <2>2, <3>1 DEF Clean
    <3> QED
      BY <1>3, <2>2, <3>2, RequestsTyped DEF Size
  <2>4. remaining = 0
    <3>1. last_crlf = Text(K) + 1 /\ request_bytes_already_seen = 5 + Text(K) /\ Text(K) \in Nat
      BY <2>2, <2>3
    <3> HIDE DEF K
    <3> QED
      BY <3>1
  <2>5. /\ request_bytes_already_seen' = 0 /\ last_crlf' = FreshLastCrlf
        /\ writes' = Tail(writes) /\ responses' = responses
    <3> HIDE DEF remaining
    <3>1. /\ last_crlf' = IF remaining # 0 THEN last_crlf' ELSE FreshLastCrlf
          /\ remaining = 0 => request_bytes_already_seen' = 0
          /\ remaining = 0 => writes' = Tail(writes) /\ responses' = responses
      BY DEF WriteDone, remaining, size
    <3> QED
      BY <2>4, <3>1
  <2>6. Answered'
    BY <1>1, <1>2, <1>3, <2>5, AnsweredStays
  <2>7. Answering'
    BY <1>5, <2>5 DEF Answering
  <2>8. Awaiting'
    <3>1. received' = EndOf(K) + 0
      BY <1>1, <1>3, <2>2
    <3>2. K + 1 \in Requests => 0 < Size(K + 1) /\ Mark(K + 1, 0) = -3
      BY <1>3, RequestsTyped DEF Size, Mark
    <3>3. \A r : Mark(r, request_bytes_already_seen)' = Mark(r, request_bytes_already_seen')
      BY <1>4 DEF Mark
    <3>4. Holds(request_buffer, 0, Len(responses) + 1, request_bytes_already_seen)'
      BY <2>5 DEF Holds
    <3> QED
      BY <1>4, <2>5, <3>1, <3>2, <3>3, <3>4 DEF Awaiting, FreshLastCrlf
  <2> QED
    BY <2>6, <2>7, <2>8
<1>7. CASE ~Clean(K + 1)
  <2>1. \/ \E answer \in Requests \cup {0} : responses' = Append(responses, answer)
        \/ responses' = responses /\ writes' = << >>
    <3>1. \/ \E pending, request, n : Respond(pending, request, n)
          \/ responses' = responses /\ writes' = Tail(writes)
      BY DEF WriteDone
    <3>2. response_buffer' \in Requests \cup {0}
      BY <1>4 DEF Kept, Typed, ConnectionTypeOK
    <3> QED
      BY <1>5, <3>1, <3>2 DEF Respond
  <2> QED
    BY <1>1, <1>2, <1>3, <1>7, <2>1, UncleanStays
<1> QED
  BY <1>6, <1>7

LEMMA OtherwiseOrderly ==
  ASSUME Kept, Orderly, PeerGone \/ UNCHANGED connection_vars
  PROVE  Orderly'
<1>1. /\ client' = client /\ received' = received /\ UNCHANGED buffer_vars
      /\ writes' = writes /\ responses' = responses /\ (is_active' => is_active)
  BY DEF PeerGone, connection_vars, buffer_vars
<1>2. Requests' = Requests /\ (\A k : Clean(k)' = Clean(k))
      /\ \A r : /\ Text(r)' = Text(r) /\ Body(r)' = Body(r) /\ Size(r)' = Size(r)
                /\ RequestBytes(r)' = RequestBytes(r) /\ EndOf(r)' = EndOf(r)
  BY <1>1, CleanSame, SameRequests
<1> SUFFICES ASSUME client.patient, is_active' PROVE Answered' /\ Awaiting' /\ Answering'
  BY <1>1 DEF Orderly
<1>3. Answered /\ Awaiting /\ Answering
  BY <1>1 DEF Orderly
<1>4. Answered'
  BY <1>1, <1>2, <1>3 DEF Answered, Due
<1>5. Awaiting'
  <2>1. \A r : Mark(r, request_bytes_already_seen)' = Mark(r, request_bytes_already_seen)
    BY <1>1, <1>2 DEF Mark, buffer_vars
  <2>2. \A r : Holds(request_buffer, 0, r, request_bytes_already_seen)'
               = Holds(request_buffer, 0, r, request_bytes_already_seen)
    BY <1>1, <1>2 DEF Holds, buffer_vars
  <2> QED
    BY <1>1, <1>2, <1>3, <2>1, <2>2 DEF Awaiting, buffer_vars
<1>6. Answering'
  BY <1>1, <1>2, <1>3 DEF Answering, buffer_vars
<1> QED
  BY <1>4, <1>5, <1>6

LEMMA OrderlyAtFirst == ConnectionInit => Orderly
<1> SUFFICES ASSUME ConnectionInit PROVE Orderly
  OBVIOUS
<1>1. /\ client \in Clients /\ received = 0 /\ responses = << >> /\ writes = << >>
      /\ request_bytes_already_seen = 0 /\ last_crlf = -3 /\ Len(responses) = 0
  BY DEF ConnectionInit
<1>2. EndOf(0) = 0
  BY <1>1, RequestsEnd
<1>3. 1 \in Requests => 0 < Size(1) /\ Mark(1, 0) = -3
  BY <1>1, RequestsTyped DEF Size, Mark
<1>4. Awaiting
  <2>1. Holds(request_buffer, 0, 1, 0)
    BY DEF Holds
  <2> QED
    BY <1>1, <1>2, <1>3, <2>1 DEF Awaiting
<1>5. Answered /\ Answering
  BY <1>1 DEF Answered, Answering
<1> QED
  BY <1>4, <1>5 DEF Orderly

(* A completed write that begins with no content length left over takes the   *)
(* request it answered out of the buffer.  Then a patient client's requests   *)
(* without bodies are answered one by one, in order, and each only when it is *)
(* complete, whatever their lengths and however the network cuts them; where  *)
(* a handler writes no response, the response before goes out again.         *)
THEOREM AnsweredOneByOne ==
  ASSUME LeftOver = {0}
  PROVE  ConnectionSpec => []AnsweredInOrder
<1>1. ConnectionInit => Kept /\ Orderly /\ LastWritten
  BY KeptAtFirst, OrderlyAtFirst DEF ConnectionInit, LastWritten
<1>2. Kept /\ Orderly /\ LastWritten /\ [ConnectionNext]_connection_vars
      => (Kept /\ Orderly /\ LastWritten)'
  <2> SUFFICES ASSUME Kept, Orderly, LastWritten, [ConnectionNext]_connection_vars
               PROVE  Kept' /\ Orderly' /\ LastWritten'
    OBVIOUS
  <2>1. Kept'
    BY NextKeeps
  <2>0. LastWritten'
    BY <2>1, LastWrittenStays
  <2>2. CASE \E n \in 1 .. BufferSize : Read(n)
    BY <2>0, <2>1, <2>2, ReadOrderly
  <2>3. CASE PeerGone \/ UNCHANGED connection_vars
    BY <2>0, <2>1, <2>3, OtherwiseOrderly
  <2>4. CASE \E content_length \in LeftOver : WriteDone(content_length)
    <3>1. WriteDone(0)
      BY <2>4
    <3> QED
      BY <2>0, <2>1, <3>1, WriteDoneOrderly
  <2> QED
    BY <2>1, <2>2, <2>3, <2>4 DEF ConnectionNext
<1>3. Kept /\ Orderly => AnsweredInOrder
  <2> SUFFICES ASSUME Kept, Orderly PROVE AnsweredInOrder
    OBVIOUS
  <2>1. ConnectionTypeOK /\ ContextsCounted /\ SocketClosedOnce
    BY DEF Kept, Typed, OneWrite, SocketClosedOnce
  <2>2. ASSUME client.patient, is_active, NEW k \in 1 .. Len(responses),
               \A q \in Requests : q < k => client.requests[q].body = 0
        PROVE  k \in Requests /\ responses[k] = Due(k) /\ EndOf(k) <= received
    BY <2>2 DEF Orderly, Answered, Clean, Body
  <2> QED
    BY <2>1, <2>2 DEF AnsweredInOrder
<1> QED
  BY <1>1, <1>2, <1>3, PTL DEF ConnectionSpec

------------------------------------------------------------------------------
(* No request of an eager client is forgotten, when they are all alike.       *)

Alike ==
  \A r, q \in Requests :
    /\ client.requests[r] = client.requests[q]
    /\ client.requests[r].body = 0 /\ client.requests[r].answers

LEMMA AnswersAlike ==
  ASSUME client \in Clients, Alike, NEW r \in Requests
  PROVE  Answer(r) = r
<1>1. r # 0 /\ client.requests[r].answers
  BY RequestsTyped DEF Alike, Requests
<1> QED
  BY <1>1 DEF Answer

(* What is sent and what is buffered comes in whole requests, all equally long. *)
Ends == {EndOf(j) : j \in 0 .. Len(client.requests)}

LEMMA SizesAlike ==
  ASSUME client \in Clients, Alike, NEW r \in Requests, NEW q \in Requests
  PROVE  /\ Text(r) = Text(q) /\ Size(r) = Size(q) /\ Size(r) = Text(r) + 5
         /\ Text(r) \in Nat /\ Size(r) \in Nat /\ Size(r) > 0
<1>1. client.requests[r] = client.requests[q] /\ Body(r) = 0 /\ Body(q) = 0
  BY DEF Alike, Body
<1>2. Text(r) = Text(q)
  BY <1>1 DEF Text
<1> QED
  BY <1>1, <1>2, RequestsTyped DEF Size

LEMMA EndsInOrder ==
  ASSUME client \in Clients, NEW i \in 0 .. Len(client.requests), NEW j \in 0 .. Len(client.requests)
  PROVE  /\ EndOf(i) \in Nat /\ EndOf(j) \in Nat
         /\ EndOf(i) < EndOf(j) <=> i < j
         /\ EndOf(i) <= EndOf(j) <=> i <= j
         /\ EndOf(i) = EndOf(j) <=> i = j
<1> DEFINE N == Len(client.requests)
<1>1. N \in Nat /\ Requests = 1 .. N
  BY RequestsTyped DEF Requests
<1>2. ASSUME NEW x \in 0 .. N, NEW y \in 0 .. N, x < y
      PROVE  EndOf(x) < EndOf(y)
  <2>1. y - 1 \in 0 .. N /\ x <= y - 1 /\ y \in Requests
    BY <1>1, <1>2
  <2>2. EndOf(x) \in Nat /\ EndOf(y - 1) \in Nat /\ EndOf(x) <= EndOf(y - 1)
    BY <2>1, EndsGrow
  <2>3. EndOf(y) = EndOf(y - 1) + Size(y)
    BY <2>1, SentHolds
  <2>4. Size(y) \in Nat /\ Size(y) > 0
    BY <2>1, RequestsTyped DEF Size
  <2> QED
    BY <2>2, <2>3, <2>4
<1>3. EndOf(i) \in Nat /\ EndOf(j) \in Nat
  BY EndsGrow
<1>4. i < j => EndOf(i) < EndOf(j)
  BY <1>2
<1>5. j < i => EndOf(j) < EndOf(i)
  BY <1>2
<1> HIDE DEF N
<1>6. i \in Int /\ j \in Int
  BY <1>1 DEF N
<1> QED
  BY <1>3, <1>4, <1>5, <1>6

LEMMA EndsAdd ==
  ASSUME client \in Clients, Alike, NEW i \in 0 .. Len(client.requests),
         NEW j \in 0 .. Len(client.requests), i + j <= Len(client.requests)
  PROVE  EndOf(i + j) = EndOf(i) + EndOf(j)
<1> DEFINE N == Len(client.requests)
           S == {k \in 0 .. N : i + k <= N => EndOf(i + k) = EndOf(i) + EndOf(k)}
<1>1. N \in Nat /\ Requests = 1 .. N /\ i \in 0 .. N /\ j \in 0 .. N /\ i + j <= N
  BY RequestsTyped DEF Requests
<1>2. \A k \in 0 .. N : EndOf(k) \in Nat
  BY EndsInOrder
<1> HIDE DEF N
<1>3. 0 \in S
  <2>1. EndOf(0) = 0 /\ i + 0 = i /\ 0 \in 0 .. N
    BY <1>1, RequestsEnd
  <2>2. EndOf(i + 0) = EndOf(i) + EndOf(0)
    BY <1>1, <1>2, <2>1
  <2> QED
    BY <2>1, <2>2
<1>4. ASSUME NEW k \in 1 .. N, k - 1 \in S PROVE k \in S
  <2> SUFFICES ASSUME i + k <= N PROVE EndOf(i + k) = EndOf(i) + EndOf(k)
    BY <1>1
  <2>1. k - 1 \in 0 .. N /\ i + (k - 1) <= N /\ i + k \in 1 .. N /\ i + (k - 1) = (i + k) - 1
    BY <1>1
  <2>2. EndOf(i + (k - 1)) = EndOf(i) + EndOf(k - 1)
    BY <1>4, <2>1
  <2>3. EndOf(i + k) = EndOf((i + k) - 1) + Size(i + k) /\ EndOf(k) = EndOf(k - 1) + Size(k)
    BY <1>1, <2>1, SentHolds
  <2>4. Size(i + k) = Size(k) /\ Size(k) \in Nat
    BY <1>1, <2>1, SizesAlike
  <2>5. EndOf(i) \in Nat /\ EndOf(k - 1) \in Nat
    BY <1>1, <1>2, <2>1
  <2> QED
    BY <2>1, <2>2, <2>3, <2>4, <2>5
<1>5. 0 .. N \subseteq S
  <2> HIDE DEF S
  <2> QED
    BY <1>1, <1>3, <1>4, CountingUp
<1>6. j \in S
  BY <1>1, <1>5
<1> QED
  BY <1>1, <1>6 DEF N

(* Place j of the buffer holds the whole of request r. *)
Slot(buffer, j, r) == Holds(buffer, EndOf(j), r, Size(r))

(* The first m bytes of the buffer are requests of which all has been read. *)
Whole(buffer, upto, m) ==
  \A j \in 0 .. Len(client.requests) :
    EndOf(j) < m => \E r \in Requests : EndOf(r) <= upto /\ Slot(buffer, j, r)

Replied(answers, r) == \E k \in 1 .. Len(answers) : answers[k] = r

(* The bytes counted as seen and the contexts of the writes are whole requests. *)
Chunks(upto, buffer, seen, contexts) ==
  /\ upto \in Ends /\ seen \in Ends /\ seen <= upto /\ Whole(buffer, upto, seen)
  /\ \A i \in 1 .. Len(contexts) :
       contexts[i] \in Ends /\ contexts[i] <= upto /\ Whole(buffer, upto, contexts[i])

(* The request that the buffer begins with has been answered. *)
FirstReplied(buffer, seen, last, contexts, answers) ==
  /\ seen = 0 => last = -3
  /\ seen # 0 =>
       /\ contexts # << >>
       /\ \A r \in Requests : last = Text(r) + 1 /\ (Slot(buffer, 0, r) => Replied(answers, r))

(* A request that has been read is answered or still in the buffer. *)
Covered(upto, buffer, seen, answers) ==
  \A r \in Requests : EndOf(r) <= upto =>
    \/ Replied(answers, r)
    \/ \E j \in 0 .. Len(client.requests) : EndOf(j) < seen /\ Slot(buffer, j, r)

Eager ==
  ~client.patient /\ is_active /\ Alike =>
    /\ Chunks(received, request_buffer, request_bytes_already_seen, writes)
    /\ FirstReplied(request_buffer, request_bytes_already_seen, last_crlf, writes, responses)
    /\ Covered(received, request_buffer, request_bytes_already_seen, responses)

LEMMA EagerNext ==
  ASSUME client' = client,
         ~client.patient /\ is_active' /\ Alike =>
           /\ Chunks(received', request_buffer', request_bytes_already_seen', writes')
           /\ FirstReplied(request_buffer', request_bytes_already_seen', last_crlf', writes', responses')
           /\ Covered(received', request_buffer', request_bytes_already_seen', responses')
  PROVE  Eager'
<1>1. Requests' = Requests
      /\ \A r : /\ Text(r)' = Text(r) /\ Size(r)' = Size(r)
                /\ RequestBytes(r)' = RequestBytes(r) /\ EndOf(r)' = EndOf(r)
  BY SameClient, SameRequests
<1>2. \A j, r : Slot(request_buffer, j, r)' = Slot(request_buffer', j, r)
  BY <1>1 DEF Slot, Holds
<1>3. Ends' = Ends
  BY <1>1 DEF Ends
<1>4. Whole(request_buffer, received, request_bytes_already_seen)'
        = Whole(request_buffer', received', request_bytes_already_seen')
  BY <1>1, <1>2 DEF Whole
<1>5. \A i : Whole(request_buffer, received, writes[i])'
               = Whole(request_buffer', received', writes'[i])
  BY <1>1, <1>2 DEF Whole
<1>6. Chunks(received, request_buffer, request_bytes_already_seen, writes)'
        = Chunks(received', request_buffer', request_bytes_already_seen', writes')
  BY <1>3, <1>4, <1>5 DEF Chunks
<1>7. \A r : Replied(responses, r)' = Replied(responses', r)
  BY DEF Replied
<1>8. FirstReplied(request_buffer, request_bytes_already_seen, last_crlf, writes, responses)'
        = FirstReplied(request_buffer', request_bytes_already_seen', last_crlf', writes', responses')
  BY <1>1, <1>2, <1>7 DEF FirstReplied
<1>9. Covered(received, request_buffer, request_bytes_already_seen, responses)'
        = Covered(received', request_buffer', request_bytes_already_seen', responses')
  BY <1>1, <1>2, <1>7 DEF Covered
<1>10. Alike' = Alike
  BY <1>1 DEF Alike
<1> QED
  BY <1>6, <1>8, <1>9, <1>10 DEF Eager

LEMMA SlotMoved ==
  ASSUME client \in Clients, NEW r \in Requests, NEW j, NEW k, EndOf(j) \in Nat, EndOf(k) \in Nat,
         NEW a, NEW b, \A p \in 0 .. Size(r) - 1 : b[EndOf(k) + p] = a[EndOf(j) + p],
         Slot(a, j, r)
  PROVE  Slot(b, k, r)
<1>1. Size(r) \in Nat
  BY RequestsTyped
<1>2. ASSUME NEW i \in 1 .. Size(r) PROVE b[EndOf(k) + i - 1] = RequestBytes(r)[i]
  <2>1. i - 1 \in 0 .. Size(r) - 1 /\ EndOf(k) + i - 1 = EndOf(k) + (i - 1)
        /\ EndOf(j) + i - 1 = EndOf(j) + (i - 1)
    BY <1>1
  <2>2. b[EndOf(k) + (i - 1)] = a[EndOf(j) + (i - 1)]
    BY <2>1
  <2>3. a[EndOf(j) + i - 1] = RequestBytes(r)[i]
    BY DEF Slot, Holds
  <2> QED
    BY <2>1, <2>2, <2>3
<1> QED
  BY <1>2 DEF Slot, Holds

LEMMA SlotTold ==
  ASSUME client \in Clients, NEW r \in Requests, NEW q \in Requests, NEW buffer,
         Slot(buffer, 0, r), Slot(buffer, 0, q)
  PROVE  r = q
<1>1. EndOf(0) = 0
  BY RequestsEnd
<1>2. ASSUME NEW x \in Requests, Slot(buffer, 0, x) PROVE buffer[0] = <<"start", x>>
  <2>1. RequestBytes(x)[1] = <<"start", x>>
    BY RequestBytesAre DEF BytesAre
  <2>2. 1 \in 1 .. Size(x)
    BY RequestsTyped DEF Size
  <2>3. buffer[EndOf(0) + 1 - 1] = RequestBytes(x)[1]
    BY <1>2, <2>2 DEF Slot, Holds
  <2>4. EndOf(0) + 1 - 1 = 0
    BY <1>1
  <2> QED
    BY <2>1, <2>3, <2>4
<1>3. <<"start", r>> = <<"start", q>>
  BY <1>2
<1> QED
  BY <1>3

LEMMA RepliedToo ==
  ASSUME NEW S, NEW answers \in Seq(S), NEW r \in S
  PROVE  /\ Replied(Append(answers, r), r)
         /\ \A q : Replied(answers, q) => Replied(Append(answers, r), q)
<1> DEFINE more == Append(answers, r)
<1>1. /\ Len(answers) \in Nat /\ Len(more) = Len(answers) + 1 /\ more[Len(answers) + 1] = r
      /\ \A k \in 1 .. Len(answers) : more[k] = answers[k]
  OBVIOUS
<1> HIDE DEF more
<1>2. \A k \in 1 .. Len(answers) + 1 : k \in 1 .. Len(more)
  BY <1>1
<1>3. Replied(more, r)
  BY <1>1, <1>2 DEF Replied
<1>4. ASSUME NEW q, Replied(answers, q) PROVE Replied(more, q)
  <2>1. PICK k \in 1 .. Len(answers) : answers[k] = q
    BY <1>4 DEF Replied
  <2>2. k \in 1 .. Len(answers) + 1
    BY <1>1
  <2> QED
    BY <1>1, <1>2, <2>1, <2>2 DEF Replied
<1> QED
  BY <1>3, <1>4 DEF more

(* A look at whole requests finds the first of them. *)
FindsFirst(look, buffer, r) ==
  /\ Slot(buffer, 0, r) /\ look.verdict = "complete"
  /\ look.last = Text(r) + 1 /\ look.request = r

LEMMA LookAnswers ==
  ASSUME client \in Clients, Alike, NEW buffer, NEW upto, NEW seen \in Nat, NEW n \in Nat,
         seen + n \in Ends, seen + n # 0, Whole(buffer, upto, seen + n), NEW left, ~Refused(n, left),
         NEW last, last = -3 \/ \A r \in Requests : last = Text(r) + 1
  PROVE  \E r \in Requests :
           EndOf(r) <= upto /\ FindsFirst(LookAt(buffer, seen, left, last, n), buffer, r)
<1> DEFINE N == Len(client.requests)
           look == LookAt(buffer, seen, left, last, n)
<1>1. N \in Nat /\ Requests = 1 .. N /\ EndOf(0) = 0 /\ 0 \in 0 .. N
  BY RequestsTyped, RequestsEnd DEF Requests
<1>2. PICK r \in Requests : EndOf(r) <= upto /\ Slot(buffer, 0, r)
  <2>1. EndOf(0) < seen + n
    BY <1>1
  <2> QED
    BY <1>1, <2>1 DEF Whole
<1>3. PICK x \in 0 .. N : seen + n = EndOf(x)
  BY DEF Ends
<1>4. Size(r) = Text(r) + 5 /\ Size(r) \in Nat /\ Text(r) \in Nat /\ seen + n >= Size(r)
  <2>1. Size(r) = Text(r) + 5 /\ Size(r) \in Nat /\ Text(r) \in Nat
    BY SizesAlike
  <2>2. x # 0 /\ 1 \in Requests /\ 1 <= x /\ 1 \in 0 .. N
    BY <1>1, <1>3
  <2>3. EndOf(1) = Size(r)
    <3>1. EndOf(1) = EndOf(1 - 1) + Size(1)
      BY <2>2, SentHolds
    <3>2. Size(1) = Size(r) /\ Size(1) \in Nat /\ 1 - 1 = 0
      BY <2>2, SizesAlike
    <3> QED
      BY <1>1, <3>1, <3>2
  <2>4. EndOf(1) <= EndOf(x)
    BY <2>2, EndsInOrder
  <2> QED
    BY <1>3, <2>1, <2>3, <2>4
<1>5. Finds(look, r, seen + n)
  <2>1. Holds(buffer, 0, r, Text(r) + 5) /\ last \in {-3, Text(r) + 1} /\ seen + n >= Text(r) + 5
    BY <1>1, <1>2, <1>4 DEF Slot
  <2> HIDE DEF look
  <2> QED
    BY <2>1, LookFinds DEF look
<1> HIDE DEF look
<1>6. FindsFirst(look, buffer, r)
  <2>1. ~(seen + n < Size(r))
    BY <1>4
  <2> QED
    BY <1>2, <1>5, <2>1 DEF Finds, FindsFirst
<1> QED
  BY <1>2, <1>6 DEF look

(* After a look the first request has been answered. *)
LEMMA FrontAnswered ==
  ASSUME client \in Clients, Alike, NEW buffer, NEW r \in Requests, Slot(buffer, 0, r),
         NEW S, NEW answers \in Seq(S), r \in S, NEW contexts, contexts # << >>, NEW seen, seen # 0
  PROVE  FirstReplied(buffer, seen, Text(r) + 1, contexts, Append(answers, r))
<1>1. ASSUME NEW q \in Requests
      PROVE  Text(r) + 1 = Text(q) + 1
             /\ (Slot(buffer, 0, q) => Replied(Append(answers, r), q))
  <2>1. Text(r) = Text(q)
    BY SizesAlike
  <2>2. Slot(buffer, 0, q) => q = r
    BY SlotTold
  <2>3. Replied(Append(answers, r), r)
    BY RepliedToo
  <2> QED
    BY <2>1, <2>2, <2>3
<1> QED
  BY <1>1 DEF FirstReplied

LEMMA SlotEnds ==
  ASSUME client \in Clients, Alike, NEW j \in 0 .. Len(client.requests),
         NEW x \in 0 .. Len(client.requests), j < x, NEW r \in Requests
  PROVE  EndOf(j) \in Nat /\ EndOf(x) \in Nat /\ Size(r) \in Nat /\ EndOf(j) + Size(r) <= EndOf(x)
<1>1. Len(client.requests) \in Nat /\ Requests = 1 .. Len(client.requests)
  BY RequestsTyped DEF Requests
<1>2. j + 1 \in Requests /\ j + 1 \in 0 .. Len(client.requests) /\ j + 1 <= x /\ (j + 1) - 1 = j
  BY <1>1
<1>3. EndOf(j + 1) = EndOf(j) + Size(j + 1)
  BY <1>2, SentHolds
<1>4. Size(j + 1) = Size(r) /\ Size(r) \in Nat
  BY <1>2, SizesAlike
<1>5. EndOf(j) \in Nat /\ EndOf(x) \in Nat /\ EndOf(j + 1) <= EndOf(x)
  BY <1>2, EndsInOrder
<1> QED
  BY <1>3, <1>4, <1>5

(* d requests are read, behind s in the buffer and c in all. *)
ReadInto(a, b, s, c, d) ==
  b = [i \in Indices |-> IF i \in EndOf(s) .. EndOf(s) + EndOf(d) - 1
                          THEN Sent[EndOf(c) + 1 + i - EndOf(s)] ELSE a[i]]

LEMMA ReadSlots ==
  ASSUME client \in Clients, Alike, BufferSize \in Nat,
         NEW c \in 0 .. Len(client.requests), NEW d \in 0 .. Len(client.requests),
         NEW s \in 0 .. Len(client.requests),
         s <= c, c + d <= Len(client.requests), EndOf(s + d) <= BufferSize,
         NEW a, NEW b, ReadInto(a, b, s, c, d)
  PROVE  /\ \A j \in 0 .. Len(client.requests) : \A r \in Requests :
              j < s /\ Slot(a, j, r) => Slot(b, j, r)
         /\ \A e \in 0 .. d - 1 : c + e + 1 \in Requests /\ Slot(b, s + e, c + e + 1)
         /\ \A j \in 0 .. Len(client.requests) : \A x \in 0 .. Len(client.requests) : \A r \in Requests :
              s + d <= j /\ j < x /\ EndOf(x) <= BufferSize /\ Slot(a, j, r) => Slot(b, j, r)
<1> DEFINE N == Len(client.requests)
<1>1. N \in Nat /\ Requests = 1 .. N
  BY RequestsTyped DEF Requests
<1>2. s + d \in 0 .. N /\ s <= s + d
  BY <1>1
<1>3. EndOf(s) \in Nat /\ EndOf(d) \in Nat /\ EndOf(c) \in Nat /\ EndOf(s + d) = EndOf(s) + EndOf(d)
  BY <1>1, <1>2, EndsAdd, EndsInOrder
<1> DEFINE from == EndOf(s)
           length == EndOf(d)
<1>0. from \in Nat /\ length \in Nat /\ from + length <= BufferSize /\ BufferSize \in Nat
  BY <1>3
<1> HIDE DEF N, from, length
<1>7. ASSUME NEW p \in 0 .. BufferSize - 1
      PROVE  b[p] = IF p \in from .. from + length - 1
                      THEN Sent[EndOf(c) + 1 + p - from] ELSE a[p]
  BY DEF ReadInto, Indices, from, length
<1>4. ASSUME NEW j \in 0 .. N, NEW r \in Requests, j < s, Slot(a, j, r)
      PROVE  Slot(b, j, r)
  <2>1. EndOf(j) \in Nat /\ Size(r) \in Nat /\ EndOf(j) + Size(r) <= EndOf(s)
    BY <1>4, SlotEnds DEF N
  <2>2. ASSUME NEW p \in 0 .. Size(r) - 1 PROVE b[EndOf(j) + p] = a[EndOf(j) + p]
    <3> DEFINE place == EndOf(j)
    <3>1. place \in Nat /\ place + Size(r) <= from /\ Size(r) \in Nat
      BY <2>1 DEF from
    <3> HIDE DEF place
    <3>2. place + p \in 0 .. BufferSize - 1 /\ ~(place + p \in from .. from + length - 1)
      BY <1>0, <3>1
    <3> QED
      BY <1>7, <3>2 DEF place
  <2> QED
    BY <1>4, <2>1, <2>2, SlotMoved
<1>5. ASSUME NEW j \in 0 .. N, NEW x \in 0 .. N, NEW r \in Requests,
             s + d <= j, j < x, EndOf(x) <= BufferSize, Slot(a, j, r)
      PROVE  Slot(b, j, r)
  <2>1. EndOf(j) \in Nat /\ EndOf(x) \in Nat /\ Size(r) \in Nat /\ EndOf(j) + Size(r) <= EndOf(x)
    BY <1>5, SlotEnds DEF N
  <2>2. EndOf(s + d) <= EndOf(j)
    BY <1>2, <1>5, EndsInOrder DEF N
  <2>3. ASSUME NEW p \in 0 .. Size(r) - 1 PROVE b[EndOf(j) + p] = a[EndOf(j) + p]
    <3> DEFINE place == EndOf(j)
    <3>1. place \in Nat /\ place + Size(r) <= BufferSize /\ Size(r) \in Nat /\ from + length <= place
      BY <1>3, <1>5, <2>1, <2>2 DEF from, length
    <3> HIDE DEF place
    <3>2. place + p \in 0 .. BufferSize - 1 /\ ~(place + p \in from .. from + length - 1)
      BY <1>0, <3>1
    <3> QED
      BY <1>7, <3>2 DEF place
  <2> QED
    BY <1>5, <2>1, <2>3, SlotMoved
<1>6. ASSUME NEW e \in 0 .. d - 1
      PROVE  c + e + 1 \in Requests /\ Slot(b, s + e, c + e + 1)
  <2> DEFINE r == c + e + 1
  <2>1. /\ r \in Requests /\ e \in 0 .. N /\ s + e \in 0 .. N /\ s + e <= N /\ c + e \in 0 .. N
        /\ c + e <= N /\ s + e < s + d /\ r - 1 = c + e
    BY <1>1 DEF N
  <2>2. EndOf(s + e) = EndOf(s) + EndOf(e) /\ EndOf(c + e) = EndOf(c) + EndOf(e) /\ EndOf(e) \in Nat
    BY <2>1, EndsAdd, EndsInOrder DEF N
  <2>3. Size(r) \in Nat /\ EndOf(s + e) + Size(r) <= EndOf(s + d)
    BY <1>2, <2>1, SlotEnds DEF N
  <2>4. \A i \in 1 .. Size(r) : Sent[EndOf(c + e) + i] = RequestBytes(r)[i]
    <3>1. \A i \in 1 .. Size(r) : Sent[EndOf(r - 1) + i] = RequestBytes(r)[i]
      BY <2>1, SentHolds
    <3> QED
      BY <2>1, <3>1
  <2> HIDE DEF r
  <2>5. ASSUME NEW i \in 1 .. Size(r) PROVE b[EndOf(s + e) + i - 1] = RequestBytes(r)[i]
    <3> DEFINE place == EndOf(s + e)
               before == EndOf(c)
               slots == EndOf(e)
               p == place + i - 1
    <3>1. /\ place = from + slots /\ slots \in Nat /\ before \in Nat /\ EndOf(c + e) = before + slots
          /\ place + Size(r) <= from + length /\ Size(r) \in Nat
      BY <1>3, <2>2, <2>3 DEF from, length
    <3> HIDE DEF place, before, slots
    <3>2. p \in 0 .. BufferSize - 1 /\ p \in from .. from + length - 1
          /\ before + 1 + p - from = (before + slots) + i
      BY <1>0, <3>1
    <3> HIDE DEF p
    <3>3. b[p] = Sent[before + 1 + p - from]
      BY <1>7, <3>2 DEF before
    <3>4. b[p] = RequestBytes(r)[i]
      BY <2>4, <3>1, <3>2, <3>3
    <3> QED
      BY <3>4 DEF p, place
  <2> QED
    BY <2>1, <2>5 DEF Slot, Holds, r
<1> QED
  BY <1>4, <1>5, <1>6 DEF N

LEMMA ReadEager ==
  ASSUME Kept, Kept', Eager, NEW n \in 1 .. BufferSize, Read(n)
  PROVE  Eager'
<1> DEFINE N == Len(client.requests)
           seen == request_bytes_already_seen
           left == request_buffer_bytes_left
           a == request_buffer
           b == [i \in Indices |-> IF i \in seen .. seen + n - 1
                                     THEN Sent[received + 1 + i - seen] ELSE request_buffer[i]]
           look == LookAt(b, seen, left, last_crlf, n)
<1>1. /\ n <= left /\ MayArrive(n) /\ client' = client
      /\ received' = received + n
      /\ request_buffer' = b /\ last_crlf' = look.last
      /\ Count(seen, left, n, look.verdict)
      /\ is_active' = (is_active /\ look.verdict # "refused")
  BY DEF Read
<1>2. \/ look.verdict = "complete" /\ Respond(writes, look.request, n)
      \/ look.verdict # "complete" /\ UNCHANGED <<response_buffer, responses, writes>>
  BY DEF Read
<1> SUFFICES ASSUME ~client.patient, is_active', Alike
             PROVE  /\ Chunks(received', request_buffer', request_bytes_already_seen', writes')
                    /\ FirstReplied(request_buffer', request_bytes_already_seen', last_crlf', writes', responses')
                    /\ Covered(received', request_buffer', request_bytes_already_seen', responses')
  BY <1>1, EagerNext
<1>3. /\ Chunks(received, a, seen, writes) /\ FirstReplied(a, seen, last_crlf, writes, responses)
      /\ Covered(received, a, seen, responses)
  <2>1. is_active
    BY <1>1
  <2> QED
    BY <2>1 DEF Eager
<1>4. /\ client \in Clients /\ BufferSize \in Nat /\ n \in Nat \ {0}
      /\ seen \in 0 .. BufferSize - 1 /\ left = BufferSize - seen
      /\ writes \in Seq(Contexts) /\ N \in Nat /\ Requests = 1 .. N /\ EndOf(0) = 0
  <2>1. client \in Clients /\ writes \in Seq(Contexts) /\ BufferSize \in Nat
    BY SizesAssumption DEF Kept, Typed
  <2>2. seen \in 0 .. BufferSize - 1 /\ left = BufferSize - seen /\ n \in Nat \ {0}
    BY <2>1 DEF Kept, Typed, ConnectionTypeOK
  <2>3. N \in Nat /\ Requests = 1 .. N /\ EndOf(0) = 0
    BY <2>1, RequestsTyped, RequestsEnd DEF Requests
  <2> QED
    BY <2>1, <2>2, <2>3
<1>5. responses \in Seq(Requests \cup {0}) /\ Len(writes) \in Nat
  <2> HIDE DEF Contexts
  <2> QED
    BY <1>4, ResponsesCounted
<1>6. ~Refused(n, left) /\ seen + n <= BufferSize
  <2>1. Refused(n, left) => look.verdict = "refused"
    <3>1. Refused(n, left) => look = [verdict |-> "refused", last |-> last_crlf, request |-> 0]
      BY DEF LookAt
    <3> HIDE DEF look
    <3> QED
      BY <3>1
  <2> HIDE DEF look
  <2>2. ~Refused(n, left)
    BY <1>1, <2>1
  <2> QED
    BY <1>4, <2>2 DEF Refused
<1>7. PICK c \in 0 .. N, s \in 0 .. N, q \in Requests :
        received = EndOf(c) /\ seen = EndOf(s) /\ received + n = EndOf(q)
  BY <1>1, <1>3 DEF Chunks, Ends, MayArrive
<1> DEFINE d == q - c
<1> HIDE DEF b, look, N, seen, left, a
<1>8. /\ s <= c /\ d \in 1 .. N /\ c + d = q /\ s + d \in 0 .. N /\ s + d <= N /\ c + d <= N
      /\ EndOf(c) \in Nat /\ EndOf(s) \in Nat /\ EndOf(d) \in Nat
      /\ EndOf(d) = n /\ EndOf(s + d) = seen + n
  <2>1. EndOf(c) \in Nat /\ EndOf(q) \in Nat /\ (EndOf(c) < EndOf(q) <=> c < q)
        /\ EndOf(s) \in Nat /\ (EndOf(s) <= EndOf(c) <=> s <= c)
    BY <1>4, EndsInOrder DEF N
  <2>2. s <= c
    BY <1>3, <1>7, <2>1 DEF Chunks
  <2>3. c < q
    BY <1>4, <1>7, <2>1
  <2>4. d \in 1 .. N /\ c + d = q /\ s + d \in 0 .. N /\ s + d <= N /\ c + d <= N /\ d \in 0 .. N
    BY <1>4, <2>2, <2>3
  <2> HIDE DEF d
  <2>5. EndOf(d) \in Nat /\ EndOf(c + d) = EndOf(c) + EndOf(d) /\ EndOf(s + d) = EndOf(s) + EndOf(d)
    BY <1>4, <2>4, EndsAdd, EndsInOrder DEF N
  <2>6. EndOf(d) = n
    <3>1. EndOf(c) + n = EndOf(c) + EndOf(d)
      BY <1>7, <2>4, <2>5
    <3> QED
      BY <1>4, <2>1, <2>5, <3>1
  <2> QED
    BY <1>7, <2>1, <2>2, <2>4, <2>5, <2>6
<1> HIDE DEF d
<1>21. /\ received \in Nat /\ received' \in Nat /\ received' = received + n /\ received' = EndOf(q)
       /\ received <= received' /\ n <= received'
  <2>1. received' = received + n /\ received' = EndOf(q) /\ received \in Nat
    BY <1>1, <1>7, <1>8
  <2> QED
    BY <1>4, <2>1
<1>9. ReadInto(a, b, s, c, d)
  <2>1. seen = EndOf(s) /\ n = EndOf(d) /\ received = EndOf(c)
    BY <1>7, <1>8
  <2> QED
    BY <2>1 DEF ReadInto, a, b, seen
<1>10. /\ \A j \in 0 .. N : \A r \in Requests : j < s /\ Slot(a, j, r) => Slot(b, j, r)
       /\ \A e \in 0 .. d - 1 : c + e + 1 \in Requests /\ Slot(b, s + e, c + e + 1)
       /\ \A j \in 0 .. N : \A x \in 0 .. N : \A r \in Requests :
            s + d <= j /\ j < x /\ EndOf(x) <= BufferSize /\ Slot(a, j, r) => Slot(b, j, r)
  <2>1. d \in 0 .. N /\ EndOf(s + d) <= BufferSize
    BY <1>4, <1>6, <1>8
  <2> QED
    BY <1>4, <1>8, <1>9, <2>1, ReadSlots DEF N
<1>11. received' = EndOf(q) /\ received <= received'
       /\ request_bytes_already_seen' = EndOf(s + d) /\ EndOf(s + d) # 0
  <2>1. request_bytes_already_seen' = seen + n
    BY <1>1 DEF Count
  <2>2. EndOf(s + d) # 0
    BY <1>4, <1>7, <1>8
  <2> QED
    BY <1>8, <1>21, <2>1, <2>2
<1>12. \A r \in Requests : EndOf(r) <= received => EndOf(r) <= received'
  <2>1. ASSUME NEW r \in Requests PROVE EndOf(r) \in Nat
    <3>1. r \in 0 .. N
      BY <1>4
    <3> QED
      BY <1>4, <3>1, EndsInOrder DEF N
  <2> QED
    BY <1>21, <2>1
<1>13. \A j \in 0 .. N : j < s + d =>
         \E r \in Requests : EndOf(r) <= received' /\ Slot(b, j, r)
  <2>1. ASSUME NEW j \in 0 .. N, j < s
        PROVE  \E r \in Requests : EndOf(r) <= received' /\ Slot(b, j, r)
    <3>1. EndOf(j) < seen
      BY <1>4, <1>7, <2>1, EndsInOrder DEF N
    <3>2. PICK r \in Requests : EndOf(r) <= received /\ Slot(a, j, r)
      BY <1>3, <3>1 DEF Chunks, Whole, N
    <3> QED
      BY <1>10, <1>12, <2>1, <3>2
  <2>2. ASSUME NEW j \in 0 .. N, ~(j < s), j < s + d
        PROVE  \E r \in Requests : EndOf(r) <= received' /\ Slot(b, j, r)
    <3> DEFINE e == j - s
    <3>1. e \in 0 .. d - 1 /\ s + e = j /\ c + e + 1 <= q
      BY <1>4, <1>8, <2>2
    <3> HIDE DEF e
    <3>2. c + e + 1 \in Requests /\ Slot(b, j, c + e + 1)
      BY <1>10, <3>1
    <3>3. EndOf(c + e + 1) <= EndOf(q)
      <4>1. c + e + 1 \in 0 .. N /\ q \in 0 .. N
        BY <1>4, <3>2
      <4> QED
        BY <1>4, <3>1, <4>1, EndsInOrder DEF N
    <3> QED
      BY <1>11, <3>2, <3>3
  <2> QED
    BY <2>1, <2>2
<1>14. Whole(b, received', EndOf(s + d))
  <2>1. \A j \in 0 .. N : EndOf(j) < EndOf(s + d) => j < s + d
    BY <1>4, <1>8, EndsInOrder DEF N
  <2> QED
    BY <1>13, <2>1 DEF Whole, N
<1>15. PICK first \in Requests : EndOf(first) <= received' /\ FindsFirst(look, b, first)
  <2>1. /\ seen \in Nat /\ n \in Nat /\ seen + n = EndOf(s + d) /\ seen + n # 0
        /\ EndOf(s + d) \in Ends
    BY <1>4, <1>8, <1>11 DEF Ends, N
  <2>2. last_crlf = -3 \/ \A r \in Requests : last_crlf = Text(r) + 1
    BY <1>3 DEF FirstReplied
  <2> QED
    BY <1>4, <1>6, <1>14, <2>1, <2>2, LookAnswers DEF look
<1>16. responses' = Append(responses, first) /\ writes' = Append(writes, n)
  <2>1. Respond(writes, first, n) /\ first # 0
    BY <1>2, <1>4, <1>15 DEF FindsFirst
  <2>2. Answer(first) = first
    BY <1>4, <1>15, AnswersAlike
  <2> QED
    BY <2>1, <2>2 DEF Respond
<1>17. /\ Len(writes') = Len(writes) + 1 /\ writes' # << >> /\ writes'[Len(writes) + 1] = n
       /\ \A i \in 1 .. Len(writes) : writes'[i] = writes[i] /\ writes[i] \in Contexts
  <2>1. writes \in Seq(Contexts) /\ n \in Contexts
    BY <1>4, <1>6 DEF Refused, Contexts, left, seen
  <2> HIDE DEF Contexts
  <2> QED
    BY <1>16, <2>1
<1>18. Chunks(received', b, EndOf(s + d), writes')
  <2>1. received' \in Ends /\ EndOf(s + d) \in Ends /\ EndOf(d) \in Ends
    <3>1. \A j \in 0 .. N : EndOf(j) \in Ends
      BY DEF Ends, N
    <3>2. q \in 0 .. N /\ s + d \in 0 .. N /\ d \in 0 .. N
      BY <1>4, <1>8
    <3> QED
      BY <1>11, <3>1, <3>2
  <2>2. EndOf(s + d) <= received' /\ n <= received' /\ n <= EndOf(s + d)
    <3>1. s + d <= q /\ q \in 0 .. N
      BY <1>4, <1>8
    <3>2. EndOf(s + d) <= EndOf(q)
      BY <1>4, <1>8, <3>1, EndsInOrder DEF N
    <3>3. n <= seen + n
      BY <1>4
    <3> QED
      BY <1>8, <1>11, <1>21, <3>2, <3>3
  <2>3. Whole(b, received', n)
    <3>1. \A j \in 0 .. N : EndOf(j) < n => EndOf(j) < EndOf(s + d)
      <4>1. \A j \in 0 .. N : EndOf(j) \in Nat
        BY <1>4, EndsInOrder DEF N
      <4> QED
        BY <1>4, <1>8, <2>2, <4>1
    <3> QED
      BY <1>14, <3>1 DEF Whole, N
  <2>4. ASSUME NEW i \in 1 .. Len(writes)
        PROVE  writes[i] \in Ends /\ writes[i] <= received' /\ Whole(b, received', writes[i])
    <3>1. writes[i] \in Ends /\ writes[i] <= received /\ Whole(a, received, writes[i])
      BY <1>3 DEF Chunks
    <3>2. PICK x \in 0 .. N : writes[i] = EndOf(x)
      BY <3>1 DEF Ends, N
    <3>3. EndOf(x) <= BufferSize /\ EndOf(x) \in Nat
      BY <1>4, <1>17, <3>2 DEF Contexts
    <3>4. writes[i] <= received'
      <4>1. writes[i] \in Nat
        BY <3>2, <3>3
      <4> QED
        BY <1>21, <3>1, <4>1
    <3>5. ASSUME NEW j \in 0 .. N, EndOf(j) < EndOf(x)
          PROVE  \E r \in Requests : EndOf(r) <= received' /\ Slot(b, j, r)
      <4>1. j < x
        BY <1>4, <3>5, EndsInOrder DEF N
      <4>2. CASE j < s + d
        BY <1>13, <4>2
      <4>3. CASE ~(j < s + d)
        <5>1. PICK r \in Requests : EndOf(r) <= received /\ Slot(a, j, r)
          BY <3>1, <3>2, <3>5 DEF Whole, N
        <5>2. s + d <= j
          BY <1>4, <1>8, <4>3
        <5> QED
          BY <1>10, <1>12, <3>3, <4>1, <5>1, <5>2
      <4> QED
        BY <4>2, <4>3
    <3> QED
      BY <3>1, <3>2, <3>4, <3>5 DEF Whole, N
  <2>5. \A i \in 1 .. Len(writes') : i \in 1 .. Len(writes) \/ i = Len(writes) + 1
    BY <1>5, <1>17
  <2> QED
    BY <1>8, <1>14, <1>17, <2>1, <2>2, <2>3, <2>4, <2>5 DEF Chunks
<1>19. FirstReplied(b, EndOf(s + d), last_crlf', writes', responses')
  <2>1. Slot(b, 0, first) /\ last_crlf' = Text(first) + 1
    BY <1>1, <1>15 DEF FindsFirst
  <2> DEFINE S == Requests \cup {0}
  <2>2. responses \in Seq(S) /\ first \in S
    BY <1>5
  <2> HIDE DEF S
  <2> QED
    BY <1>4, <1>11, <1>16, <1>17, <2>1, <2>2, FrontAnswered
<1>20. Covered(received', b, EndOf(s + d), responses')
  <2>1. ASSUME NEW r \in Requests, EndOf(r) <= received, Replied(responses, r)
        PROVE  Replied(responses', r)
    <3> DEFINE S == Requests \cup {0}
    <3>1. responses \in Seq(S) /\ first \in S
      BY <1>5
    <3> HIDE DEF S
    <3> QED
      BY <1>16, <2>1, <3>1, RepliedToo
  <2>2. ASSUME NEW r \in Requests, NEW j \in 0 .. N, EndOf(j) < seen, Slot(a, j, r)
        PROVE  EndOf(j) < EndOf(s + d) /\ Slot(b, j, r)
    <3>1. j < s
      BY <1>4, <1>7, <2>2, EndsInOrder DEF N
    <3>2. j < s + d
      BY <1>4, <1>8, <3>1
    <3> QED
      BY <1>4, <1>8, <1>10, <2>2, <3>1, <3>2, EndsInOrder DEF N
  <2>3. ASSUME NEW r \in Requests, EndOf(r) <= received', ~(EndOf(r) <= received)
        PROVE  \E j \in 0 .. N : EndOf(j) < EndOf(s + d) /\ Slot(b, j, r)
    <3>1. r \in 0 .. N /\ q \in 0 .. N
      BY <1>4
    <3>2. r <= q /\ ~(r <= c)
      BY <1>4, <1>7, <1>11, <2>3, <3>1, EndsInOrder DEF N
    <3> DEFINE e == r - c - 1
    <3>3. e \in 0 .. d - 1 /\ c + e + 1 = r /\ s + e \in 0 .. N /\ s + e < s + d
      BY <1>4, <1>8, <3>2
    <3> HIDE DEF e
    <3>4. Slot(b, s + e, r)
      BY <1>10, <3>3
    <3>5. EndOf(s + e) < EndOf(s + d)
      BY <1>4, <1>8, <3>3, EndsInOrder DEF N
    <3> QED
      BY <3>3, <3>4, <3>5
  <2>4. ASSUME NEW r \in Requests, EndOf(r) <= received'
        PROVE  \/ Replied(responses', r)
               \/ \E j \in 0 .. N : EndOf(j) < EndOf(s + d) /\ Slot(b, j, r)
    <3>1. CASE EndOf(r) <= received
      <4>1. Replied(responses, r) \/ \E j \in 0 .. N : EndOf(j) < seen /\ Slot(a, j, r)
        BY <1>3, <3>1 DEF Covered, N
      <4> QED
        BY <2>1, <2>2, <3>1, <4>1
    <3>2. CASE ~(EndOf(r) <= received)
      BY <2>3, <2>4, <3>2
    <3> QED
      BY <3>1, <3>2
  <2> QED
    BY <2>4 DEF Covered, N
<1> QED
  BY <1>1, <1>11, <1>18, <1>19, <1>20

(* The first of x requests is taken out of the buffer. *)
Shifted(a, b, x) == b = Leftover(a, EndOf(1), EndOf(x - 1))

LEMMA ShiftSlots ==
  ASSUME client \in Clients, Alike, BufferSize \in Nat,
         NEW x \in 2 .. Len(client.requests), EndOf(x) <= BufferSize,
         NEW a, NEW b, Shifted(a, b, x)
  PROVE  /\ \A j \in 0 .. Len(client.requests) : \A r \in Requests :
              j < x - 1 /\ Slot(a, j + 1, r) => Slot(b, j, r)
         /\ \A j \in 0 .. Len(client.requests) : \A y \in 0 .. Len(client.requests) : \A r \in Requests :
              x - 1 <= j /\ j < y /\ EndOf(y) <= BufferSize /\ Slot(a, j, r) => Slot(b, j, r)
<1> DEFINE N == Len(client.requests)
           size == EndOf(1)
           rest == EndOf(x - 1)
<1>1. N \in Nat /\ Requests = 1 .. N /\ x \in 0 .. N /\ 1 \in 0 .. N /\ x - 1 \in 0 .. N
      /\ 1 + (x - 1) = x /\ x <= N
  BY RequestsTyped DEF Requests
<1>2. size \in Nat /\ rest \in Nat /\ size + rest = EndOf(x) /\ size + rest <= BufferSize
  <2>1. EndOf(1 + (x - 1)) = EndOf(1) + EndOf(x - 1)
    BY <1>1, EndsAdd
  <2>2. EndOf(1) \in Nat /\ EndOf(x - 1) \in Nat
    BY <1>1, EndsInOrder
  <2> QED
    BY <1>1, <2>1, <2>2
<1>3. \A p \in 0 .. BufferSize - 1 : b[p] = IF p < rest THEN a[size + p] ELSE a[p]
  BY DEF Shifted, Leftover, Indices
<1> HIDE DEF N, size, rest
<1>4. ASSUME NEW j \in 0 .. N, NEW r \in Requests, j < x - 1, Slot(a, j + 1, r)
      PROVE  Slot(b, j, r)
  <2>1. EndOf(j) \in Nat /\ Size(r) \in Nat /\ EndOf(j) + Size(r) <= rest
    BY <1>1, <1>4, SlotEnds DEF N, rest
  <2>2. j + 1 \in 0 .. N /\ 1 + j <= N /\ 1 + j = j + 1
    BY <1>1, <1>4
  <2>3. EndOf(j + 1) = size + EndOf(j) /\ EndOf(j + 1) \in Nat
    <3>1. EndOf(1 + j) = EndOf(1) + EndOf(j)
      BY <1>1, <2>2, EndsAdd DEF N
    <3> QED
      BY <1>2, <2>1, <2>2, <3>1 DEF size
  <2>4. ASSUME NEW p \in 0 .. Size(r) - 1 PROVE b[EndOf(j) + p] = a[EndOf(j + 1) + p]
    <3> DEFINE place == EndOf(j)
    <3>1. place \in Nat /\ Size(r) \in Nat /\ place + Size(r) <= rest /\ EndOf(j + 1) = size + place
      BY <2>1, <2>3
    <3> HIDE DEF place
    <3>2. place + p \in 0 .. BufferSize - 1 /\ place + p < rest
          /\ size + (place + p) = (size + place) + p
      BY <1>2, <3>1
    <3>3. b[place + p] = a[size + (place + p)]
      BY <1>3, <3>2
    <3> QED
      BY <3>1, <3>2, <3>3 DEF place
  <2> QED
    BY <1>4, <2>1, <2>3, <2>4, SlotMoved
<1>5. ASSUME NEW j \in 0 .. N, NEW y \in 0 .. N, NEW r \in Requests,
             x - 1 <= j, j < y, EndOf(y) <= BufferSize, Slot(a, j, r)
      PROVE  Slot(b, j, r)
  <2>1. EndOf(j) \in Nat /\ EndOf(y) \in Nat /\ Size(r) \in Nat /\ EndOf(j) + Size(r) <= EndOf(y)
    BY <1>5, SlotEnds DEF N
  <2>2. rest <= EndOf(j)
    BY <1>1, <1>5, EndsInOrder DEF N, rest
  <2>3. ASSUME NEW p \in 0 .. Size(r) - 1 PROVE b[EndOf(j) + p] = a[EndOf(j) + p]
    <3> DEFINE place == EndOf(j)
    <3>1. place \in Nat /\ Size(r) \in Nat /\ place + Size(r) <= BufferSize /\ rest <= place
      BY <1>5, <2>1, <2>2
    <3> HIDE DEF place
    <3>2. place + p \in 0 .. BufferSize - 1 /\ ~(place + p < rest)
      BY <1>2, <3>1
    <3>3. b[place + p] = a[place + p]
      BY <1>3, <3>2
    <3> QED
      BY <3>3 DEF place
  <2> QED
    BY <1>5, <2>1, <2>3, SlotMoved
<1> QED
  BY <1>4, <1>5 DEF N

LEMMA Elements ==
  ASSUME NEW S, NEW s \in Seq(S), s # << >>
  PROVE  /\ Len(s) \in Nat \ {0} /\ Head(s) = s[1] /\ 1 \in 1 .. Len(s)
         /\ \A i \in 1 .. Len(Tail(s)) : i + 1 \in 1 .. Len(s) /\ Tail(s)[i] = s[i + 1]
         /\ Append(Tail(s), Head(s)) # << >>
         /\ \A i \in 1 .. Len(Append(Tail(s), Head(s))) : \E k \in 1 .. Len(s) :
              Append(Tail(s), Head(s))[i] = s[k]
<1>1. Len(s) \in Nat \ {0} /\ Head(s) = s[1] /\ 1 \in 1 .. Len(s)
  BY EmptySeq
<1> DEFINE t == Tail(s)
           x == Head(s)
           u == Append(t, x)
<1>2. t \in Seq(S) /\ Len(t) = Len(s) - 1 /\ \A i \in 1 .. Len(t) : t[i] = s[i + 1]
  BY <1>1
<1>3. x \in S
  BY <1>1
<1> HIDE DEF t, x
<1>4. /\ u \in Seq(S) /\ Len(u) = Len(t) + 1 /\ u[Len(t) + 1] = x /\ u # << >>
      /\ \A i \in 1 .. Len(t) : u[i] = t[i]
  <2>1. t \in Seq(S) /\ Len(t) \in Nat
    BY <1>2
  <2>2. /\ u \in Seq(S) /\ Len(u) = Len(t) + 1 /\ u[Len(t) + 1] = x
        /\ \A i \in 1 .. Len(t) : u[i] = t[i]
    BY <1>3, <2>1
  <2>3. Len(u) # 0
    BY <2>1, <2>2
  <2> HIDE DEF u
  <2>4. u # << >>
    BY <2>3, EmptySeq
  <2> QED
    BY <2>2, <2>4
<1>5. \A i \in 1 .. Len(t) : i + 1 \in 1 .. Len(s)
  BY <1>1, <1>2
<1> HIDE DEF u
<1>6. ASSUME NEW i \in 1 .. Len(u) PROVE \E k \in 1 .. Len(s) : u[i] = s[k]
  <2>1. CASE i \in 1 .. Len(t)
    BY <1>2, <1>4, <1>5, <2>1
  <2>2. CASE i = Len(t) + 1
    BY <1>1, <1>4, <2>2 DEF x
  <2>3. Len(t) \in Nat
    BY <1>2
  <2> QED
    BY <1>4, <2>1, <2>2, <2>3
<1> QED
  BY <1>1, <1>2, <1>4, <1>5, <1>6 DEF t, x, u

(* A completed write that looks at n bytes, all of them whole requests. *)
LEMMA LookedEager ==
  ASSUME Kept, Alike, writes # << >>, NEW b, NEW n \in Nat \ {0}, n < BufferSize,
         Chunks(received, b, n, writes), Covered(received, b, n, responses),
         last_crlf' = LookAt(b, 0, BufferSize, -3, n).last,
         LookAt(b, 0, BufferSize, -3, n).verdict = "complete" =>
           Respond(Tail(writes), LookAt(b, 0, BufferSize, -3, n).request, Head(writes))
  PROVE  /\ Chunks(received, b, n, writes')
         /\ FirstReplied(b, n, last_crlf', writes', responses')
         /\ Covered(received, b, n, responses')
<1> DEFINE look == LookAt(b, 0, BufferSize, -3, n)
           S == Requests \cup {0}
<1>1. client \in Clients /\ BufferSize \in Nat /\ writes \in Seq(Contexts) /\ responses \in Seq(S)
      /\ \A r \in Requests : r # 0
  BY SizesAssumption, ResponsesCounted, RequestsTyped DEF Kept, Typed, Requests
<1>2. PICK first \in Requests : FindsFirst(look, b, first)
  <2>1. 0 \in Nat /\ n \in Nat /\ 0 + n = n /\ n # 0 /\ ~Refused(n, BufferSize)
    BY <1>1 DEF Refused
  <2>2. 0 + n \in Ends /\ 0 + n # 0 /\ Whole(b, received, 0 + n)
    BY <2>1 DEF Chunks
  <2>3. \E first \in Requests : EndOf(first) <= received /\ FindsFirst(look, b, first)
    BY <1>1, <2>1, <2>2, LookAnswers
  <2> QED
    BY <2>3
<1>3. Slot(b, 0, first) /\ last_crlf' = Text(first) + 1 /\ Respond(Tail(writes), first, Head(writes))
  BY <1>2 DEF FindsFirst
<1>4. responses' = Append(responses, first) /\ writes' = Append(Tail(writes), Head(writes))
  <2>1. Answer(first) = first
    BY <1>1, AnswersAlike
  <2> QED
    BY <1>3, <2>1 DEF Respond
<1>5. writes' # << >> /\ \A i \in 1 .. Len(writes') : \E k \in 1 .. Len(writes) : writes'[i] = writes[k]
  <2> DEFINE u == Append(Tail(writes), Head(writes))
  <2>1. u # << >> /\ \A i \in 1 .. Len(u) : \E k \in 1 .. Len(writes) : u[i] = writes[k]
    BY <1>1, Elements
  <2>2. writes' = u
    BY <1>4
  <2> HIDE DEF u
  <2> QED
    BY <2>1, <2>2
<1>6. Chunks(received, b, n, writes')
  BY <1>5 DEF Chunks
<1>7. first \in S
  OBVIOUS
<1> HIDE DEF look, S
<1>8. FirstReplied(b, n, last_crlf', writes', responses')
  BY <1>1, <1>3, <1>4, <1>5, <1>7, FrontAnswered
<1>9. \A r : Replied(responses, r) => Replied(responses', r)
  BY <1>1, <1>4, <1>7, RepliedToo
<1>10. Covered(received, b, n, responses')
  BY <1>9 DEF Covered
<1> QED
  BY <1>6, <1>8, <1>10

LEMMA WriteDoneEager ==
  ASSUME Kept, Kept', Eager, WriteDone(0)
  PROVE  Eager'
<1> DEFINE N == Len(client.requests)
           seen == request_bytes_already_seen
           a == request_buffer
           size == last_crlf + 4 + 0
           remaining == seen - size
           n == IF remaining > 0 THEN remaining ELSE Head(writes)
           b == Leftover(a, size, remaining)
           look == LookAt(b, 0, BufferSize, -3, n)
<1>1. /\ writes # << >> /\ client' = client /\ received' = received /\ (is_active' => is_active)
      /\ request_buffer' = b
  BY DEF WriteDone
<1>2. remaining # 0 =>
        /\ last_crlf' = look.last
        /\ Count(0, BufferSize, n, look.verdict)
        /\ look.verdict = "complete" => Respond(Tail(writes), look.request, Head(writes))
        /\ is_active' => look.verdict # "refused"
  BY DEF WriteDone, FreshLastCrlf
<1>3. remaining = 0 =>
        /\ last_crlf' = -3 /\ request_bytes_already_seen' = 0
        /\ writes' = Tail(writes) /\ responses' = responses
  BY DEF WriteDone, FreshLastCrlf
<1> SUFFICES ASSUME ~client.patient, is_active', Alike
             PROVE  /\ Chunks(received', request_buffer', request_bytes_already_seen', writes')
                    /\ FirstReplied(request_buffer', request_bytes_already_seen', last_crlf', writes', responses')
                    /\ Covered(received', request_buffer', request_bytes_already_seen', responses')
  BY <1>1, EagerNext
<1>4. /\ Chunks(received, a, seen, writes) /\ FirstReplied(a, seen, last_crlf, writes, responses)
      /\ Covered(received, a, seen, responses)
  <2>1. is_active
    BY <1>1
  <2> QED
    BY <2>1 DEF Eager
<1>5. /\ client \in Clients /\ BufferSize \in Nat \ {0} /\ seen \in 0 .. BufferSize - 1
      /\ writes \in Seq(Contexts) /\ N \in Nat /\ Requests = 1 .. N /\ EndOf(0) = 0
      /\ a \in Buffers
  <2>1. client \in Clients /\ writes \in Seq(Contexts) /\ BufferSize \in Nat \ {0} /\ a \in Buffers
    BY SizesAssumption DEF Kept, Typed
  <2>2. seen \in 0 .. BufferSize - 1
    BY <2>1 DEF Kept, Typed, ConnectionTypeOK
  <2>3. N \in Nat /\ Requests = 1 .. N /\ EndOf(0) = 0
    BY <2>1, RequestsTyped, RequestsEnd DEF Requests
  <2> QED
    BY <2>1, <2>2, <2>3
<1>6. /\ Len(writes) \in Nat \ {0} /\ Head(writes) = writes[1] /\ 1 \in 1 .. Len(writes)
      /\ \A i \in 1 .. Len(Tail(writes)) : i + 1 \in 1 .. Len(writes) /\ Tail(writes)[i] = writes[i + 1]
      /\ \A i \in 1 .. Len(writes) : writes[i] \in Contexts
  <2>1. \A i \in 1 .. Len(writes) : writes[i] \in Contexts
    <3> HIDE DEF Contexts
    <3> QED
      BY <1>5
  <2> QED
    BY <1>1, <1>5, <2>1, Elements
<1> HIDE DEF N, b, look, remaining, n, seen, a
<1>7. ASSUME remaining # 0, n \in Nat \ {0}, n < BufferSize,
             Chunks(received, b, n, writes), Covered(received, b, n, responses)
      PROVE  /\ Chunks(received', request_buffer', request_bytes_already_seen', writes')
             /\ FirstReplied(request_buffer', request_bytes_already_seen', last_crlf', writes', responses')
             /\ Covered(received', request_buffer', request_bytes_already_seen', responses')
  <2>1. request_bytes_already_seen' = n
    <3>1. look.verdict # "refused"
      BY <1>2, <1>7
    <3> QED
      BY <1>2, <1>7, <3>1 DEF Count
  <2>2. /\ last_crlf' = LookAt(b, 0, BufferSize, -3, n).last
        /\ LookAt(b, 0, BufferSize, -3, n).verdict = "complete" =>
             Respond(Tail(writes), LookAt(b, 0, BufferSize, -3, n).request, Head(writes))
    BY <1>2, <1>7 DEF look
  <2>3. /\ Chunks(received, b, n, writes') /\ FirstReplied(b, n, last_crlf', writes', responses')
        /\ Covered(received, b, n, responses')
    BY <1>1, <1>7, <2>2, LookedEager
  <2> QED
    BY <1>1, <2>1, <2>3
<1>8. remaining <= 0 => b = a
  <2>1. remaining <= 0 /\ remaining \in Int => \A i \in Indices : ~(i < remaining)
    BY DEF Indices
  <2>2. last_crlf \in Int /\ size \in Int /\ remaining \in Int
    BY <1>5 DEF Kept, Typed, ConnectionTypeOK, remaining
  <2>3. remaining <= 0 => b = [i \in Indices |-> a[i]]
    BY <2>1, <2>2 DEF b, Leftover
  <2>4. a = [i \in Indices |-> a[i]]
    BY <1>5 DEF Buffers
  <2> QED
    BY <2>3, <2>4
<1>9. CASE seen = 0
  <2>1. last_crlf = -3
    BY <1>4, <1>9 DEF FirstReplied
  <2>2. remaining = -1
    BY <1>9, <2>1 DEF remaining
  <2>3. n = writes[1] /\ writes[1] \in Nat \ {0} /\ writes[1] < BufferSize
    <3>1. n = Head(writes)
      BY <2>2 DEF n
    <3> QED
      BY <1>5, <1>6, <3>1 DEF Contexts
  <2>4. b = a
    BY <1>8, <2>2
  <2>5. Chunks(received, b, n, writes)
    BY <1>4, <1>6, <2>3, <2>4 DEF Chunks
  <2>6. Covered(received, b, n, responses)
    <3>1. \A j \in 0 .. N : EndOf(j) \in Nat
      BY <1>5, EndsInOrder DEF N
    <3>2. \A j \in 0 .. N : ~(EndOf(j) < seen)
      BY <1>9, <3>1
    <3> QED
      BY <1>4, <3>2 DEF Covered, N
  <2>7. remaining # 0
    BY <2>2
  <2> QED
    BY <1>7, <2>3, <2>5, <2>6, <2>7
<1>10. CASE seen # 0
  <2>1. PICK x \in 0 .. N : seen = EndOf(x)
    BY <1>4 DEF Chunks, Ends, N
  <2>2. x \in 1 .. N /\ 1 \in 0 .. N /\ x - 1 \in 0 .. N /\ 1 \in Requests /\ 1 + (x - 1) = x /\ x <= N
    BY <1>5, <1>10, <2>1
  <2>3. size = EndOf(1)
    <3>1. last_crlf = Text(1) + 1
      BY <1>4, <1>10, <2>2 DEF FirstReplied
    <3>2. EndOf(1) = EndOf(1 - 1) + Size(1)
      BY <1>5, <2>2, SentHolds
    <3>3. Size(1) = Text(1) + 5 /\ Text(1) \in Nat /\ 1 - 1 = 0
      BY <1>5, <2>2, SizesAlike
    <3> QED
      BY <1>5, <3>1, <3>2, <3>3
  <2>4. EndOf(x) = EndOf(1) + EndOf(x - 1) /\ EndOf(1) \in Nat /\ EndOf(x - 1) \in Nat
        /\ EndOf(x) \in Nat
    <3>1. EndOf(1 + (x - 1)) = EndOf(1) + EndOf(x - 1)
      BY <1>5, <2>2, EndsAdd DEF N
    <3> QED
      BY <1>5, <2>2, <3>1, EndsInOrder DEF N
  <2> HIDE DEF size
  <2>5. remaining = EndOf(x - 1)
    BY <2>1, <2>3, <2>4 DEF remaining
  <2>6. ASSUME NEW r \in Requests, Slot(a, 0, r) PROVE Replied(responses, r)
    BY <1>4, <1>10, <2>6 DEF FirstReplied
  <2>7. \A j \in 0 .. N : EndOf(j) < seen <=> j < x
    BY <1>5, <2>1, EndsInOrder DEF N
  <2>8. CASE x = 1
    <3>1. remaining = 0
      BY <1>5, <2>5, <2>8
    <3>2. b = a
      BY <1>8, <3>1
    <3>3. \A j \in 0 .. N : ~(EndOf(j) < 0)
      <4>1. \A j \in 0 .. N : EndOf(j) \in Nat
        BY <1>5, EndsInOrder DEF N
      <4> QED
        BY <4>1
    <3>4. Chunks(received, a, 0, Tail(writes))
      <4>1. 0 \in Ends
        <5>1. 0 \in 0 .. N
          BY <1>5
        <5> QED
          BY <1>5, <5>1 DEF Ends, N
      <4>2. received \in Ends /\ 0 <= received
        <5>1. received \in 0 .. TotalSent
          BY DEF Kept, Typed, ConnectionTypeOK
        <5>2. 0 <= received
          BY <5>1
        <5> QED
          BY <1>4, <5>2 DEF Chunks
      <4>3. Whole(a, received, 0)
        BY <3>3 DEF Whole, N
      <4>4. \A i \in 1 .. Len(writes) :
              writes[i] \in Ends /\ writes[i] <= received /\ Whole(a, received, writes[i])
        BY <1>4 DEF Chunks
      <4>5. \A i \in 1 .. Len(Tail(writes)) :
              /\ Tail(writes)[i] \in Ends /\ Tail(writes)[i] <= received
              /\ Whole(a, received, Tail(writes)[i])
        BY <1>6, <4>4
      <4> QED
        BY <4>1, <4>2, <4>3, <4>5 DEF Chunks
    <3>5. FirstReplied(a, 0, last_crlf', writes', responses')
      BY <1>3, <3>1 DEF FirstReplied
    <3>6. Covered(received, a, 0, responses)
      <4>1. \A j \in 0 .. N : EndOf(j) < seen => j = 0
        BY <1>5, <2>7, <2>8
      <4> QED
        BY <1>4, <2>6, <4>1 DEF Covered, N
    <3> QED
      BY <1>1, <1>3, <3>1, <3>2, <3>4, <3>5, <3>6
  <2>9. CASE x # 1
    <3>1. x \in 2 .. N /\ EndOf(x) <= BufferSize
      BY <1>5, <2>1, <2>2, <2>9
    <3>2. remaining # 0 /\ remaining > 0 /\ n = EndOf(x - 1) /\ n \in Nat \ {0} /\ n < BufferSize /\ n < seen
      <4>1. EndOf(0) < EndOf(x - 1)
        <5>1. 0 \in 0 .. N /\ 0 < x - 1
          BY <1>5, <3>1
        <5> QED
          BY <1>5, <2>2, <5>1, EndsInOrder DEF N
      <4>2. EndOf(x - 1) < EndOf(x)
        BY <1>5, <2>2, EndsInOrder DEF N
      <4>3. remaining \in Nat /\ remaining # 0 /\ remaining > 0
        BY <1>5, <2>4, <2>5, <4>1
      <4>4. n = remaining
        BY <4>3 DEF n
      <4> QED
        BY <1>5, <2>1, <2>4, <2>5, <4>2, <4>3, <4>4
    <3>3. Shifted(a, b, x)
      BY <2>3, <2>5 DEF Shifted, b
    <3>4. /\ \A j \in 0 .. N : \A r \in Requests : j < x - 1 /\ Slot(a, j + 1, r) => Slot(b, j, r)
          /\ \A j \in 0 .. N : \A y \in 0 .. N : \A r \in Requests :
               x - 1 <= j /\ j < y /\ EndOf(y) <= BufferSize /\ Slot(a, j, r) => Slot(b, j, r)
      BY <1>5, <3>1, <3>3, ShiftSlots DEF N
    <3>5. \A j \in 0 .. N : EndOf(j) < n <=> j < x - 1
      BY <1>5, <2>2, <3>2, EndsInOrder DEF N
    <3>6. ASSUME NEW j \in 0 .. N, j < x - 1
          PROVE  \E r \in Requests : EndOf(r) <= received /\ Slot(b, j, r)
      <4>1. j + 1 \in 0 .. N /\ j + 1 < x
        BY <1>5, <2>2, <3>6
      <4>2. PICK r \in Requests : EndOf(r) <= received /\ Slot(a, j + 1, r)
        BY <1>4, <2>7, <4>1 DEF Chunks, Whole, N
      <4> QED
        BY <3>4, <3>6, <4>2
    <3>7. Whole(b, received, n)
      BY <3>5, <3>6 DEF Whole, N
    <3>8. ASSUME NEW i \in 1 .. Len(writes)
          PROVE  writes[i] \in Ends /\ writes[i] <= received /\ Whole(b, received, writes[i])
      <4>1. writes[i] \in Ends /\ writes[i] <= received /\ Whole(a, received, writes[i])
        BY <1>4 DEF Chunks
      <4>2. PICK y \in 0 .. N : writes[i] = EndOf(y)
        BY <4>1 DEF Ends, N
      <4>3. EndOf(y) <= BufferSize
        BY <1>5, <1>6, <4>2 DEF Contexts
      <4>4. ASSUME NEW j \in 0 .. N, EndOf(j) < writes[i]
            PROVE  \E r \in Requests : EndOf(r) <= received /\ Slot(b, j, r)
        <5>1. j < y
          BY <1>5, <4>2, <4>4, EndsInOrder DEF N
        <5>2. CASE j < x - 1
          BY <3>6, <5>2
        <5>3. CASE ~(j < x - 1)
          <6>1. PICK r \in Requests : EndOf(r) <= received /\ Slot(a, j, r)
            BY <4>1, <4>4 DEF Whole, N
          <6>2. x - 1 <= j
            BY <1>5, <2>2, <5>3
          <6> QED
            BY <3>4, <4>3, <5>1, <6>1, <6>2
        <5> QED
          BY <5>2, <5>3
      <4> QED
        BY <4>1, <4>4 DEF Whole, N
    <3>9. Chunks(received, b, n, writes)
      <4>1. n \in Ends
        BY <2>2, <3>2 DEF Ends, N
      <4>2. n <= received
        <5>1. received \in 0 .. TotalSent /\ seen <= received
          BY <1>4 DEF Kept, Typed, ConnectionTypeOK, Chunks
        <5>2. received \in Int
          BY <5>1
        <5> QED
          BY <1>5, <3>2, <5>1, <5>2
      <4>3. received \in Ends
        BY <1>4 DEF Chunks
      <4> QED
        BY <3>7, <3>8, <4>1, <4>2, <4>3 DEF Chunks
    <3>10. Covered(received, b, n, responses)
      <4>1. ASSUME NEW r \in Requests, EndOf(r) <= received
            PROVE  \/ Replied(responses, r)
                   \/ \E j \in 0 .. N : EndOf(j) < n /\ Slot(b, j, r)
        <5>1. CASE Replied(responses, r)
          BY <5>1
        <5>2. ASSUME NEW j \in 0 .. N, EndOf(j) < seen, Slot(a, j, r)
              PROVE  \/ Replied(responses, r)
                     \/ \E k \in 0 .. N : EndOf(k) < n /\ Slot(b, k, r)
          <6>1. CASE j = 0
            BY <2>6, <5>2, <6>1
          <6>2. CASE j # 0
            <7>1. j - 1 \in 0 .. N /\ j - 1 < x - 1 /\ (j - 1) + 1 = j
              BY <1>5, <2>2, <2>7, <5>2, <6>2
            <7>2. Slot(b, j - 1, r)
              BY <3>4, <5>2, <7>1
            <7> QED
              BY <3>5, <7>1, <7>2
          <6> QED
            BY <6>1, <6>2
        <5> QED
          BY <1>4, <4>1, <5>1, <5>2 DEF Covered, N
      <4> QED
        BY <4>1 DEF Covered, N
    <3> QED
      BY <1>7, <3>2, <3>9, <3>10
  <2> QED
    BY <2>2, <2>8, <2>9
<1> QED
  BY <1>9, <1>10

LEMMA OtherwiseEager ==
  ASSUME Kept, Eager, PeerGone \/ UNCHANGED connection_vars
  PROVE  Eager'
<1>1. /\ client' = client /\ received' = received /\ UNCHANGED buffer_vars
      /\ writes' = writes /\ responses' = responses /\ (is_active' => is_active)
  BY DEF PeerGone, connection_vars, buffer_vars
<1>2. /\ request_buffer' = request_buffer /\ last_crlf' = last_crlf
      /\ request_bytes_already_seen' = request_bytes_already_seen
  BY <1>1 DEF buffer_vars
<1>3. ~client.patient /\ is_active' /\ Alike =>
        /\ Chunks(received', request_buffer', request_bytes_already_seen', writes')
        /\ FirstReplied(request_buffer', request_bytes_already_seen', last_crlf', writes', responses')
        /\ Covered(received', request_buffer', request_bytes_already_seen', responses')
  BY <1>1, <1>2 DEF Eager
<1> QED
  BY <1>1, <1>3, EagerNext

LEMMA EagerAtFirst == ConnectionInit => Eager
<1> SUFFICES ASSUME ConnectionInit PROVE Eager
  OBVIOUS
<1> DEFINE N == Len(client.requests)
<1>1. /\ client \in Clients /\ received = 0 /\ responses = << >> /\ writes = << >>
      /\ request_bytes_already_seen = 0 /\ last_crlf = -3 /\ Len(writes) = 0
  BY DEF ConnectionInit
<1>2. EndOf(0) = 0 /\ N \in Nat /\ Requests = 1 .. N
  BY <1>1, RequestsEnd, RequestsTyped DEF Requests
<1>3. \A j \in 0 .. N : EndOf(j) \in Nat /\ ~(EndOf(j) < 0)
  <2>1. \A j \in 0 .. N : EndOf(j) \in Nat
    BY <1>1, EndsInOrder
  <2> QED
    BY <2>1
<1>4. 0 \in Ends
  <2>1. 0 \in 0 .. N
    BY <1>2
  <2> QED
    BY <1>2, <2>1 DEF Ends
<1>5. Chunks(0, request_buffer, 0, writes)
  BY <1>1, <1>3, <1>4 DEF Chunks, Whole
<1>6. FirstReplied(request_buffer, 0, -3, writes, responses)
  BY DEF FirstReplied
<1>7. Covered(0, request_buffer, 0, responses)
  <2>1. ASSUME NEW r \in Requests PROVE ~(EndOf(r) <= 0)
    <3>1. EndOf(r) = EndOf(r - 1) + Size(r) /\ EndOf(r - 1) \in Nat
      BY <1>1, SentHolds
    <3>2. Size(r) \in Nat /\ Size(r) > 0
      BY <1>1, RequestsTyped DEF Size
    <3> QED
      BY <3>1, <3>2
  <2> QED
    BY <2>1 DEF Covered
<1> QED
  BY <1>1, <1>5, <1>6, <1>7 DEF Eager

(* A completed write that begins with no content length left over takes one   *)
(* request out of the buffer.  Then, of an eager client's equal requests      *)
(* without bodies, each is answered at least once before the connection       *)
(* comes to rest, however the reads and the writes overtake one another.      *)
THEOREM NoneIsForgotten ==
  ASSUME LeftOver = {0}
  PROVE  ConnectionSpec => []NoneForgotten
<1>1. ConnectionInit => Kept /\ Eager
  BY KeptAtFirst, EagerAtFirst
<1>2. Kept /\ Eager /\ [ConnectionNext]_connection_vars => (Kept /\ Eager)'
  <2> SUFFICES ASSUME Kept, Eager, [ConnectionNext]_connection_vars PROVE Kept' /\ Eager'
    OBVIOUS
  <2>1. Kept'
    BY NextKeeps
  <2>2. CASE \E n \in 1 .. BufferSize : Read(n)
    BY <2>1, <2>2, ReadEager
  <2>3. CASE PeerGone \/ UNCHANGED connection_vars
    BY <2>1, <2>3, OtherwiseEager
  <2>4. CASE \E content_length \in LeftOver : WriteDone(content_length)
    <3>1. WriteDone(0)
      BY <2>4
    <3> QED
      BY <2>1, <3>1, WriteDoneEager
  <2> QED
    BY <2>1, <2>2, <2>3, <2>4 DEF ConnectionNext
<1>3. Kept /\ Eager => NoneForgotten
  <2> SUFFICES ASSUME Kept, Eager, ~client.patient, is_active, writes = << >>, Alike,
                      NEW r \in Requests, EndOf(r) <= received
               PROVE  r \in ToSet(responses)
    BY DEF NoneForgotten, Alike
  <2>1. request_bytes_already_seen = 0
    BY DEF Eager, FirstReplied
  <2>2. \A j \in 0 .. Len(client.requests) : ~(EndOf(j) < 0)
    <3>1. client \in Clients
      BY DEF Kept, Typed
    <3>2. \A j \in 0 .. Len(client.requests) : EndOf(j) \in Nat
      BY <3>1, EndsInOrder
    <3> QED
      BY <3>2
  <2>3. Replied(responses, r)
    BY <2>1, <2>2 DEF Eager, Covered
  <2>4. PICK k \in 1 .. Len(responses) : responses[k] = r
    BY <2>3 DEF Replied
  <2>5. k \in DOMAIN responses
    <3> DEFINE S == Requests \cup {0}
    <3>1. responses \in Seq(S)
      BY ResponsesCounted
    <3> HIDE DEF S
    <3> QED
      BY <2>4, <3>1
  <2> QED
    BY <2>4, <2>5 DEF ToSet
<1> QED
  BY <1>1, <1>2, <1>3, PTL DEF ConnectionSpec

------------------------------------------------------------------------------
(* The channels of a session. *)

Counted(c) == setups[c] \in Nat /\ tcp_stream_id_count[c] \in Nat
Taken(c, t) == channel[c][t] # None

(* Channels are taken from below, and each takes two. *)
Apart(c) ==
  /\ \A t \in Tracks : Taken(c, t) =>
       channel[c][t] \in Nat /\ channel[c][t] + 2 <= 2 * setups[c]
  /\ \A t, u \in Tracks : t # u /\ Taken(c, t) /\ Taken(c, u) =>
       channel[c][t] + 2 <= channel[c][u] \/ channel[c][u] + 2 <= channel[c][t]

(* Before the count comes round, it is beyond all of them.  When it just has *)
(* come round, the channels are still apart, and the bound of the property   *)
(* is reached.                                                               *)
Beyond(c) ==
  /\ tcp_stream_id_count[c] <= 2 * setups[c]
  /\ \A t \in Tracks : Taken(c, t) => channel[c][t] + 2 <= tcp_stream_id_count[c]

ChannelsInv(c) ==
  /\ Counted(c)
  /\ 2 * setups[c] <= ChannelIds => Apart(c)
  /\ 2 * setups[c] < ChannelIds => Beyond(c)

ChannelsKept ==
  /\ setups \in [Sessions -> Nat]
  /\ tcp_stream_id_count \in [Sessions -> Nat]
  /\ channel \in [Sessions -> [Tracks -> Nat \cup {None}]]
  /\ \A c \in Sessions : ChannelsInv(c)

LEMMA Rest ==
  ASSUME NEW n \in Nat, NEW m \in Nat \ {0}
  PROVE  n % m \in Nat /\ (n < m => n % m = n)
OBVIOUS

LEMMA ChannelsAtFirst == Init => ChannelsKept
<1> SUFFICES ASSUME Init PROVE ChannelsKept
  OBVIOUS
<1>1. /\ setups \in [Sessions -> Nat] /\ tcp_stream_id_count \in [Sessions -> Nat]
      /\ channel \in [Sessions -> [Tracks -> Nat \cup {None}]]
  BY DEF Init
<1>2. ASSUME NEW c \in Sessions PROVE ChannelsInv(c)
  <2>1. setups[c] = 0 /\ tcp_stream_id_count[c] = 0 /\ \A t \in Tracks : ~Taken(c, t)
    BY DEF Init, Taken
  <2> QED
    BY <2>1 DEF ChannelsInv, Counted, Apart, Beyond
<1> QED
  BY <1>1, <1>2 DEF ChannelsKept

(* Sessions whose count and channels do not change. *)
LEMMA OthersKept ==
  ASSUME NEW c \in Sessions, ChannelsInv(c), setups'[c] = setups[c],
         tcp_stream_id_count'[c] = tcp_stream_id_count[c], channel'[c] = channel[c]
  PROVE  ChannelsInv(c)'
BY DEF ChannelsInv, Counted, Apart, Beyond, Taken

(* A SETUP takes the next channel for its track, or none. *)
LEMMA SetupKeeps ==
  ASSUME ChannelsKept, NEW c \in Sessions, NEW t \in Tracks, NEW ch, NEW count \in Nat,
         setups' = [setups EXCEPT ![c] = @ + 1],
         channel' = [channel EXCEPT ![c][t] = ch],
         tcp_stream_id_count' = [tcp_stream_id_count EXCEPT ![c] = count],
         \/ ch = None /\ count = tcp_stream_id_count[c]
         \/ ch \in {None, tcp_stream_id_count[c]} /\ count = NextStreamId(tcp_stream_id_count[c])
  PROVE  ChannelsKept'
<1> DEFINE old == tcp_stream_id_count[c]
           n == setups[c]
<1>1. /\ setups \in [Sessions -> Nat] /\ tcp_stream_id_count \in [Sessions -> Nat]
      /\ channel \in [Sessions -> [Tracks -> Nat \cup {None}]]
      /\ \A d \in Sessions : ChannelsInv(d)
  BY DEF ChannelsKept
<1>2. old \in Nat /\ n \in Nat /\ ch \in Nat \cup {None} /\ ChannelIds \in Nat \ {0}
  BY <1>1, ConstantsAssumption
<1>3. setups'[c] = n + 1 /\ tcp_stream_id_count'[c] = count /\ channel'[c][t] = ch
      /\ \A u \in Tracks : u # t => channel'[c][u] = channel[c][u]
  BY <1>1
<1>4. /\ setups' \in [Sessions -> Nat] /\ tcp_stream_id_count' \in [Sessions -> Nat]
      /\ channel' \in [Sessions -> [Tracks -> Nat \cup {None}]]
  BY <1>1, <1>2
<1>5. ASSUME NEW d \in Sessions, d # c PROVE ChannelsInv(d)'
  <2>1. setups'[d] = setups[d] /\ tcp_stream_id_count'[d] = tcp_stream_id_count[d]
        /\ channel'[d] = channel[d]
    BY <1>1, <1>5
  <2> QED
    BY <1>1, <2>1, OthersKept
<1>6. ChannelsInv(c)'
  <2>1. ASSUME 2 * (n + 1) <= ChannelIds
        PROVE  /\ old <= 2 * n
               /\ \A u \in Tracks : Taken(c, u) => channel[c][u] \in Nat /\ channel[c][u] + 2 <= old
               /\ \A u, v \in Tracks : u # v /\ Taken(c, u) /\ Taken(c, v) =>
                    channel[c][u] + 2 <= channel[c][v] \/ channel[c][v] + 2 <= channel[c][u]
    <3>1. 2 * n < ChannelIds /\ 2 * n <= ChannelIds
      BY <1>2, <2>1
    <3>2. Apart(c) /\ Beyond(c)
      BY <1>1, <3>1 DEF ChannelsInv
    <3> QED
      BY <3>2 DEF Apart, Beyond
  <2>2. ASSUME NEW u \in Tracks, 2 * (n + 1) <= ChannelIds, Taken(c, u)'
        PROVE  /\ channel'[c][u] \in Nat /\ channel'[c][u] + 2 <= 2 * (n + 1)
               /\ u = t => channel'[c][u] = old
               /\ u # t => channel'[c][u] = channel[c][u] /\ Taken(c, u) /\ channel'[c][u] + 2 <= old
    <3>1. CASE u = t
      BY <1>2, <1>3, <2>1, <2>2, <3>1 DEF Taken
    <3>2. CASE u # t
      <4>1. channel'[c][u] = channel[c][u] /\ Taken(c, u)
        BY <1>3, <2>2, <3>2 DEF Taken
      <4>2. channel[c][u] \in Nat /\ channel[c][u] + 2 <= old /\ old <= 2 * n
        BY <2>1, <2>2, <4>1
      <4> QED
        BY <1>2, <3>2, <4>1, <4>2
    <3> QED
      BY <3>1, <3>2
  <2>3. ASSUME 2 * (n + 1) <= ChannelIds PROVE Apart(c)'
    <3>1. ASSUME NEW u \in Tracks, NEW v \in Tracks, u # v, Taken(c, u)', Taken(c, v)'
          PROVE  channel'[c][u] + 2 <= channel'[c][v] \/ channel'[c][v] + 2 <= channel'[c][u]
      <4>1. CASE u = t
        BY <2>2, <2>3, <3>1, <4>1
      <4>2. CASE v = t
        BY <2>2, <2>3, <3>1, <4>2
      <4>3. CASE u # t /\ v # t
        BY <2>1, <2>2, <2>3, <3>1, <4>3
      <4> QED
        BY <4>1, <4>2, <4>3
    <3> QED
      BY <1>3, <2>2, <2>3, <3>1 DEF Apart
  <2>4. ASSUME 2 * (n + 1) < ChannelIds PROVE Beyond(c)'
    <3>1. 2 * (n + 1) <= ChannelIds /\ old <= 2 * n
      BY <1>2, <2>1, <2>4
    <3>2. count = old \/ count = old + 2
      <4>1. old + 2 < ChannelIds
        BY <1>2, <2>4, <3>1
      <4> QED
        BY <1>2, <4>1, Rest DEF NextStreamId
    <3>3. count <= 2 * (n + 1)
      BY <1>2, <3>1, <3>2
    <3>4. ASSUME NEW u \in Tracks, Taken(c, u)' PROVE channel'[c][u] + 2 <= count
      <4>1. CASE u = t
        <5>1. ch # None
          BY <1>3, <3>4, <4>1 DEF Taken
        <5>2. count = NextStreamId(old)
          BY <5>1
        <5>3. count = old + 2
          <6>1. old + 2 < ChannelIds
            BY <1>2, <2>4, <3>1
          <6> QED
            BY <1>2, <5>2, <6>1, Rest DEF NextStreamId
        <5> QED
          BY <1>2, <2>2, <3>1, <3>4, <4>1, <5>3
      <4>2. CASE u # t
        BY <1>2, <2>2, <3>1, <3>2, <3>4, <4>2
      <4> QED
        BY <4>1, <4>2
    <3> QED
      BY <1>3, <3>3, <3>4 DEF Beyond
  <2>5. Counted(c)'
    BY <1>2, <1>3 DEF Counted
  <2> QED
    BY <1>3, <2>3, <2>4, <2>5 DEF ChannelsInv
<1> QED
  BY <1>4, <1>5, <1>6 DEF ChannelsKept

LEMMA SessionEndsKeeps ==
  ASSUME ChannelsKept, NEW c \in Sessions, SessionEnds(c)
  PROVE  ChannelsKept'
<1>1. /\ setups \in [Sessions -> Nat] /\ tcp_stream_id_count \in [Sessions -> Nat]
      /\ channel \in [Sessions -> [Tracks -> Nat \cup {None}]]
      /\ \A d \in Sessions : ChannelsInv(d)
  BY DEF ChannelsKept
<1>2. /\ setups' = [setups EXCEPT ![c] = 0]
      /\ tcp_stream_id_count' = [tcp_stream_id_count EXCEPT ![c] = 0]
      /\ channel' = [channel EXCEPT ![c] = [t \in Tracks |-> None]]
  BY DEF SessionEnds
<1>3. /\ setups' \in [Sessions -> Nat] /\ tcp_stream_id_count' \in [Sessions -> Nat]
      /\ channel' \in [Sessions -> [Tracks -> Nat \cup {None}]]
  BY <1>1, <1>2
<1>4. ASSUME NEW d \in Sessions, d # c PROVE ChannelsInv(d)'
  <2>1. setups'[d] = setups[d] /\ tcp_stream_id_count'[d] = tcp_stream_id_count[d]
        /\ channel'[d] = channel[d]
    BY <1>1, <1>2, <1>4
  <2> QED
    BY <1>1, <2>1, OthersKept
<1>5. ChannelsInv(c)'
  <2>1. setups'[c] = 0 /\ tcp_stream_id_count'[c] = 0 /\ \A t \in Tracks : ~Taken(c, t)'
    BY <1>1, <1>2 DEF Taken
  <2> QED
    BY <2>1 DEF ChannelsInv, Counted, Apart, Beyond
<1> QED
  BY <1>3, <1>4, <1>5 DEF ChannelsKept

LEMMA UnchangedKeeps ==
  ASSUME ChannelsKept, UNCHANGED <<setups, tcp_stream_id_count, channel>>
  PROVE  ChannelsKept'
<1>1. \A c \in Sessions : ChannelsInv(c)'
  BY OthersKept DEF ChannelsKept
<1> QED
  BY <1>1 DEF ChannelsKept

LEMMA NextKeepsChannels == ChannelsKept /\ [Next]_vars => ChannelsKept'
<1> SUFFICES ASSUME ChannelsKept, [Next]_vars PROVE ChannelsKept'
  OBVIOUS
<1>1. ASSUME NEW k \in Sockets, Connect(k) \/ CloseSockets(k) PROVE ChannelsKept'
  BY <1>1, UnchangedKeeps DEF Connect, CloseSockets, state_vars, history_vars
<1>2. ASSUME NEW c \in Sessions, NEW t \in Tracks, NEW k \in Sockets, SetupUdp(c, t, k) PROVE ChannelsKept'
  <2>1. tcp_stream_id_count \in [Sessions -> Nat]
    BY DEF ChannelsKept
  <2>2. /\ setups' = [setups EXCEPT ![c] = @ + 1]
        /\ channel' = [channel EXCEPT ![c][t] = None]
        /\ tcp_stream_id_count' = [tcp_stream_id_count EXCEPT ![c] = tcp_stream_id_count[c]]
    BY <1>2, <2>1 DEF SetupUdp, SetupOver
  <2> QED
    BY <2>1, <2>2, SetupKeeps
<1>3. ASSUME NEW c \in Sessions, NEW t \in Tracks, NEW k \in Sockets,
             NEW named \in BOOLEAN, SetupTcp(c, t, k, named)
      PROVE  ChannelsKept'
  <2> DEFINE count == NextStreamId(tcp_stream_id_count[c])
             ch == IF named THEN None ELSE tcp_stream_id_count[c]
  <2>1. tcp_stream_id_count[c] \in Nat /\ ChannelIds \in Nat \ {0}
    BY ConstantsAssumption DEF ChannelsKept
  <2>2. count \in Nat
    BY <2>1, Rest DEF NextStreamId
  <2>3. /\ setups' = [setups EXCEPT ![c] = @ + 1]
        /\ channel' = [channel EXCEPT ![c][t] = ch]
        /\ tcp_stream_id_count' = [tcp_stream_id_count EXCEPT ![c] = count]
    BY <1>3 DEF SetupTcp, SetupOver
  <2>4. ch \in {None, tcp_stream_id_count[c]} /\ count = NextStreamId(tcp_stream_id_count[c])
    OBVIOUS
  <2> HIDE DEF count, ch
  <2> QED
    BY <2>2, <2>3, <2>4, SetupKeeps
<1>4. ASSUME NEW c \in Sessions, SessionEnds(c) PROVE ChannelsKept'
  BY <1>4, SessionEndsKeeps
<1>5. CASE UNCHANGED vars
  BY <1>5, UnchangedKeeps DEF vars
<1>6. ASSUME NEW c \in Sessions, NoteLiveness(c) \/ FallsSilent(c) PROVE ChannelsKept'
  BY <1>6, UnchangedKeeps DEF NoteLiveness, FallsSilent, LivenessChanges, state_vars, history_vars
<1> QED
  BY <1>1, <1>2, <1>3, <1>4, <1>5, <1>6 DEF Next, Setup, LivenessTimeout

(* As long as the count of a session has not come round, its tracks share   *)
(* neither the channel of RTP nor that of RTCP (rtsp_server.c:2669-2716).   *)
THEOREM ChannelsStayDistinct == Spec => []ChannelsDistinct
<1>1. ChannelsKept => ChannelsDistinct
  <2> SUFFICES ASSUME ChannelsKept, NEW c \in Sessions, 2 * setups[c] <= ChannelIds,
                      NEW t \in Tracks, NEW u \in Tracks, t # u,
                      channel[c][t] # None, channel[c][u] # None
               PROVE  ChannelsOf(c, t) \cap ChannelsOf(c, u) = {}
    BY DEF ChannelsDistinct
  <2>1. Apart(c) /\ setups[c] \in Nat /\ ChannelIds \in Nat \ {0}
    BY ConstantsAssumption DEF ChannelsKept, ChannelsInv
  <2> DEFINE x == channel[c][t]
             y == channel[c][u]
  <2>2. x \in Nat /\ y \in Nat /\ x + 2 <= ChannelIds /\ y + 2 <= ChannelIds
        /\ (x + 2 <= y \/ y + 2 <= x)
    BY <2>1 DEF Apart, Taken
  <2>3. ChannelsOf(c, t) = {x, (x + 1) % ChannelIds} /\ ChannelsOf(c, u) = {y, (y + 1) % ChannelIds}
    BY DEF ChannelsOf
  <2> HIDE DEF x, y
  <2>4. (x + 1) % ChannelIds = x + 1 /\ (y + 1) % ChannelIds = y + 1
    BY <2>1, <2>2, Rest
  <2> QED
    BY <2>2, <2>3, <2>4
<1> QED
  BY <1>1, ChannelsAtFirst, NextKeepsChannels, PTL DEF Spec

------------------------------------------------------------------------------
(* Lists in which no record occurs twice. *)

LEMMA ListTypes ==
  ASSUME NEW R, NEW s \in Seq(R)
  PROVE  /\ Len(s) \in Nat /\ DOMAIN s = 1 .. Len(s)
         /\ \A r : r \in ToSet(s) <=> \E i \in 1 .. Len(s) : s[i] = r
         /\ IsInjective(s) <=> \A i, j \in 1 .. Len(s) : s[i] = s[j] => i = j
<1>1. Len(s) \in Nat /\ DOMAIN s = 1 .. Len(s)
  OBVIOUS
<1>2. \A r : r \in ToSet(s) <=> \E i \in 1 .. Len(s) : s[i] = r
  BY <1>1 DEF ToSet
<1>3. IsInjective(s) <=> \A i, j \in 1 .. Len(s) : s[i] = s[j] => i = j
  BY <1>1 DEF IsInjective
<1> QED
  BY <1>1, <1>2, <1>3

(* The list c holds the records of S, each once. *)
ListOf(c, R, S) == c \in Seq(R) /\ IsInjective(c) /\ ToSet(c) = S

LEMMA InFront ==
  ASSUME NEW R, NEW s \in Seq(R), IsInjective(s), NEW r \in R, r \notin ToSet(s)
  PROVE  ListOf(<<r>> \o s, R, ToSet(s) \cup {r})
<1> DEFINE c == <<r>> \o s
<1>1. c \in Seq(R) /\ Len(c) = Len(s) + 1 /\ Len(s) \in Nat
  OBVIOUS
<1>2. c[1] = r /\ \A i \in 1 .. Len(s) : c[i + 1] = s[i]
  OBVIOUS
<1> HIDE DEF c
<1>3. \A i \in 1 .. Len(c) : i = 1 \/ (i - 1 \in 1 .. Len(s) /\ c[i] = s[i - 1])
  <2> SUFFICES ASSUME NEW i \in 1 .. Len(c), i # 1
               PROVE  i - 1 \in 1 .. Len(s) /\ c[i] = s[i - 1]
    OBVIOUS
  <2>1. i - 1 \in 1 .. Len(s) /\ (i - 1) + 1 = i
    BY <1>1
  <2> QED
    BY <1>2, <2>1
<1>4. ToSet(c) = ToSet(s) \cup {r}
  <2>1. ASSUME NEW x \in ToSet(c) PROVE x \in ToSet(s) \cup {r}
    BY <1>1, <1>2, <1>3, <2>1, ListTypes
  <2>2. r \in ToSet(c)
    <3>1. 1 \in 1 .. Len(c)
      BY <1>1
    <3> QED
      BY <1>1, <1>2, <3>1, ListTypes
  <2>3. ASSUME NEW x \in ToSet(s) PROVE x \in ToSet(c)
    <3>1. PICK i \in 1 .. Len(s) : s[i] = x
      BY <2>3, ListTypes
    <3>2. i + 1 \in 1 .. Len(c) /\ c[i + 1] = x
      BY <1>1, <1>2, <3>1
    <3> QED
      BY <1>1, <3>2, ListTypes
  <2> QED
    BY <2>1, <2>2, <2>3
<1>5. \A p \in 1 .. Len(s) : s[p] # r
  BY ListTypes
<1>6. \A i, j \in 1 .. Len(s) : s[i] = s[j] => i = j
  BY ListTypes
<1>7. IsInjective(c)
  <2> SUFFICES ASSUME NEW i \in 1 .. Len(c), NEW j \in 1 .. Len(c), c[i] = c[j] PROVE i = j
    BY <1>1, ListTypes
  <2>1. CASE i = 1 \/ j = 1
    BY <1>2, <1>3, <1>5, <2>1
  <2>2. CASE i # 1 /\ j # 1
    <3>1. i - 1 \in 1 .. Len(s) /\ j - 1 \in 1 .. Len(s) /\ s[i - 1] = s[j - 1]
      BY <1>3, <2>2
    <3>2. i - 1 = j - 1
      BY <1>6, <3>1
    <3> QED
      BY <1>1, <3>2
  <2> QED
    BY <2>1, <2>2
<1> QED
  BY <1>1, <1>4, <1>7 DEF ListOf, c

(* RemoveFirst() finds the record wherever it is, and leaves the others.     *)
LEMMA FirstRemoved ==
  ASSUME NEW R, NEW s \in Seq(R), IsInjective(s), NEW r
  PROVE  ListOf(RemoveFirst(s, r), R, ToSet(s) \ {r})
<1> DEFINE I == {i \in 1 .. Len(s) : s[i] = r}
           p == SelectInSeq(s, LAMBDA x : x = r)
           c == RemoveFirst(s, r)
<1>1. CASE I = {}
  <2>1. c = s
    BY <1>1 DEF RemoveFirst
  <2>2. r \notin ToSet(s)
    BY <1>1, ListTypes
  <2>3. ToSet(s) = ToSet(s) \ {r}
    BY <2>2
  <2> QED
    BY <2>1, <2>3 DEF ListOf
<1>2. CASE I # {}
  <2>1. p \in I
    <3>1. p = Min(I)
      BY <1>2 DEF SelectInSeq
    <3>2. \E x \in I : \A y \in I : x <= y
      <4>1. I \subseteq Nat
        OBVIOUS
      <4> HIDE DEF I
      <4> QED
        BY <1>2, <4>1, SmallestNumber
    <3> HIDE DEF I, p
    <3> QED
      BY <3>1, <3>2 DEF Min
  <2>2. Len(s) \in Nat /\ p \in 1 .. Len(s) /\ s[p] = r
    BY <2>1
  <2>3. c = SubSeq(s, 1, p - 1) \o SubSeq(s, p + 1, Len(s))
    <3>1. \E i \in 1 .. Len(s) : s[i] = r
      BY <2>2
    <3> QED
      BY <3>1 DEF RemoveFirst, RemoveAt
  <2> HIDE DEF p, c, I
  <2> DEFINE before == SubSeq(s, 1, p - 1)
             after == SubSeq(s, p + 1, Len(s))
  <2>4. before \in Seq(R) /\ Len(before) = p - 1 /\ \A i \in 1 .. p - 1 : before[i] = s[i]
    BY <2>2
  <2>5. after \in Seq(R) /\ Len(after) = Len(s) - p /\ \A i \in 1 .. Len(s) - p : after[i] = s[p + i]
    BY <2>2
  <2> HIDE DEF before, after
  <2>6. /\ c \in Seq(R) /\ Len(c) = Len(s) - 1
        /\ \A i \in 1 .. Len(s) - 1 : c[i] = IF i <= p - 1 THEN before[i] ELSE after[i - (p - 1)]
    <3>1. c = before \o after
      BY <2>3 DEF before, after
    <3>2. Len(before) + Len(after) = Len(s) - 1
      BY <2>2, <2>4, <2>5
    <3> QED
      BY <2>4, <2>5, <3>1, <3>2, ConcatProperties
  <2>7. ASSUME NEW i \in 1 .. Len(s) - 1
        PROVE  c[i] = IF i < p THEN s[i] ELSE s[i + 1]
    <3>1. CASE i < p
      <4>1. i <= p - 1 /\ i \in 1 .. p - 1
        BY <2>2, <3>1
      <4> QED
        BY <2>4, <2>6, <3>1, <4>1
    <3>2. CASE i >= p
      <4>1. i - (p - 1) \in 1 .. Len(s) - p /\ p + (i - (p - 1)) = i + 1
        BY <2>2, <3>2
      <4>2. c[i] = after[i - (p - 1)] /\ ~(i < p)
        BY <2>2, <2>6, <3>2
      <4> QED
        BY <2>5, <4>1, <4>2
    <3> QED
      BY <2>2, <3>1, <3>2
  <2>8. \A i, j \in 1 .. Len(s) : s[i] = s[j] => i = j
    BY ListTypes
  <2>9. IsInjective(c)
    <3> SUFFICES ASSUME NEW i \in 1 .. Len(c), NEW j \in 1 .. Len(c), c[i] = c[j] PROVE i = j
      BY <2>6, ListTypes
    <3>1. i \in 1 .. Len(s) - 1 /\ j \in 1 .. Len(s) - 1
      BY <2>6
    <3> QED
      BY <2>2, <2>7, <2>8, <3>1
  <2>10. ToSet(c) = ToSet(s) \ {r}
    <3>1. ASSUME NEW x \in ToSet(c) PROVE x \in ToSet(s) \ {r}
      <4>1. PICK i \in 1 .. Len(s) - 1 : c[i] = x
        BY <2>6, <3>1, ListTypes
      <4>2. CASE i < p
        <5>1. i \in 1 .. Len(s) /\ i # p /\ s[i] = x
          BY <2>2, <2>7, <4>1, <4>2
        <5> QED
          BY <2>2, <2>8, <5>1, ListTypes
      <4>3. CASE ~(i < p)
        <5>1. i + 1 \in 1 .. Len(s) /\ i + 1 # p /\ s[i + 1] = x
          BY <2>2, <2>7, <4>1, <4>3
        <5> QED
          BY <2>2, <2>8, <5>1, ListTypes
      <4> QED
        BY <4>2, <4>3
    <3>2. ASSUME NEW x \in ToSet(s), x # r PROVE x \in ToSet(c)
      <4>1. PICK i \in 1 .. Len(s) : s[i] = x
        BY <3>2, ListTypes
      <4>2. i # p
        BY <2>2, <3>2, <4>1
      <4>3. CASE i < p
        <5>1. i \in 1 .. Len(s) - 1 /\ c[i] = x
          BY <2>2, <2>7, <4>1, <4>3
        <5> QED
          BY <2>6, <5>1, ListTypes
      <4>4. CASE i > p
        <5>1. i - 1 \in 1 .. Len(s) - 1 /\ ~(i - 1 < p) /\ (i - 1) + 1 = i
          BY <2>2, <4>1, <4>4
        <5>2. c[i - 1] = x
          BY <2>7, <4>1, <5>1
        <5> QED
          BY <2>6, <5>1, <5>2, ListTypes
      <4> QED
        BY <2>2, <4>2, <4>3, <4>4
    <3> QED
      BY <3>1, <3>2
  <2> QED
    BY <2>6, <2>9, <2>10 DEF ListOf, c
<1> QED
  BY <1>1, <1>2

------------------------------------------------------------------------------
(* The table of records.  Each list holds its records once: only then does   *)
(* the removal of the first record of a track leave none of it behind.       *)

Records == Sessions \X Tracks
Listing(db) == db \in [Sockets -> Seq(Records)] /\ \A k \in Sockets : IsInjective(db[k])

(* The table e lists r under k only if P, and the other records as db does.  *)
Differs(e, db, k, r, listed) ==
  /\ Listing(e)
  /\ \A j \in Sockets, x \in Records :
       x \in ToSet(e[j]) <=> IF x = r /\ j = k THEN listed ELSE x \in ToSet(db[j])

LEMMA UnnotedDiffers ==
  ASSUME NEW db, Listing(db), NEW k \in Sockets \cup {None}, NEW c \in Sessions, NEW t \in Tracks
  PROVE  Differs(Unnoted(db, k, c, t), db, k, <<c, t>>, FALSE)
<1> DEFINE r == <<c, t>>
           e == Unnoted(db, k, c, t)
<1>1. db \in [Sockets -> Seq(Records)] /\ \A j \in Sockets : IsInjective(db[j])
  BY DEF Listing
<1>2. CASE k = None
  <2>1. e = db /\ \A j \in Sockets : j # k
    BY <1>2, ConstantsAssumption DEF Unnoted
  <2> HIDE DEF e
  <2> QED
    BY <2>1 DEF Differs, e
<1>3. CASE k # None
  <2> DEFINE new == RemoveFirst(db[k], r)
  <2>1. k \in Sockets /\ e = [db EXCEPT ![k] = new]
    BY <1>3 DEF Unnoted, NewRecord
  <2>2. ListOf(new, Records, ToSet(db[k]) \ {r})
    <3>1. db[k] \in Seq(Records) /\ IsInjective(db[k])
      BY <1>1, <2>1
    <3> HIDE DEF r
    <3> QED
      BY <3>1, FirstRemoved
  <2> HIDE DEF new, r, e
  <2>3. e[k] = new /\ \A j \in Sockets : j # k => e[j] = db[j]
    BY <1>1, <2>1
  <2>4. e \in [Sockets -> Seq(Records)] /\ \A j \in Sockets : IsInjective(e[j])
    BY <1>1, <2>1, <2>2, <2>3 DEF ListOf
  <2>5. ASSUME NEW j \in Sockets, NEW x \in Records
        PROVE  x \in ToSet(e[j]) <=> IF x = r /\ j = k THEN FALSE ELSE x \in ToSet(db[j])
    <3>1. CASE j = k
      <4>1. ToSet(e[j]) = ToSet(db[j]) \ {r}
        BY <2>2, <2>3, <3>1 DEF ListOf
      <4> QED
        BY <3>1, <4>1
    <3>2. CASE j # k
      BY <2>3, <3>2
    <3> QED
      BY <3>1, <3>2
  <2> QED
    BY <2>4, <2>5 DEF Differs, Listing, e, r
<1> QED
  BY <1>2, <1>3

LEMMA NotedDiffers ==
  ASSUME NEW db, Listing(db), NEW k \in Sockets, NEW c \in Sessions, NEW t \in Tracks,
         <<c, t>> \notin ToSet(db[k])
  PROVE  Differs(Noted(db, k, c, t), db, k, <<c, t>>, TRUE)
<1> DEFINE r == <<c, t>>
           e == Noted(db, k, c, t)
           new == <<r>> \o db[k]
<1>1. db \in [Sockets -> Seq(Records)] /\ \A j \in Sockets : IsInjective(db[j])
  BY DEF Listing
<1>2. e = [db EXCEPT ![k] = new]
  BY DEF Noted, NewRecord
<1>3. r \in Records
  BY DEF Records
<1>4. ListOf(new, Records, ToSet(db[k]) \cup {r})
  <2>1. db[k] \in Seq(Records) /\ IsInjective(db[k]) /\ r \notin ToSet(db[k])
    BY <1>1
  <2> HIDE DEF r
  <2> QED
    BY <1>3, <2>1, InFront
<1> HIDE DEF new, r, e
<1>5. e[k] = new /\ \A j \in Sockets : j # k => e[j] = db[j]
  BY <1>1, <1>2
<1>6. e \in [Sockets -> Seq(Records)] /\ \A j \in Sockets : IsInjective(e[j])
  BY <1>1, <1>2, <1>4, <1>5 DEF ListOf
<1>7. ASSUME NEW j \in Sockets, NEW x \in Records
      PROVE  x \in ToSet(e[j]) <=> IF x = r /\ j = k THEN TRUE ELSE x \in ToSet(db[j])
  <2>1. CASE j = k
    <3>1. ToSet(e[j]) = ToSet(db[j]) \cup {r}
      BY <1>4, <1>5, <2>1 DEF ListOf
    <3> QED
      BY <2>1, <3>1
  <2>2. CASE j # k
    BY <1>5, <2>2
  <2> QED
    BY <2>1, <2>2
<1> QED
  BY <1>6, <1>7 DEF Differs, Listing, e, r

------------------------------------------------------------------------------
(* The end of a session.  The table is taken through the tracks by a          *)
(* recursive function, which exists because it does for the first tracks.    *)

UpTo(f, c, n) ==
  f = [m \in 0 .. n |-> IF m = 0 THEN tcp_streaming_database
                        ELSE Unnoted(f[m - 1], tcp_socket_num[c][m - 1], c, m - 1)]

LEMMA UpToSteps ==
  ASSUME NEW n \in Nat, NEW c, NEW f, UpTo(f, c, n)
  PROVE  /\ f[0] = tcp_streaming_database
         /\ \A m \in 1 .. n : f[m] = Unnoted(f[m - 1], tcp_socket_num[c][m - 1], c, m - 1)
<1> DEFINE F(m) == IF m = 0 THEN tcp_streaming_database
                   ELSE Unnoted(f[m - 1], tcp_socket_num[c][m - 1], c, m - 1)
<1>1. ASSUME NEW m \in 0 .. n PROVE f[m] = F(m)
  <2> DEFINE g == [j \in 0 .. n |-> F(j)]
  <2>1. f = g
    BY DEF UpTo
  <2>2. g[m] = F(m)
    OBVIOUS
  <2> HIDE DEF g, F
  <2> QED
    BY <2>1, <2>2
<1>2. 0 \in 0 .. n /\ \A m \in 1 .. n : m \in 0 .. n /\ m # 0
  OBVIOUS
<1> QED
  BY <1>1, <1>2

LEMMA UpToExists ==
  ASSUME NEW n \in Nat, NEW c
  PROVE  \E f : UpTo(f, c, n)
<1> DEFINE S == {m \in Nat : \E f : UpTo(f, c, m)}
<1>1. 0 \in S
  <2> DEFINE f == [m \in 0 .. 0 |-> tcp_streaming_database]
             F(m) == IF m = 0 THEN tcp_streaming_database
                     ELSE Unnoted(f[m - 1], tcp_socket_num[c][m - 1], c, m - 1)
  <2>1. \A m \in 0 .. 0 : m = 0
    OBVIOUS
  <2>2. \A m \in 0 .. 0 : F(m) = tcp_streaming_database
    BY <2>1
  <2>3. f = [m \in 0 .. 0 |-> F(m)]
    <3> HIDE DEF F
    <3> QED
      BY <2>2
  <2>4. UpTo(f, c, 0)
    BY <2>3 DEF UpTo
  <2> HIDE DEF f
  <2> QED
    BY <2>4
<1>2. ASSUME NEW i \in 1 .. n, i - 1 \in S PROVE i \in S
  <2>1. PICK f : UpTo(f, c, i - 1)
    BY <1>2
  <2> DEFINE last == Unnoted(f[i - 1], tcp_socket_num[c][i - 1], c, i - 1)
             g == [m \in 0 .. i |-> IF m = i THEN last ELSE f[m]]
             G(m) == IF m = 0 THEN tcp_streaming_database
                     ELSE Unnoted(g[m - 1], tcp_socket_num[c][m - 1], c, m - 1)
  <2>2. g[i] = last /\ (\A m \in 0 .. i - 1 : g[m] = f[m]) /\ g = [m \in 0 .. i |-> g[m]]
    OBVIOUS
  <2>3. f[0] = tcp_streaming_database
        /\ \A m \in 1 .. i - 1 : f[m] = Unnoted(f[m - 1], tcp_socket_num[c][m - 1], c, m - 1)
    <3>1. i - 1 \in Nat
      OBVIOUS
    <3> QED
      BY <2>1, <3>1, UpToSteps
  <2> HIDE DEF g
  <2>4. ASSUME NEW m \in 0 .. i PROVE g[m] = G(m)
    <3>1. CASE m = 0
      BY <2>2, <2>3, <3>1
    <3>2. CASE m \in 1 .. i - 1
      <4>1. m \in 0 .. i - 1 /\ m - 1 \in 0 .. i - 1 /\ m # 0
        BY <3>2
      <4>2. g[m] = f[m] /\ g[m - 1] = f[m - 1]
        BY <2>2, <4>1
      <4> QED
        BY <2>3, <3>2, <4>1, <4>2
    <3>3. CASE m = i
      <4>1. i - 1 \in 0 .. i - 1 /\ m # 0
        BY <3>3
      <4>2. g[i - 1] = f[i - 1]
        BY <2>2, <4>1
      <4> QED
        BY <2>2, <3>3, <4>1, <4>2
    <3> QED
      BY <3>1, <3>2, <3>3
  <2>5. g = [m \in 0 .. i |-> G(m)]
    <3> HIDE DEF G
    <3> QED
      BY <2>2, <2>4
  <2>6. UpTo(g, c, i)
    BY <2>5 DEF UpTo
  <2> QED
    BY <2>6
<1>3. 0 .. n \subseteq S
  <2> HIDE DEF S
  <2> QED
    BY <1>1, <1>2, CountingUp
<1> QED
  BY <1>3

(* The table e lists what db does but for the first n tracks of c. *)
Without(e, db, c, n) ==
  /\ Listing(e)
  /\ \A k \in Sockets, d \in Sessions, t \in Tracks :
       <<d, t>> \in ToSet(e[k]) <=>
         <<d, t>> \in ToSet(db[k]) /\ ~(d = c /\ t < n /\ tcp_socket_num[c][t] = k)

LEMMA ReclaimedLists ==
  ASSUME NEW c \in Sessions, Listing(tcp_streaming_database),
         tcp_socket_num[c] \in [Tracks -> Sockets \cup {None}]
  PROVE  Without(Reclaimed(c), tcp_streaming_database, c, NumTracks)
<1> DEFINE db == tcp_streaming_database
           n == NumTracks
           upto == CHOOSE f : UpTo(f, c, n)
           S == {m \in 0 .. n : Without(upto[m], db, c, m)}
<1>1. n \in Nat
  BY ConstantsAssumption
<1>2. UpTo(upto, c, n)
  <2>1. \E f : UpTo(f, c, n)
    BY <1>1, UpToExists
  <2> QED
    BY <2>1
<1>3. Reclaimed(c) = upto[n]
  BY DEF Reclaimed, UpTo
<1> HIDE DEF upto, n
<1>4. upto[0] = db
      /\ \A m \in 1 .. n : upto[m] = Unnoted(upto[m - 1], tcp_socket_num[c][m - 1], c, m - 1)
  BY <1>1, <1>2, UpToSteps
<1> HIDE DEF db
<1>5. 0 \in S
  <2>1. \A t \in Tracks : ~(t < 0)
    BY ConstantsAssumption DEF Tracks
  <2>2. Without(db, db, c, 0)
    BY <2>1 DEF Without, db
  <2> QED
    BY <1>1, <1>4, <2>2
<1>6. ASSUME NEW m \in 1 .. n, m - 1 \in S PROVE m \in S
  <2> DEFINE u == m - 1
             k == tcp_socket_num[c][u]
             e == upto[u]
             f == upto[m]
  <2>1. u \in Tracks /\ f = Unnoted(e, k, c, u) /\ k \in Sockets \cup {None} /\ m = u + 1
    BY <1>1, <1>4, ConstantsAssumption DEF Tracks, n
  <2>2. Without(e, db, c, u)
    BY <1>6
  <2> HIDE DEF e, f, k, u
  <2>3. Differs(f, e, k, <<c, u>>, FALSE)
    BY <2>1, <2>2, UnnotedDiffers DEF Without
  <2>4. ASSUME NEW j \in Sockets, NEW d \in Sessions, NEW t \in Tracks
        PROVE  <<d, t>> \in ToSet(f[j]) <=>
                 <<d, t>> \in ToSet(db[j]) /\ ~(d = c /\ t < m /\ tcp_socket_num[c][t] = j)
    <3>1. <<d, t>> \in ToSet(f[j]) <=>
            IF <<d, t>> = <<c, u>> /\ j = k THEN FALSE ELSE <<d, t>> \in ToSet(e[j])
      BY <2>3 DEF Differs, Records
    <3>2. <<d, t>> \in ToSet(e[j]) <=>
            <<d, t>> \in ToSet(db[j]) /\ ~(d = c /\ t < u /\ tcp_socket_num[c][t] = j)
      BY <2>2 DEF Without
    <3>3. t < m <=> t < u \/ t = u
      BY <2>1, ConstantsAssumption DEF Tracks
    <3>4. <<d, t>> = <<c, u>> /\ j = k <=> d = c /\ t = u /\ tcp_socket_num[c][t] = j
      BY DEF k
    <3> QED
      BY <3>1, <3>2, <3>3, <3>4
  <2>5. Without(f, db, c, m)
    BY <2>3, <2>4 DEF Without, Differs
  <2> QED
    BY <2>5 DEF f
<1>7. 0 .. n \subseteq S
  <2> HIDE DEF S
  <2> QED
    BY <1>1, <1>5, <1>6, CountingUp
<1>8. n \in 0 .. n
  BY <1>1
<1>9. Without(upto[n], db, c, n)
  BY <1>7, <1>8
<1> QED
  BY <1>3, <1>9 DEF db, n

------------------------------------------------------------------------------
(* The table and the states agree. *)

Listed(k, c, t) == <<c, t>> \in ToSet(tcp_streaming_database[k])
Streamed(k, c, t) == stream_token[c][t] = "TCP" /\ tcp_socket_num[c][t] = k
Agree == \A k \in Sockets, c \in Sessions, t \in Tracks : Listed(k, c, t) <=> Streamed(k, c, t)

RecordsInv == TypeOK /\ Listing(tcp_streaming_database) /\ Agree

LEMMA InitRecords == Init => RecordsInv
<1> SUFFICES ASSUME Init PROVE RecordsInv
  OBVIOUS
<1>1. tcp_streaming_database \in [Sockets -> Seq(Records)]
      /\ \A k \in Sockets : tcp_streaming_database[k] = << >>
  BY DEF Init
<1>2. Listing(tcp_streaming_database)
  BY <1>1 DEF Listing, IsInjective
<1>3. Agree
  <2> SUFFICES ASSUME NEW k \in Sockets, NEW c \in Sessions, NEW t \in Tracks
               PROVE  ~Listed(k, c, t) /\ ~Streamed(k, c, t)
    BY DEF Agree
  <2>1. ~Listed(k, c, t)
    BY <1>1 DEF Listed, ToSet
  <2>2. stream_token[c][t] = None
    BY DEF Init
  <2> QED
    BY <2>1, <2>2, ConstantsAssumption DEF Streamed
<1>4. TypeOK
  <2>1. 0 \in 0 .. ChannelIds - 1
    BY ConstantsAssumption
  <2> QED
    BY <1>1, <2>1 DEF Init, TypeOK, Records
<1> QED
  BY <1>2, <1>3, <1>4 DEF RecordsInv

(* A record that is unnoted where the state of its track says is nowhere.    *)
LEMMA RestartedUnlists ==
  ASSUME RecordsInv, NEW c \in Sessions, NEW t \in Tracks
  PROVE  /\ Listing(Restarted(c, t))
         /\ \A j \in Sockets, x \in Records :
              x \in ToSet(Restarted(c, t)[j]) <=> x # <<c, t>> /\ x \in ToSet(tcp_streaming_database[j])
<1> DEFINE db == tcp_streaming_database
           k == tcp_socket_num[c][t]
           r == <<c, t>>
           e == Restarted(c, t)
<1>1. Listing(db) /\ k \in Sockets \cup {None} /\ r \in Records
  BY DEF RecordsInv, TypeOK, Records
<1>2. \A j \in Sockets : r \in ToSet(db[j]) <=> stream_token[c][t] = "TCP" /\ k = j
  BY DEF RecordsInv, Agree, Listed, Streamed
<1>3. CASE stream_token[c][t] = None
  <2>1. e = db
    BY <1>3 DEF Restarted
  <2>2. \A j \in Sockets : r \notin ToSet(db[j])
    BY <1>2, <1>3, ConstantsAssumption
  <2> HIDE DEF r, e, db
  <2> QED
    BY <1>1, <2>1, <2>2 DEF e, db, r
<1>4. CASE stream_token[c][t] # None
  <2>1. e = Unnoted(db, k, c, t)
    BY <1>4 DEF Restarted
  <2>2. Differs(e, db, k, r, FALSE)
    <3> HIDE DEF db, k, e
    <3> QED
      BY <1>1, <2>1, UnnotedDiffers DEF r
  <2> HIDE DEF r, e, db, k
  <2>3. \A j \in Sockets, x \in Records :
          x \in ToSet(e[j]) <=> x # r /\ x \in ToSet(db[j])
    BY <1>2, <2>2 DEF Differs
  <2> QED
    BY <2>2, <2>3 DEF Differs, e, r, db
<1> QED
  BY <1>3, <1>4

(* What a SETUP does but for the table. *)
StatesSet(c, t, transport, k0) ==
  /\ stream_token'[c][t] = transport /\ tcp_socket_num'[c][t] = k0
  /\ \A d \in Sessions, u \in Tracks : <<d, u>> # <<c, t>> =>
       stream_token'[d][u] = stream_token[d][u] /\ tcp_socket_num'[d][u] = tcp_socket_num[d][u]

LEMMA SetupTypes ==
  ASSUME TypeOK, NEW c \in Sessions, NEW t \in Tracks, NEW k \in Sockets,
         NEW transport \in Transports, SetupOver(c, t, k, transport),
         NEW k0 \in Sockets \cup {None},
         tcp_socket_num' = [tcp_socket_num EXCEPT ![c][t] = k0],
         NEW count \in 0 .. ChannelIds - 1,
         tcp_stream_id_count' = [tcp_stream_id_count EXCEPT ![c] = count],
         NEW ch \in (0 .. ChannelIds - 1) \cup {None},
         channel' = [channel EXCEPT ![c][t] = ch],
         Listing(tcp_streaming_database)'
  PROVE  TypeOK' /\ StatesSet(c, t, transport, k0)
<1>1. tcp_socket_num' \in [Sessions -> [Tracks -> Sockets \cup {None}]]
  BY DEF TypeOK
<1>2. stream_token' \in [Sessions -> [Tracks -> Transports \cup {None}]]
  BY DEF TypeOK, SetupOver
<1>3. channel' \in [Sessions -> [Tracks -> (0 .. ChannelIds - 1) \cup {None}]]
  BY DEF TypeOK
<1>4. tcp_stream_id_count' \in [Sessions -> 0 .. ChannelIds - 1]
  BY DEF TypeOK
<1>5. /\ setups' \in [Sessions -> Nat] /\ connections' \subseteq Sockets
      /\ client_sessions' \subseteq Sessions /\ alive' \subseteq client_sessions'
  BY DEF TypeOK, SetupOver
<1>6. \A d \in Sessions : d \notin client_sessions' => setups'[d] = 0
  BY DEF TypeOK, SetupOver
<1>7. tcp_streaming_database' \in [Sockets -> Seq(Sessions \X Tracks)]
  BY DEF Listing, Records
<1>8. TypeOK'
  BY <1>1, <1>2, <1>3, <1>4, <1>5, <1>6, <1>7 DEF TypeOK
<1>9. stream_token'[c][t] = transport /\ tcp_socket_num'[c][t] = k0
  BY DEF TypeOK, SetupOver
<1>10. ASSUME NEW d \in Sessions, NEW u \in Tracks, <<d, u>> # <<c, t>>
       PROVE  stream_token'[d][u] = stream_token[d][u] /\ tcp_socket_num'[d][u] = tcp_socket_num[d][u]
  <2>1. d # c \/ u # t
    BY <1>10
  <2> QED
    BY <2>1 DEF TypeOK, SetupOver
<1> QED
  BY <1>8, <1>9, <1>10 DEF StatesSet

LEMMA SetupUdpRecords ==
  ASSUME RecordsInv, NEW c \in Sessions, NEW t \in Tracks, NEW k \in Sockets, SetupUdp(c, t, k)
  PROVE  RecordsInv'
<1> DEFINE db == tcp_streaming_database
           k0 == tcp_socket_num[c][t]
           count == tcp_stream_id_count[c]
<1>1. TypeOK /\ Agree
  BY DEF RecordsInv
<1>2. tcp_streaming_database' = Restarted(c, t)
  BY DEF SetupUdp
<1>3. Listing(tcp_streaming_database)'
  BY <1>2, RestartedUnlists
<1>4. k0 \in Sockets \cup {None} /\ tcp_socket_num' = [tcp_socket_num EXCEPT ![c][t] = k0]
  BY <1>1 DEF TypeOK, SetupUdp
<1>5. count \in 0 .. ChannelIds - 1 /\ tcp_stream_id_count' = [tcp_stream_id_count EXCEPT ![c] = count]
  BY <1>1 DEF TypeOK, SetupUdp
<1>6. channel' = [channel EXCEPT ![c][t] = None] /\ SetupOver(c, t, k, "UDP") /\ "UDP" \in Transports
  BY DEF SetupUdp, Transports
<1> HIDE DEF k0, count
<1>7. TypeOK' /\ StatesSet(c, t, "UDP", k0)
  BY <1>1, <1>3, <1>4, <1>5, <1>6, SetupTypes
<1>8. ASSUME NEW j \in Sockets, NEW d \in Sessions, NEW u \in Tracks
      PROVE  Listed(j, d, u)' <=> Streamed(j, d, u)'
  <2>1. <<d, u>> \in ToSet(tcp_streaming_database'[j]) <=>
          <<d, u>> # <<c, t>> /\ <<d, u>> \in ToSet(tcp_streaming_database[j])
    BY <1>2, RestartedUnlists DEF Records
  <2>2. CASE <<d, u>> = <<c, t>>
    <3>1. d = c /\ u = t
      BY <2>2
    <3> QED
      BY <1>7, <2>1, <3>1 DEF Listed, Streamed, StatesSet
  <2>3. CASE <<d, u>> # <<c, t>>
    BY <1>1, <1>7, <2>1, <2>3 DEF Agree, Listed, Streamed, StatesSet
  <2> QED
    BY <2>2, <2>3
<1> QED
  BY <1>3, <1>7, <1>8 DEF RecordsInv, Agree

LEMMA SetupTcpRecords ==
  ASSUME RecordsInv, NEW c \in Sessions, NEW t \in Tracks, NEW k \in Sockets, NEW named \in BOOLEAN,
         SetupTcp(c, t, k, named)
  PROVE  RecordsInv'
<1> DEFINE e == Restarted(c, t)
           count == NextStreamId(tcp_stream_id_count[c])
           ch == IF named THEN None ELSE tcp_stream_id_count[c]
<1>1. TypeOK /\ Agree
  BY DEF RecordsInv
<1>2. tcp_streaming_database' = Noted(e, k, c, t)
  BY DEF SetupTcp
<1>3. Listing(e) /\ <<c, t>> \notin ToSet(e[k])
  <2>1. <<c, t>> \in Records
    BY DEF Records
  <2> QED
    BY <2>1, RestartedUnlists
<1>4. Differs(tcp_streaming_database', e, k, <<c, t>>, TRUE)
  <2> HIDE DEF e
  <2> QED
    BY <1>2, <1>3, NotedDiffers
<1>5. Listing(tcp_streaming_database)'
  BY <1>4 DEF Differs
<1>6. tcp_socket_num' = [tcp_socket_num EXCEPT ![c][t] = k] /\ k \in Sockets \cup {None}
  BY DEF SetupTcp
<1>7. count \in 0 .. ChannelIds - 1 /\ tcp_stream_id_count' = [tcp_stream_id_count EXCEPT ![c] = count]
  <2>1. tcp_stream_id_count[c] \in 0 .. ChannelIds - 1 /\ ChannelIds \in Nat \ {0}
    BY <1>1, ConstantsAssumption DEF TypeOK
  <2>2. (tcp_stream_id_count[c] + 2) % ChannelIds \in 0 .. ChannelIds - 1
    BY <2>1
  <2> QED
    BY <2>2 DEF SetupTcp, NextStreamId
<1>8. channel' = [channel EXCEPT ![c][t] = ch] /\ ch \in (0 .. ChannelIds - 1) \cup {None}
  BY <1>1 DEF SetupTcp, TypeOK
<1>9. SetupOver(c, t, k, "TCP") /\ "TCP" \in Transports
  BY DEF SetupTcp, Transports
<1> HIDE DEF count, ch
<1>10. TypeOK' /\ StatesSet(c, t, "TCP", k)
  BY <1>1, <1>5, <1>6, <1>7, <1>8, <1>9, SetupTypes
<1>11. ASSUME NEW j \in Sockets, NEW d \in Sessions, NEW u \in Tracks
       PROVE  Listed(j, d, u)' <=> Streamed(j, d, u)'
  <2>1. <<d, u>> \in ToSet(tcp_streaming_database'[j]) <=>
          IF <<d, u>> = <<c, t>> /\ j = k THEN TRUE ELSE <<d, u>> \in ToSet(e[j])
    <3> HIDE DEF e
    <3> QED
      BY <1>4 DEF Differs, Records
  <2>2. <<d, u>> \in ToSet(e[j]) <=>
          <<d, u>> # <<c, t>> /\ <<d, u>> \in ToSet(tcp_streaming_database[j])
    BY RestartedUnlists DEF Records
  <2> HIDE DEF e
  <2>3. CASE <<d, u>> = <<c, t>>
    <3>1. d = c /\ u = t
      BY <2>3
    <3> QED
      BY <1>10, <2>1, <2>2, <3>1 DEF Listed, Streamed, StatesSet
  <2>4. CASE <<d, u>> # <<c, t>>
    BY <1>1, <1>10, <2>1, <2>2, <2>4 DEF Agree, Listed, Streamed, StatesSet
  <2> QED
    BY <2>3, <2>4
<1> QED
  BY <1>5, <1>10, <1>11 DEF RecordsInv, Agree

LEMMA SessionEndsRecords ==
  ASSUME RecordsInv, NEW c \in Sessions, SessionEnds(c)
  PROVE  RecordsInv'
<1>1. TypeOK /\ Agree /\ Listing(tcp_streaming_database)
  BY DEF RecordsInv
<1>2. tcp_streaming_database' = Reclaimed(c) /\ tcp_socket_num[c] \in [Tracks -> Sockets \cup {None}]
  BY <1>1 DEF SessionEnds, TypeOK
<1>3. Without(tcp_streaming_database', tcp_streaming_database, c, NumTracks)
  BY <1>1, <1>2, ReclaimedLists
<1>4. Listing(tcp_streaming_database)'
  BY <1>3 DEF Without
<1>5. \A t \in Tracks : t < NumTracks
  BY ConstantsAssumption DEF Tracks
<1>6. /\ tcp_socket_num' = [tcp_socket_num EXCEPT ![c] = [t \in Tracks |-> None]]
      /\ stream_token' = [stream_token EXCEPT ![c] = [t \in Tracks |-> None]]
  BY DEF SessionEnds
<1>7. ASSUME NEW j \in Sockets, NEW d \in Sessions, NEW t \in Tracks
      PROVE  Listed(j, d, t)' <=> Streamed(j, d, t)'
  <2>1. <<d, t>> \in ToSet(tcp_streaming_database'[j]) <=>
          <<d, t>> \in ToSet(tcp_streaming_database[j]) /\ ~(d = c /\ t < NumTracks /\ tcp_socket_num[c][t] = j)
    BY <1>3 DEF Without
  <2>2. CASE d = c
    <3>1. stream_token'[d][t] = None
      BY <1>1, <1>6, <2>2 DEF TypeOK
    <3>2. ~Streamed(j, d, t)'
      BY <3>1, ConstantsAssumption DEF Streamed
    <3>3. <<d, t>> \in ToSet(tcp_streaming_database[j]) => tcp_socket_num[c][t] = j
      BY <1>1, <2>2 DEF Agree, Listed, Streamed
    <3> QED
      BY <1>5, <2>1, <2>2, <3>2, <3>3 DEF Listed
  <2>3. CASE d # c
    <3>1. stream_token'[d][t] = stream_token[d][t] /\ tcp_socket_num'[d][t] = tcp_socket_num[d][t]
      BY <1>1, <1>6, <2>3 DEF TypeOK
    <3> QED
      BY <1>1, <2>1, <2>3, <3>1 DEF Agree, Listed, Streamed
  <2> QED
    BY <2>2, <2>3
<1>8. TypeOK'
  <2>1. 0 \in 0 .. ChannelIds - 1
    BY ConstantsAssumption
  <2>2. tcp_streaming_database' \in [Sockets -> Seq(Sessions \X Tracks)]
    BY <1>4 DEF Listing, Records
  <2>3. \A d \in Sessions : d \notin client_sessions' => setups'[d] = 0
    BY <1>1 DEF TypeOK, SessionEnds
  <2> QED
    BY <1>1, <2>1, <2>2, <2>3 DEF TypeOK, SessionEnds
<1> QED
  BY <1>4, <1>7, <1>8 DEF RecordsInv, Agree

LEMMA NextRecords == RecordsInv /\ [Next]_vars => RecordsInv'
<1> SUFFICES ASSUME RecordsInv, [Next]_vars PROVE RecordsInv'
  OBVIOUS
<1>1. ASSUME UNCHANGED <<client_sessions, tcp_streaming_database, state_vars, history_vars>>,
             connections' \subseteq Sockets, alive' \subseteq client_sessions
      PROVE  RecordsInv'
  <2>1. TypeOK'
    BY <1>1 DEF RecordsInv, TypeOK, state_vars, history_vars
  <2>2. Listing(tcp_streaming_database)' /\ Agree'
    BY <1>1 DEF RecordsInv, Agree, Listed, Streamed, state_vars
  <2> QED
    BY <2>1, <2>2 DEF RecordsInv
<1>2. connections \subseteq Sockets /\ alive \subseteq client_sessions
  BY DEF RecordsInv, TypeOK
<1>3. ASSUME NEW k \in Sockets, Connect(k) \/ CloseSockets(k) PROVE RecordsInv'
  BY <1>1, <1>2, <1>3 DEF Connect, CloseSockets
<1>4. CASE Setup
  BY <1>4, SetupUdpRecords, SetupTcpRecords DEF Setup
<1>5. ASSUME NEW c \in Sessions, SessionEnds(c) PROVE RecordsInv'
  BY <1>5, SessionEndsRecords
<1>6. CASE UNCHANGED vars
  BY <1>1, <1>2, <1>6 DEF vars, state_vars, history_vars
<1>7. ASSUME NEW c \in Sessions, NoteLiveness(c) \/ FallsSilent(c) PROVE RecordsInv'
  BY <1>1, <1>2, <1>7 DEF NoteLiveness, FallsSilent, LivenessChanges
<1> QED
  BY <1>3, <1>4, <1>5, <1>6, <1>7 DEF Next, LivenessTimeout

(* A list that holds its records once has one place or none for a record.    *)
LEMMA OnePlace ==
  ASSUME NEW R, NEW s \in Seq(R), IsInjective(s), NEW r
  PROVE  Occurrences(s, r) = IF r \in ToSet(s) THEN 1 ELSE 0
<1> DEFINE I == {i \in DOMAIN s : s[i] = r}
<1>1. CASE r \in ToSet(s)
  <2>1. PICK i \in 1 .. Len(s) : s[i] = r
    BY <1>1, ListTypes
  <2>2. I = {i}
    BY <2>1, ListTypes
  <2>3. Cardinality(I) = 1
    BY <2>2, FS_Singleton
  <2> QED
    BY <1>1, <2>3 DEF Occurrences
<1>2. CASE r \notin ToSet(s)
  <2>1. I = {}
    BY <1>2, ListTypes
  <2>2. Cardinality(I) = 0
    BY <2>1, FS_EmptySet
  <2> QED
    BY <1>2, <2>2 DEF Occurrences
<1> QED
  BY <1>1, <1>2

(* The table of the server lists a track under a socket once if the track was *)
(* last set up over TCP on it, and not at all otherwise, whatever SETUPs were *)
(* repeated and sockets closed (rtsp_server.c:575-648, 2616-2686, 3401-3423). *)
THEOREM RecordsAlwaysAgree == Spec => []RecordsAgree
<1>1. RecordsInv => RecordsAgree
  <2> SUFFICES ASSUME RecordsInv, NEW k \in Sockets, NEW c \in Sessions, NEW t \in Tracks
               PROVE  Occurrences(tcp_streaming_database[k], <<c, t>>) =
                        IF stream_token[c][t] = "TCP" /\ tcp_socket_num[c][t] = k THEN 1 ELSE 0
    BY DEF RecordsAgree, RecordsInv
  <2> DEFINE s == tcp_streaming_database[k]
             r == <<c, t>>
  <2>1. s \in Seq(Records) /\ IsInjective(s)
    BY DEF RecordsInv, Listing
  <2>2. r \in ToSet(s) <=> stream_token[c][t] = "TCP" /\ tcp_socket_num[c][t] = k
    BY DEF RecordsInv, Agree, Listed, Streamed
  <2> HIDE DEF s, r
  <2>3. Occurrences(s, r) = IF r \in ToSet(s) THEN 1 ELSE 0
    BY <2>1, OnePlace
  <2> QED
    BY <2>2, <2>3 DEF s, r
<1> QED
  BY <1>1, InitRecords, NextRecords, PTL DEF Spec
===============================================================================
