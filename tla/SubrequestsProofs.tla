------------------------------ MODULE SubrequestsProofs --------------------------
(***************************************************************************)
(* Proof that the response is put together in the order of the pages       *)
(* (InOrder), for every site, every number of requests and of breaks of    *)
(* the connection, and whatever order the subrequests are answered in.     *)
(*                                                                         *)
(* First the order of the places in a tree of pages.  Then the tree of     *)
(* requests (Ordered): what is still to come of the active request and of  *)
(* those it was made for comes after all that was sent, and the list of    *)
(* every request holds what it postponed in order.  Six steps keep that:   *)
(* Send, Defer, Drop, Enter, Leave and Grow.  Then each function of the    *)
(* model, from the bottom up, is one or several of these steps; between    *)
(* them a request may have read more of its page than it gave out (Good).  *)
(* Last, every action.                                                     *)
(***************************************************************************)
EXTENDS Subrequests, Lemmas

(* The place of a request, or of an item of its page, in the tree of       *)
(* pages.                                                                  *)
Path == Seq(Nat)

(* A path with one more number. *)
LEMMA Longer ==
  ASSUME NEW p \in Path, NEW n \in Nat
  PROVE  /\ Append(p, n) \in Path
         /\ Len(p) \in Nat
         /\ Len(Append(p, n)) = Len(p) + 1
         /\ \A i \in 1 .. Len(p) : Append(p, n)[i] = p[i]
         /\ Append(p, n)[Len(p) + 1] = n
BY AppendProperties DEF Path

(* The order of paths and what comes first of one, number by number. *)
LEMMA BeforeAt ==
  ASSUME NEW p \in Path, NEW q \in Path
  PROVE  Before(p, q) <=>
           \E k \in 1 .. Len(p) : /\ k <= Len(q)
                                  /\ p[k] < q[k]
                                  /\ \A i \in 1 .. k - 1 : p[i] = q[i]
<1>1. /\ Len(p) \in Nat /\ DOMAIN p = 1 .. Len(p) /\ \A i \in 1 .. Len(p) : p[i] \in Nat
      /\ Len(q) \in Nat /\ DOMAIN q = 1 .. Len(q) /\ \A i \in 1 .. Len(q) : q[i] \in Nat
  BY DEF Path
<1>2. ASSUME NEW k \in 1 .. Len(p), k <= Len(q)
      PROVE  SubSeq(p, 1, k - 1) = SubSeq(q, 1, k - 1) <=> \A i \in 1 .. k - 1 : p[i] = q[i]
  <2>1. PICK l \in Nat : l = k - 1
    BY <1>1
  <2>2. \A i \in 1 .. l : p[i] \in Nat /\ q[i] \in Nat
    BY <1>1, <1>2, <2>1
  <2>3. /\ SubSeq(p, 1, l) \in Seq(Nat) /\ Len(SubSeq(p, 1, l)) = l
        /\ \A i \in 1 .. l : SubSeq(p, 1, l)[i] = p[i]
    BY <2>1, <2>2, SubSeqProperties
  <2>4. /\ SubSeq(q, 1, l) \in Seq(Nat) /\ Len(SubSeq(q, 1, l)) = l
        /\ \A i \in 1 .. l : SubSeq(q, 1, l)[i] = q[i]
    BY <2>1, <2>2, SubSeqProperties
  <2>5. SubSeq(p, 1, l) = SubSeq(q, 1, l) <=> \A i \in 1 .. l : p[i] = q[i]
    BY <2>3, <2>4, SeqEqual
  <2> QED BY <2>1, <2>5
<1>3. DOMAIN p \cap DOMAIN q = {k \in 1 .. Len(p) : k <= Len(q)}
  BY <1>1
<1> QED BY <1>2, <1>3 DEF Before

(* A path begins another when it has its numbers, one by one, as far as it *)
(* goes.                                                                   *)
LEMMA PrefixAt ==
  ASSUME NEW p \in Path, NEW q \in Path
  PROVE  IsPrefix(p, q) <=> Len(p) <= Len(q) /\ \A i \in 1 .. Len(p) : p[i] = q[i]
<1>1. /\ Len(p) \in Nat /\ \A i \in 1 .. Len(p) : p[i] \in Nat
      /\ Len(q) \in Nat /\ \A i \in 1 .. Len(q) : q[i] \in Nat
  BY DEF Path
<1>2. ASSUME Len(p) <= Len(q)
      PROVE  SubSeq(p, 1, Len(p)) = SubSeq(q, 1, Len(p)) <=> \A i \in 1 .. Len(p) : p[i] = q[i]
  <2>1. PICK l \in Nat : l = Len(p)
    BY <1>1
  <2>2. \A i \in 1 .. l : p[i] \in Nat /\ q[i] \in Nat
    BY <1>1, <1>2, <2>1
  <2>3. /\ SubSeq(p, 1, l) \in Seq(Nat) /\ Len(SubSeq(p, 1, l)) = l
        /\ \A i \in 1 .. l : SubSeq(p, 1, l)[i] = p[i]
    BY <2>1, <2>2, SubSeqProperties
  <2>4. /\ SubSeq(q, 1, l) \in Seq(Nat) /\ Len(SubSeq(q, 1, l)) = l
        /\ \A i \in 1 .. l : SubSeq(q, 1, l)[i] = q[i]
    BY <2>1, <2>2, SubSeqProperties
  <2>5. SubSeq(p, 1, l) = SubSeq(q, 1, l) <=> \A i \in 1 .. l : p[i] = q[i]
    BY <2>3, <2>4, SeqEqual
  <2> QED BY <2>1, <2>5
<1> QED BY <1>2 DEF IsPrefix

(* Paths in order stay in order when they get longer. *)
LEMMA BeforeLonger ==
  ASSUME NEW p \in Path, NEW q \in Path, NEW n \in Nat, Before(p, q)
  PROVE  Before(Append(p, n), q) /\ Before(p, Append(q, n))
<1>1. PICK k \in 1 .. Len(p) : k <= Len(q) /\ p[k] < q[k] /\ \A i \in 1 .. k - 1 : p[i] = q[i]
  BY BeforeAt
<1>2. Len(p) \in Nat /\ Len(q) \in Nat
  BY DEF Path
<1>3. Before(Append(p, n), q)
  <2>1. PICK x : x = Append(p, n)
    OBVIOUS
  <2>2. x \in Path /\ Len(x) = Len(p) + 1 /\ \A i \in 1 .. Len(p) : x[i] = p[i]
    BY <2>1, Longer
  <2>3. k \in 1 .. Len(x) /\ k <= Len(q) /\ x[k] < q[k] /\ \A i \in 1 .. k - 1 : x[i] = q[i]
    BY <1>1, <1>2, <2>2
  <2>4. Before(x, q)
    BY <2>2, <2>3, BeforeAt
  <2> QED BY <2>1, <2>4
<1>4. Before(p, Append(q, n))
  <2>1. PICK x : x = Append(q, n)
    OBVIOUS
  <2>2. x \in Path /\ Len(x) = Len(q) + 1 /\ \A i \in 1 .. Len(q) : x[i] = q[i]
    BY <2>1, Longer
  <2>3. k <= Len(x) /\ p[k] < x[k] /\ \A i \in 1 .. k - 1 : p[i] = x[i]
    BY <1>1, <1>2, <2>2
  <2>4. Before(p, x)
    BY <2>2, <2>3, BeforeAt
  <2> QED BY <2>1, <2>4
<1> QED BY <1>3, <1>4

(* Paths that are not longer than what they have in common with another    *)
(* one are in order with it when the longer ones are.                      *)
LEMMA BeforeShorter ==
  ASSUME NEW p \in Path, NEW q \in Path, NEW n \in Nat, Before(Append(p, n), q),
         Len(q) <= Len(p)
  PROVE  Before(p, q)
<1>1. PICK x : x = Append(p, n)
  OBVIOUS
<1>2. x \in Path /\ Len(x) = Len(p) + 1 /\ \A i \in 1 .. Len(p) : x[i] = p[i]
  BY <1>1, Longer
<1>3. Len(p) \in Nat /\ Len(q) \in Nat
  BY DEF Path
<1>4. PICK k \in 1 .. Len(x) : k <= Len(q) /\ x[k] < q[k] /\ \A i \in 1 .. k - 1 : x[i] = q[i]
  BY <1>1, <1>2, BeforeAt
<1>5. k \in 1 .. Len(p) /\ k <= Len(q) /\ p[k] < q[k] /\ \A i \in 1 .. k - 1 : p[i] = q[i]
  BY <1>2, <1>3, <1>4
<1> QED BY <1>5, BeforeAt

(* The places of one page. *)
LEMMA BeforeSame ==
  ASSUME NEW p \in Path, NEW m \in Nat, NEW n \in Nat
  PROVE  Before(Append(p, m), Append(p, n)) <=> m < n
<1>1. PICK x, y : x = Append(p, m) /\ y = Append(p, n)
  OBVIOUS
<1>2. PICK l \in Nat : l = Len(p)
  BY DEF Path
<1>3. x \in Path /\ Len(x) = l + 1 /\ x[l + 1] = m /\ \A i \in 1 .. l : x[i] = p[i]
  BY <1>1, <1>2, Longer
<1>4. y \in Path /\ Len(y) = l + 1 /\ y[l + 1] = n /\ \A i \in 1 .. l : y[i] = p[i]
  BY <1>1, <1>2, Longer
<1>5. \A i \in 1 .. l : p[i] \in Nat
  BY <1>2 DEF Path
<1>6. ASSUME m < n PROVE Before(x, y)
  <2>1. l + 1 \in 1 .. Len(x) /\ l + 1 <= Len(y) /\ x[l + 1] < y[l + 1]
        /\ \A i \in 1 .. (l + 1) - 1 : x[i] = y[i]
    BY <1>2, <1>3, <1>4, <1>6
  <2> QED BY <1>3, <1>4, <2>1, BeforeAt
<1>7. ASSUME Before(x, y) PROVE m < n
  <2>1. PICK k \in 1 .. Len(x) : k <= Len(y) /\ x[k] < y[k]
    BY <1>3, <1>4, <1>7, BeforeAt
  <2>2. k \in 1 .. l => FALSE
    BY <1>3, <1>4, <1>5, <2>1
  <2>3. k = l + 1
    BY <1>2, <1>3, <2>1, <2>2
  <2> QED BY <1>3, <1>4, <2>1, <2>3
<1> QED BY <1>1, <1>6, <1>7

(* What comes after a path does not begin it. *)
LEMMA BeforeNoPrefix ==
  ASSUME NEW p \in Path, NEW q \in Path, Before(p, q)
  PROVE  ~IsPrefix(q, p)
<1>1. PICK k \in 1 .. Len(p) : k <= Len(q) /\ p[k] < q[k]
  BY BeforeAt
<1>2. Len(q) \in Nat /\ k \in 1 .. Len(q) /\ p[k] \in Nat /\ q[k] \in Nat
  BY <1>1 DEF Path
<1> QED BY <1>1, <1>2, PrefixAt

(* What begins a path and is as long as the path is the path itself. *)
LEMMA PrefixLen ==
  ASSUME NEW p \in Path, NEW q \in Path, IsPrefix(p, q)
  PROVE  Len(p) <= Len(q) /\ (p # q => Len(p) < Len(q))
<1>1. Len(p) \in Nat /\ Len(q) \in Nat
  BY DEF Path
<1>2. Len(p) <= Len(q) /\ \A i \in 1 .. Len(p) : p[i] = q[i]
  BY PrefixAt
<1>3. Len(p) = Len(q) => p = q
  BY <1>2, SeqEqual DEF Path
<1> QED BY <1>1, <1>2, <1>3

(* A path begins itself. *)
LEMMA PrefixSelf ==
  ASSUME NEW p \in Path
  PROVE  IsPrefix(p, p)
<1>1. Len(p) \in Nat
  BY DEF Path
<1> QED BY <1>1, PrefixAt

(* What begins a path with one more number. *)
LEMMA PrefixLonger ==
  ASSUME NEW p \in Path, NEW q \in Path, NEW n \in Nat
  PROVE  IsPrefix(p, Append(q, n)) <=> p = Append(q, n) \/ IsPrefix(p, q)
<1>1. PICK x : x = Append(q, n)
  OBVIOUS
<1>2. x \in Path /\ Len(x) = Len(q) + 1 /\ \A i \in 1 .. Len(q) : x[i] = q[i]
  BY <1>1, Longer
<1>3. Len(p) \in Nat /\ Len(q) \in Nat
  BY DEF Path
<1>4. ASSUME IsPrefix(p, q) PROVE IsPrefix(p, x)
  <2>1. Len(p) <= Len(q) /\ \A i \in 1 .. Len(p) : p[i] = q[i]
    BY <1>4, PrefixAt
  <2>2. Len(p) <= Len(x) /\ \A i \in 1 .. Len(p) : p[i] = x[i]
    BY <1>2, <1>3, <2>1
  <2> QED BY <1>2, <2>2, PrefixAt
<1>5. ASSUME IsPrefix(p, x), p # x PROVE IsPrefix(p, q)
  <2>1. Len(p) < Len(x) /\ \A i \in 1 .. Len(p) : p[i] = x[i]
    BY <1>2, <1>5, PrefixAt, PrefixLen
  <2>2. Len(p) <= Len(q) /\ \A i \in 1 .. Len(p) : p[i] = q[i]
    BY <1>2, <1>3, <2>1
  <2> QED BY <2>2, PrefixAt
<1>6. IsPrefix(x, x)
  BY <1>2, PrefixSelf
<1> QED BY <1>1, <1>4, <1>5, <1>6

(* A path that begins with one more number than p begins with p, and that  *)
(* number is the only one.                                                 *)
LEMMA PrefixShorter ==
  ASSUME NEW p \in Path, NEW q \in Path, NEW n \in Nat, IsPrefix(Append(p, n), q)
  PROVE  /\ IsPrefix(p, q)
         /\ Len(p) < Len(q)
         /\ \A m \in Nat : IsPrefix(Append(p, m), q) => m = n
<1>1. Len(p) \in Nat /\ Len(q) \in Nat
  BY DEF Path
<1>2. ASSUME NEW m \in Nat, IsPrefix(Append(p, m), q)
      PROVE  /\ Len(p) + 1 <= Len(q) /\ q[Len(p) + 1] = m
             /\ \A i \in 1 .. Len(p) : p[i] = q[i]
  <2>1. PICK x : x = Append(p, m)
    OBVIOUS
  <2>2. x \in Path /\ Len(x) = Len(p) + 1 /\ (\A i \in 1 .. Len(p) : x[i] = p[i]) /\ x[Len(p) + 1] = m
    BY <2>1, Longer
  <2>3. Len(x) <= Len(q) /\ \A i \in 1 .. Len(x) : x[i] = q[i]
    BY <1>2, <2>1, <2>2, PrefixAt
  <2>4. Len(p) + 1 \in 1 .. Len(x) /\ \A i \in 1 .. Len(p) : i \in 1 .. Len(x)
    BY <1>1, <2>2
  <2> QED BY <2>2, <2>3, <2>4
<1>3. Len(p) < Len(q) /\ \A i \in 1 .. Len(p) : p[i] = q[i]
  BY <1>1, <1>2
<1>4. IsPrefix(p, q)
  BY <1>1, <1>3, PrefixAt
<1> QED BY <1>2, <1>3, <1>4

(* Two paths with one more number are the same when both parts are. *)
LEMMA SamePlace ==
  \A p, q \in Path, m, n \in Nat : Append(p, m) = Append(q, n) => p = q /\ m = n
<1> SUFFICES ASSUME NEW p \in Path, NEW q \in Path, NEW m \in Nat, NEW n \in Nat,
                    Append(p, m) = Append(q, n)
             PROVE  p = q /\ m = n
  OBVIOUS
<1>1. PICK x : x = Append(p, m)
  OBVIOUS
<1>2. Len(x) = Len(p) + 1 /\ (\A i \in 1 .. Len(p) : x[i] = p[i]) /\ x[Len(p) + 1] = m
  BY <1>1, Longer
<1>3. Len(x) = Len(q) + 1 /\ (\A i \in 1 .. Len(q) : x[i] = q[i]) /\ x[Len(q) + 1] = n
  BY <1>1, Longer
<1>4. Len(p) \in Nat /\ Len(q) \in Nat
  BY DEF Path
<1>5. Len(p) = Len(q) /\ \A i \in 1 .. Len(p) : p[i] = q[i]
  BY <1>2, <1>3, <1>4
<1>6. p = q
  BY <1>5, SeqEqual DEF Path
<1> QED BY <1>2, <1>3, <1>5, <1>6

-----------------------------------------------------------------------------
(* The requests as the order of the response sees them: the place of each  *)
(* in the tree, what its list holds, and how many places of its page were  *)
(* given out, to its list or to the response.                              *)
Entry == [request : Nat, out : Seq(Path)]
Node == [parent : Nat, path : Path, list : Seq(Entry), given : Nat]

(* The n-th place of the page of q, and what stands for it in a list. *)
Place(T, q, n) == Append(T[q].path, n)

Has(T, q, e, n) ==
  IF e.request = NoReq THEN \E j \in DOMAIN e.out : e.out[j] = Place(T, q, n)
  ELSE T[e.request].path = Place(T, q, n)

Listed(T, q, n) == \E k \in DOMAIN T[q].list : Has(T, q, T[q].list[k], n)

(* The active request a and those it was made for, and the place of theirs *)
(* they wait at.                                                           *)
OnPath(T, a, q) == IsPrefix(T[q].path, T[a].path)
Entered(T, a, q, n) == IsPrefix(Place(T, q, n), T[a].path)

(* The places of q whose output is still to come. *)
Ahead(T, a, q, n) == n > T[q].given \/ (Listed(T, q, n) /\ ~Entered(T, a, q, n))

Sorted(s) == \A i, j \in DOMAIN s : i < j => Before(s[i], s[j])

(* Output of the places lo + 1 .. hi of q. *)
Pieces(T, q, lo, hi, out) ==
  /\ \A j \in DOMAIN out : \E n \in lo + 1 .. hi : out[j] = Place(T, q, n)
  /\ Sorted(out)

(* Each request has a place of its own, which was given out by its parent. *)
Rooted(T) ==
  /\ Main \in DOMAIN T
  /\ T[Main].path = <<>>
  /\ \A q \in DOMAIN T \ {Main} :
       /\ T[q].parent \in DOMAIN T
       /\ \E n \in 1 .. T[T[q].parent].given : T[q].path = Place(T, T[q].parent, n)
  /\ \A p, q \in DOMAIN T : T[p].path = T[q].path => p = q

(* A list holds subrequests of its request and output of it, in order,     *)
(* output that comes together being put together.                          *)
EntryOK(T, q, e) ==
  IF e.request = NoReq THEN Pieces(T, q, 0, T[q].given, e.out)
  ELSE e.request \in DOMAIN T \ {Main} /\ T[e.request].parent = q

ListOK(T, q) ==
  LET list == T[q].list
  IN  /\ \A k \in DOMAIN list : EntryOK(T, q, list[k])
      /\ \A k, l \in DOMAIN list : k < l =>
           \A m, n \in Nat : Has(T, q, list[k], m) /\ Has(T, q, list[l], n) => m < n
      /\ \A k, l \in DOMAIN list : l = k + 1 =>
           list[k].request # NoReq \/ list[l].request # NoReq

(* What is still to come of the active request and of those it was made    *)
(* for comes after what was sent, and after the active request.            *)
Clear(T, a, st) ==
  \A q \in DOMAIN T, n \in Nat :
    OnPath(T, a, q) /\ Ahead(T, a, q, n) =>
      /\ \A i \in DOMAIN st : Before(st[i], Place(T, q, n))
      /\ q # a => Before(T[a].path, Place(T, q, n))

(* A subrequest that is entered is the first of the list, or not in it. *)
FirstOK(T, a, q) ==
  \A n \in Nat : Entered(T, a, q, n) =>
    \A k \in DOMAIN T[q].list : Has(T, q, T[q].list[k], n) =>
      k = 1 /\ T[q].list[k].request # NoReq

Ordered(T, a, st) ==
  /\ a \in DOMAIN T
  /\ Rooted(T)
  /\ \A q \in DOMAIN T : ListOK(T, q) /\ FirstOK(T, a, q)
  /\ Clear(T, a, st)
  /\ Sorted(st)

(* Nodes at the same places of the tree have the same places. *)
LEMMA SameShape ==
  ASSUME NEW N, NEW M, N \subseteq M, NEW V \in [N -> Node], NEW W \in [M -> Node],
         \A q \in N : W[q].path = V[q].path
  PROVE  /\ \A q \in N, n \in Nat : Place(W, q, n) = Place(V, q, n) /\ Place(V, q, n) \in Path
         /\ \A q \in N, a \in N : OnPath(W, a, q) <=> OnPath(V, a, q)
         /\ \A q \in N, a \in N, n \in Nat : Entered(W, a, q, n) <=> Entered(V, a, q, n)
         /\ \A q \in N, n \in Nat, e \in Entry :
              e.request \in N \cup {NoReq} => (Has(W, q, e, n) <=> Has(V, q, e, n))
<1>1. ASSUME NEW q \in N, NEW n \in Nat
      PROVE  Place(W, q, n) = Place(V, q, n) /\ Place(V, q, n) \in Path
  <2>1. V[q].path \in Path
    BY DEF Node
  <2> QED BY <2>1, Longer DEF Place
<1>2. ASSUME NEW q \in N, NEW a \in N PROVE OnPath(W, a, q) <=> OnPath(V, a, q)
  BY DEF OnPath
<1>3. ASSUME NEW q \in N, NEW a \in N, NEW n \in Nat
      PROVE  Entered(W, a, q, n) <=> Entered(V, a, q, n)
  BY <1>1 DEF Entered
<1>4. ASSUME NEW q \in N, NEW n \in Nat, NEW e \in Entry, e.request \in N \cup {NoReq}
      PROVE  Has(W, q, e, n) <=> Has(V, q, e, n)
  <2>1. Place(W, q, n) = Place(V, q, n)
    BY <1>1
  <2>2. CASE e.request = NoReq
    BY <2>1, <2>2, Zenon DEF Has
  <2>3. CASE e.request # NoReq
    <3>1. W[e.request].path = V[e.request].path
      BY <1>4, <2>3
    <3> QED BY <2>1, <2>3, <3>1, Zenon DEF Has
  <2> QED BY <2>2, <2>3
<1> QED BY <1>1, <1>2, <1>3, <1>4

(* The requests of a list are requests, and its places were given out. *)
LEMMA InList ==
  ASSUME NEW N \in SUBSET Nat, NEW V \in [N -> Node], Rooted(V), NEW q \in N, ListOK(V, q),
         NEW k \in DOMAIN V[q].list
  PROVE  /\ V[q].list[k] \in Entry
         /\ V[q].list[k].request \in N \cup {NoReq}
         /\ \A n \in Nat : Has(V, q, V[q].list[k], n) => n <= V[q].given
<1> DEFINE e == V[q].list[k]
<1>1. V[q] \in Node /\ V[q].path \in Path /\ V[q].given \in Nat /\ V[q].list \in Seq(Entry)
  BY DEF Node
<1>2. e \in Entry
  BY <1>1
<1>3. EntryOK(V, q, e) /\ DOMAIN V = N
  BY Zenon DEF ListOK
<1> HIDE DEF e
<1>4. CASE e.request = NoReq
  <2>1. ASSUME NEW n \in Nat, Has(V, q, e, n) PROVE n <= V[q].given
    <3>1. PICK j \in DOMAIN e.out : e.out[j] = Place(V, q, n)
      BY <1>4, <2>1, Zenon DEF Has
    <3>2. Pieces(V, q, 0, V[q].given, e.out)
      BY <1>3, <1>4, Zenon DEF EntryOK
    <3>3. PICK m \in 1 .. V[q].given : e.out[j] = Place(V, q, m)
      BY <3>2 DEF Pieces
    <3>4. Place(V, q, m) = Place(V, q, n) /\ m \in Nat
      BY <3>1, <3>3
    <3>5. m = n
      BY <1>1, <3>4, SamePlace DEF Place
    <3> QED BY <1>1, <3>3, <3>5
  <2> QED BY <1>2, <1>4, <2>1 DEF e
<1>5. CASE e.request # NoReq
  <2>1. e.request \in N \ {Main} /\ V[e.request].parent = q
    BY <1>3, <1>5, Zenon DEF EntryOK
  <2>2. PICK m \in 1 .. V[q].given : V[e.request].path = Place(V, q, m)
    BY <1>3, <2>1 DEF Rooted
  <2>3. ASSUME NEW n \in Nat, Has(V, q, e, n) PROVE n <= V[q].given
    <3>1. Place(V, q, m) = Place(V, q, n)
      BY <1>5, <2>2, <2>3, Zenon DEF Has
    <3>2. m = n
      BY <1>1, <3>1, SamePlace DEF Place
    <3> QED BY <2>2, <3>2
  <2> QED BY <1>2, <2>1, <2>3 DEF e
<1> QED BY <1>4, <1>5

(* A request gives out places, to its list or to the response, and takes   *)
(* from its list what is sent.                                             *)
LEMMA Pass ==
  ASSUME NEW N \in SUBSET Nat, NEW V \in [N -> Node], NEW W \in [N -> Node], NEW a,
         NEW st \in Seq(Path), NEW out \in Seq(Path), Ordered(V, a, st), NEW r \in N,
         \A q \in N : q # r => W[q] = V[q],
         W[r].path = V[r].path, W[r].parent = V[r].parent, W[r].given >= V[r].given,
         ListOK(W, r), FirstOK(W, a, r),
         \A n \in Nat : Ahead(W, a, r, n) => Ahead(V, a, r, n),
         Sorted(out),
         \A j \in DOMAIN out :
           r = a /\ \E n \in Nat : /\ out[j] = Place(V, a, n) /\ Ahead(V, a, a, n)
                                   /\ \A m \in Nat : Ahead(W, a, a, m) => n < m
  PROVE  Ordered(W, a, st \o out)
<1>1. /\ DOMAIN V = N /\ DOMAIN W = N /\ a \in N /\ Rooted(V)
      /\ \A q \in N : ListOK(V, q) /\ FirstOK(V, a, q)
      /\ Clear(V, a, st) /\ Sorted(st)
  BY Zenon DEF Ordered
<1>2. \A q \in N : W[q].path = V[q].path /\ W[q].parent = V[q].parent
  BY Zenon
<1>3. \A q \in N : /\ V[q].path \in Path /\ V[q].given \in Nat /\ W[q].given \in Nat
                   /\ W[q].given >= V[q].given
  <2> SUFFICES ASSUME NEW q \in N
               PROVE  /\ V[q].path \in Path /\ V[q].given \in Nat /\ W[q].given \in Nat
                      /\ W[q].given >= V[q].given
    OBVIOUS
  <2>1. V[q] \in Node /\ W[q] \in Node
    OBVIOUS
  <2>2. V[q].path \in Path /\ V[q].given \in Nat /\ W[q].given \in Nat
    BY <2>1 DEF Node
  <2>3. W[q].given >= V[q].given
    <3>1. CASE q = r
      BY <3>1
    <3>2. CASE q # r
      BY <2>2, <3>2
    <3> QED BY <3>1, <3>2
  <2> QED BY <2>2, <2>3
<1>4. /\ \A q \in N, n \in Nat : Place(W, q, n) = Place(V, q, n) /\ Place(V, q, n) \in Path
      /\ \A q \in N : OnPath(W, a, q) <=> OnPath(V, a, q)
      /\ \A q \in N, n \in Nat : Entered(W, a, q, n) <=> Entered(V, a, q, n)
      /\ \A q \in N, n \in Nat, e \in Entry :
           e.request \in N \cup {NoReq} => (Has(W, q, e, n) <=> Has(V, q, e, n))
  <2>1. \A q \in N : W[q].path = V[q].path
    BY <1>2
  <2>2. /\ \A q \in N, n \in Nat : Place(W, q, n) = Place(V, q, n) /\ Place(V, q, n) \in Path
        /\ \A q \in N, b \in N : OnPath(W, b, q) <=> OnPath(V, b, q)
        /\ \A q \in N, b \in N, n \in Nat : Entered(W, b, q, n) <=> Entered(V, b, q, n)
        /\ \A q \in N, n \in Nat, e \in Entry :
             e.request \in N \cup {NoReq} => (Has(W, q, e, n) <=> Has(V, q, e, n))
    BY <2>1, SameShape, Zenon
  <2> QED BY <1>1, <2>2, Zenon
<1>5. Rooted(W)
  <2>1. ASSUME NEW q \in N \ {Main}
        PROVE  /\ W[q].parent \in N
               /\ \E n \in 1 .. W[W[q].parent].given : W[q].path = Place(W, W[q].parent, n)
    <3>1. PICK p \in N : p = V[q].parent
      BY <1>1 DEF Rooted
    <3>2. PICK n \in 1 .. V[p].given : V[q].path = Place(V, p, n)
      BY <1>1, <3>1 DEF Rooted
    <3>3. W[q].parent = p /\ W[q].path = V[q].path
      BY <1>2, <3>1
    <3>4. n \in 1 .. W[p].given /\ W[q].path = Place(W, p, n)
      BY <1>3, <1>4, <3>2, <3>3
    <3> QED BY <3>3, <3>4
  <2>2. \A p, q \in N : W[p].path = W[q].path => p = q
    BY <1>1, <1>2 DEF Rooted
  <2>3. Main \in N /\ W[Main].path = <<>>
    BY <1>1, <1>2 DEF Rooted
  <2> QED BY <1>1, <2>1, <2>2, <2>3 DEF Rooted
<1>6. ASSUME NEW q \in N, q # r, NEW k \in DOMAIN V[q].list, NEW n \in Nat
      PROVE  Has(W, q, W[q].list[k], n) <=> Has(V, q, V[q].list[k], n)
  <2>1. W[q].list[k] = V[q].list[k]
    BY <1>6
  <2>2. V[q].list[k] \in Entry /\ V[q].list[k].request \in N \cup {NoReq}
    BY <1>1, InList
  <2> QED BY <1>4, <2>1, <2>2
<1>7. ASSUME NEW q \in N PROVE ListOK(W, q)
  <2> SUFFICES ASSUME q # r PROVE ListOK(W, q)
    OBVIOUS
  <2>1. W[q] = V[q] /\ ListOK(V, q)
    BY <1>1
  <2>2. PICK list : list = V[q].list
    OBVIOUS
  <2>3. ASSUME NEW k \in DOMAIN list PROVE EntryOK(W, q, list[k])
    <3>1. EntryOK(V, q, list[k])
      BY <2>1, <2>2, Zenon DEF ListOK
    <3>2. CASE list[k].request = NoReq
      <4>1. Pieces(V, q, 0, V[q].given, list[k].out)
        BY <3>1, <3>2, Zenon DEF EntryOK
      <4>2. Pieces(W, q, 0, W[q].given, list[k].out)
        <5>1. \A n \in 0 + 1 .. V[q].given : Place(W, q, n) = Place(V, q, n)
          BY <1>3, <1>4
        <5> QED BY <2>1, <4>1, <5>1 DEF Pieces
      <4> QED BY <3>2, <4>2, Zenon DEF EntryOK
    <3>3. CASE list[k].request # NoReq
      <4>1. list[k].request \in N \ {Main} /\ V[list[k].request].parent = q
        BY <1>1, <3>1, <3>3, Zenon DEF EntryOK
      <4>2. W[list[k].request].parent = q
        BY <1>2, <4>1
      <4> QED BY <1>1, <3>3, <4>1, <4>2, Zenon DEF EntryOK
    <3> QED BY <3>2, <3>3
  <2>4. ASSUME NEW k \in DOMAIN list, NEW l \in DOMAIN list, k < l, NEW m \in Nat, NEW n \in Nat,
               Has(W, q, list[k], m), Has(W, q, list[l], n)
        PROVE  m < n
    <3>1. Has(V, q, list[k], m) /\ Has(V, q, list[l], n)
      BY <1>6, <2>1, <2>2, <2>4
    <3> QED BY <2>1, <2>2, <2>4, <3>1 DEF ListOK
  <2>5. \A k, l \in DOMAIN list : l = k + 1 =>
          list[k].request # NoReq \/ list[l].request # NoReq
    BY <2>1, <2>2, Zenon DEF ListOK
  <2>6. W[q].list = list
    BY <2>1, <2>2
  <2> QED BY <2>3, <2>4, <2>5, <2>6, Zenon DEF ListOK
<1>8. ASSUME NEW q \in N PROVE FirstOK(W, a, q)
  <2> SUFFICES ASSUME q # r PROVE FirstOK(W, a, q)
    OBVIOUS
  <2>1. W[q] = V[q] /\ FirstOK(V, a, q)
    BY <1>1
  <2> SUFFICES ASSUME NEW n \in Nat, Entered(W, a, q, n), NEW k \in DOMAIN W[q].list,
                      Has(W, q, W[q].list[k], n)
               PROVE  k = 1 /\ W[q].list[k].request # NoReq
    BY Zenon DEF FirstOK
  <2>2. Entered(V, a, q, n) /\ Has(V, q, V[q].list[k], n)
    BY <1>4, <1>6, <2>1
  <2> QED BY <2>1, <2>2 DEF FirstOK
<1>9. ASSUME NEW q \in N, NEW n \in Nat, Ahead(W, a, q, n) PROVE Ahead(V, a, q, n)
  <2> SUFFICES ASSUME q # r PROVE Ahead(V, a, q, n)
    BY <1>9
  <2>1. W[q] = V[q]
    BY Zenon
  <2>2. Listed(W, q, n) => Listed(V, q, n)
    BY <1>6, <2>1 DEF Listed
  <2>3. Entered(W, a, q, n) <=> Entered(V, a, q, n)
    BY <1>4
  <2> QED BY <1>9, <2>1, <2>2, <2>3 DEF Ahead
<1>10. st \o out \in Seq(Path) /\ DOMAIN st = 1 .. Len(st) /\ DOMAIN out = 1 .. Len(out)
       /\ Len(st) \in Nat /\ Len(out) \in Nat
  OBVIOUS
<1>11. PICK all : all = st \o out
  OBVIOUS
<1>12. /\ DOMAIN all = 1 .. Len(st) + Len(out)
       /\ \A i \in DOMAIN all : IF i <= Len(st) THEN i \in DOMAIN st /\ all[i] = st[i]
                                ELSE i - Len(st) \in DOMAIN out /\ all[i] = out[i - Len(st)]
  <2>1. /\ all \in Seq(Path) /\ Len(all) = Len(st) + Len(out)
        /\ \A i \in 1 .. Len(st) + Len(out) : all[i] = IF i <= Len(st) THEN st[i]
                                                       ELSE out[i - Len(st)]
    BY <1>11, ConcatProperties
  <2> QED BY <1>10, <2>1
<1>13. Clear(W, a, all)
  <2> SUFFICES ASSUME NEW q \in N, NEW n \in Nat, OnPath(W, a, q), Ahead(W, a, q, n)
               PROVE  /\ \A i \in DOMAIN all : Before(all[i], Place(W, q, n))
                      /\ q # a => Before(W[a].path, Place(W, q, n))
    BY <1>1, Zenon DEF Clear
  <2>1. PICK x : x = Place(V, q, n)
    OBVIOUS
  <2>2. Place(W, q, n) = x /\ x \in Path /\ W[a].path = V[a].path
    BY <1>1, <1>2, <1>4, <2>1
  <2>3. /\ \A i \in DOMAIN st : Before(st[i], x)
        /\ q # a => Before(V[a].path, x)
    BY <1>1, <1>4, <1>9, <2>1 DEF Clear
  <2>4. ASSUME NEW j \in DOMAIN out PROVE Before(out[j], x)
    <3>1. PICK m \in Nat : /\ out[j] = Place(V, a, m) /\ Ahead(V, a, a, m)
                           /\ \A l \in Nat : Ahead(W, a, a, l) => m < l
      BY <2>4
    <3>2. CASE q = a
      <4>1. m < n
        BY <3>1, <3>2
      <4> QED BY <1>1, <1>3, <2>1, <3>1, <3>2, <4>1, BeforeSame DEF Place
    <3>3. CASE q # a
      <4>1. Before(V[a].path, x) /\ V[a].path \in Path
        BY <1>1, <1>3, <2>3, <3>3
      <4> QED BY <2>2, <3>1, <4>1, BeforeLonger DEF Place
    <3> QED BY <3>2, <3>3
  <2>5. ASSUME NEW i \in DOMAIN all PROVE Before(all[i], x)
    BY <1>12, <2>3, <2>4
  <2> QED BY <2>2, <2>3, <2>5
<1>14. Sorted(all)
  <2> SUFFICES ASSUME NEW i \in DOMAIN all, NEW j \in DOMAIN all, i < j
               PROVE  Before(all[i], all[j])
    BY Zenon DEF Sorted
  <2>1. CASE j <= Len(st)
    <3>1. i \in DOMAIN st /\ j \in DOMAIN st /\ all[i] = st[i] /\ all[j] = st[j]
      BY <1>10, <1>12, <2>1
    <3> QED BY <1>1, <3>1 DEF Sorted
  <2>2. CASE ~(i <= Len(st))
    <3>1. /\ i - Len(st) \in DOMAIN out /\ j - Len(st) \in DOMAIN out
          /\ i - Len(st) < j - Len(st)
          /\ all[i] = out[i - Len(st)] /\ all[j] = out[j - Len(st)]
      BY <1>10, <1>12, <2>2
    <3> QED BY <3>1 DEF Sorted
  <2>3. CASE i <= Len(st) /\ ~(j <= Len(st))
    <3>1. PICK l : l = j - Len(st)
      OBVIOUS
    <3>2. i \in DOMAIN st /\ l \in DOMAIN out /\ all[i] = st[i] /\ all[j] = out[l]
      BY <1>12, <2>3, <3>1
    <3>3. PICK m \in Nat : out[l] = Place(V, a, m) /\ Ahead(V, a, a, m)
      BY <3>2
    <3>4. OnPath(V, a, a)
      BY <1>1, <1>3, PrefixSelf DEF OnPath
    <3> QED BY <1>1, <3>2, <3>3, <3>4 DEF Clear
  <2> QED BY <2>1, <2>2, <2>3
<1> QED BY <1>1, <1>5, <1>7, <1>8, <1>11, <1>13, <1>14 DEF Ordered

(* The active request enters the first subrequest of its list. *)
LEMMA Enter ==
  ASSUME NEW N \in SUBSET Nat, NEW V \in [N -> Node], NEW a, NEW st \in Seq(Path),
         Ordered(V, a, st), V[a].list # <<>>, V[a].list[1].request # NoReq
  PROVE  V[a].list[1].request \in N \ {Main} /\ Ordered(V, V[a].list[1].request, st)
<1>1. /\ DOMAIN V = N /\ a \in N /\ Rooted(V)
      /\ \A q \in N : ListOK(V, q) /\ FirstOK(V, a, q)
      /\ Clear(V, a, st) /\ Sorted(st)
  BY Zenon DEF Ordered
<1>2. PICK c : c = V[a].list[1].request
  OBVIOUS
<1>3. \A q \in N : V[q].path \in Path /\ V[q].given \in Nat /\ V[q].list \in Seq(Entry)
  BY DEF Node
<1>4. 1 \in DOMAIN V[a].list
  BY <1>1, <1>3, EmptySeq
<1>5. c \in N \ {Main} /\ V[c].parent = a
  <2>1. EntryOK(V, a, V[a].list[1])
    BY <1>1, <1>4, Zenon DEF ListOK
  <2> QED BY <1>1, <1>2, <2>1, Zenon DEF EntryOK
<1>6. PICK d \in 1 .. V[a].given : V[c].path = Place(V, a, d)
  BY <1>1, <1>5 DEF Rooted
<1>7. d \in Nat /\ V[c].path = Append(V[a].path, d) /\ Has(V, a, V[a].list[1], d)
  BY <1>1, <1>2, <1>3, <1>6 DEF Place, Has
<1>8. ASSUME NEW p \in Path
      PROVE  IsPrefix(p, V[c].path) <=> p = V[c].path \/ IsPrefix(p, V[a].path)
  BY <1>1, <1>3, <1>7, PrefixLonger
<1>9. ASSUME NEW q \in N PROVE OnPath(V, c, q) <=> q = c \/ OnPath(V, a, q)
  <2>1. V[q].path = V[c].path <=> q = c
    BY <1>1, <1>5 DEF Rooted
  <2> QED BY <1>3, <1>8, <2>1 DEF OnPath
<1>10. ASSUME NEW q \in N, NEW n \in Nat
       PROVE  /\ Place(V, q, n) \in Path
              /\ Entered(V, c, q, n) <=> (q = a /\ n = d) \/ Entered(V, a, q, n)
  <2>1. Place(V, q, n) \in Path
    BY <1>3, Longer DEF Place
  <2>2. Place(V, q, n) = V[c].path <=> q = a /\ n = d
    <3>1. ASSUME Place(V, q, n) = V[c].path PROVE q = a /\ n = d
      <4>1. Append(V[q].path, n) = Append(V[a].path, d)
        BY <1>7, <3>1 DEF Place
      <4>2. V[q].path \in Path /\ V[a].path \in Path /\ n \in Nat /\ d \in Nat
        BY <1>1, <1>3, <1>7
      <4>3. PICK x \in Path, y \in Path : x = V[q].path /\ y = V[a].path
        BY <4>2
      <4>4. Append(x, n) = Append(y, d)
        BY <4>1, <4>3
      <4>5. x = y /\ n = d
        BY <4>2, <4>4, SamePlace
      <4> QED BY <1>1, <4>3, <4>5 DEF Rooted
    <3> QED BY <1>6, <3>1
  <2> QED BY <1>8, <2>1, <2>2 DEF Entered
<1>11. ASSUME NEW q \in N PROVE FirstOK(V, c, q)
  <2> SUFFICES ASSUME NEW n \in Nat, Entered(V, c, q, n), NEW k \in DOMAIN V[q].list,
                      Has(V, q, V[q].list[k], n)
               PROVE  k = 1 /\ V[q].list[k].request # NoReq
    BY Zenon DEF FirstOK
  <2>1. CASE Entered(V, a, q, n)
    BY <1>1, <2>1 DEF FirstOK
  <2>2. CASE q = a /\ n = d
    <3>1. ~(1 < k)
      BY <1>1, <1>4, <1>7, <2>2 DEF ListOK
    <3>2. k \in 1 .. Len(V[q].list) /\ Len(V[q].list) \in Nat
      BY <1>3
    <3>3. k = 1
      BY <3>1, <3>2
    <3> QED BY <2>2, <3>3
  <2> QED BY <1>10, <2>1, <2>2
<1>12. ASSUME NEW q \in N, NEW n \in Nat, Ahead(V, c, q, n)
       PROVE  Ahead(V, a, q, n)
  BY <1>10, <1>12 DEF Ahead
<1>13. ASSUME NEW n \in Nat, Ahead(V, c, a, n) PROVE d < n
  <2>1. CASE n > V[a].given
    BY <1>1, <1>3, <1>6, <2>1
  <2>2. CASE Listed(V, a, n) /\ ~Entered(V, c, a, n)
    <3>1. PICK k \in DOMAIN V[a].list : Has(V, a, V[a].list[k], n)
      BY <2>2 DEF Listed
    <3>2. n # d
      BY <1>1, <1>10, <2>2
    <3>3. k # 1
      <4> SUFFICES ASSUME k = 1 PROVE FALSE
        OBVIOUS
      <4>1. Place(V, a, n) = V[c].path
        BY <1>2, <3>1 DEF Has
      <4>2. Append(V[a].path, n) = Append(V[a].path, d)
        BY <1>7, <4>1 DEF Place
      <4> QED BY <1>1, <1>3, <1>7, <3>2, <4>2, SamePlace
    <3>4. k \in 1 .. Len(V[a].list) /\ Len(V[a].list) \in Nat
      BY <1>1, <1>3
    <3>5. 1 < k
      BY <3>3, <3>4
    <3> QED BY <1>1, <1>4, <1>7, <3>1, <3>5 DEF ListOK
  <2> QED BY <1>13, <2>1, <2>2 DEF Ahead
<1>14. OnPath(V, a, a)
  BY <1>1, <1>3, PrefixSelf DEF OnPath
<1>15. Clear(V, c, st)
  <2> SUFFICES ASSUME NEW q \in N, NEW n \in Nat, OnPath(V, c, q), Ahead(V, c, q, n)
               PROVE  /\ \A i \in DOMAIN st : Before(st[i], Place(V, q, n))
                      /\ q # c => Before(V[c].path, Place(V, q, n))
    BY <1>1, Zenon DEF Clear
  <2>1. CASE q = c
    <3>1. Ahead(V, a, a, d) \/ Entered(V, a, a, d)
      BY <1>4, <1>7 DEF Ahead, Listed
    <3>2. ~Entered(V, a, a, d)
      <4>1. ASSUME Entered(V, a, a, d) PROVE FALSE
        <5>1. Len(V[a].path) < Len(V[a].path) /\ Len(V[a].path) \in Nat
          BY <1>1, <1>3, <1>7, <4>1, PrefixShorter DEF Entered, Place, Path
        <5> QED BY <5>1
      <4> QED BY <4>1
    <3>3. \A i \in DOMAIN st : Before(st[i], V[c].path)
      BY <1>1, <1>6, <1>7, <1>14, <3>1, <3>2 DEF Clear
    <3>4. \A i \in DOMAIN st : st[i] \in Path
      OBVIOUS
    <3> QED BY <1>3, <2>1, <3>3, <3>4, BeforeLonger DEF Place
  <2>2. CASE q # c
    <3>1. OnPath(V, a, q) /\ Ahead(V, a, q, n)
      BY <1>9, <1>12, <2>2
    <3>2. /\ \A i \in DOMAIN st : Before(st[i], Place(V, q, n))
          /\ q # a => Before(V[a].path, Place(V, q, n))
      BY <1>1, <3>1 DEF Clear
    <3>3. CASE q = a
      <4>1. d < n
        BY <1>13, <3>3
      <4>2. Before(V[c].path, Place(V, q, n))
        BY <1>1, <1>3, <1>7, <3>3, <4>1, BeforeSame DEF Place
      <4> QED BY <3>2, <4>2
    <3>4. CASE q # a
      <4>1. Before(V[a].path, Place(V, q, n)) /\ Place(V, q, n) \in Path
        BY <1>10, <3>2, <3>4
      <4>2. Before(V[c].path, Place(V, q, n))
        BY <1>1, <1>3, <1>7, <4>1, BeforeLonger
      <4> QED BY <3>2, <4>2
    <3> QED BY <3>3, <3>4
  <2> QED BY <2>1, <2>2
<1>16. Ordered(V, c, st)
  BY <1>1, <1>5, <1>11, <1>15 DEF Ordered
<1> QED BY <1>2, <1>5, <1>16

(* The active request has ended, and its parent, which does not list it    *)
(* any more, takes its turn.                                               *)
LEMMA Leave ==
  ASSUME NEW N \in SUBSET Nat, NEW V \in [N -> Node], NEW a, NEW st \in Seq(Path),
         Ordered(V, a, st), a # Main,
         \A k \in DOMAIN V[V[a].parent].list : V[V[a].parent].list[k].request # a
  PROVE  V[a].parent \in N /\ Ordered(V, V[a].parent, st)
<1>1. /\ DOMAIN V = N /\ a \in N /\ Rooted(V)
      /\ \A q \in N : ListOK(V, q) /\ FirstOK(V, a, q)
      /\ Clear(V, a, st) /\ Sorted(st)
  BY Zenon DEF Ordered
<1>2. PICK p \in N : p = V[a].parent
  BY <1>1 DEF Rooted
<1>3. \A q \in N : V[q].path \in Path /\ V[q].given \in Nat /\ V[q].list \in Seq(Entry)
  BY DEF Node
<1>4. PICK d \in 1 .. V[p].given : V[a].path = Place(V, p, d)
  BY <1>1, <1>2 DEF Rooted
<1>5. d \in Nat /\ V[a].path = Append(V[p].path, d)
  BY <1>2, <1>3, <1>4 DEF Place
<1>6. ASSUME NEW x \in Path
      PROVE  IsPrefix(x, V[a].path) <=> x = V[a].path \/ IsPrefix(x, V[p].path)
  BY <1>3, <1>5, PrefixLonger
<1>7. ASSUME NEW q \in N, OnPath(V, p, q) PROVE OnPath(V, a, q) /\ q # a
  <2>1. OnPath(V, a, q)
    BY <1>3, <1>6, <1>7 DEF OnPath
  <2>2. Len(V[q].path) <= Len(V[p].path)
    BY <1>3, <1>7, PrefixLen DEF OnPath
  <2>3. Len(V[a].path) = Len(V[p].path) + 1 /\ Len(V[p].path) \in Nat
    BY <1>3, <1>5, Longer
  <2> QED BY <2>1, <2>2, <2>3
<1>8. ASSUME NEW q \in N, NEW n \in Nat
      PROVE  /\ Place(V, q, n) \in Path
             /\ Entered(V, a, q, n) <=> (q = p /\ n = d) \/ Entered(V, p, q, n)
  <2>1. Place(V, q, n) \in Path
    BY <1>3, Longer DEF Place
  <2>2. Place(V, q, n) = V[a].path <=> q = p /\ n = d
    <3>1. ASSUME Place(V, q, n) = V[a].path PROVE q = p /\ n = d
      <4>1. Append(V[q].path, n) = Append(V[p].path, d)
        BY <1>5, <3>1 DEF Place
      <4>2. V[q].path \in Path /\ V[p].path \in Path /\ n \in Nat /\ d \in Nat
        BY <1>3, <1>5
      <4>3. PICK x \in Path, y \in Path : x = V[q].path /\ y = V[p].path
        BY <4>2
      <4>4. Append(x, n) = Append(y, d)
        BY <4>1, <4>3
      <4>5. x = y /\ n = d
        BY <4>2, <4>4, SamePlace
      <4> QED BY <1>1, <4>3, <4>5 DEF Rooted
    <3> QED BY <1>4, <3>1
  <2> QED BY <1>6, <2>1, <2>2 DEF Entered
<1>9. ASSUME NEW q \in N PROVE FirstOK(V, p, q)
  BY <1>1, <1>8 DEF FirstOK
<1>10. ~Listed(V, p, d)
  <2> SUFFICES ASSUME NEW k \in DOMAIN V[p].list, Has(V, p, V[p].list[k], d) PROVE FALSE
    BY DEF Listed
  <2>1. Entered(V, a, p, d)
    BY <1>5, <1>8
  <2>2. V[p].list[k].request # NoReq
    BY <1>1, <1>5, <2>1 DEF FirstOK
  <2>3. V[V[p].list[k].request].path = V[a].path
    BY <1>4, <2>2 DEF Has
  <2>4. V[p].list[k].request \in N
    <3>1. EntryOK(V, p, V[p].list[k])
      BY <1>1, Zenon DEF ListOK
    <3> QED BY <1>1, <2>2, <3>1, Zenon DEF EntryOK
  <2>5. V[p].list[k].request = a
    BY <1>1, <2>3, <2>4 DEF Rooted
  <2> QED BY <1>2, <2>5
<1>11. ASSUME NEW q \in N, NEW n \in Nat, Ahead(V, p, q, n) PROVE Ahead(V, a, q, n)
  <2>1. CASE q = p /\ n = d
    <3>1. n > V[q].given
      BY <1>10, <1>11, <2>1 DEF Ahead
    <3> QED BY <3>1 DEF Ahead
  <2>2. CASE ~(q = p /\ n = d)
    BY <1>8, <1>11, <2>2 DEF Ahead
  <2> QED BY <2>1, <2>2
<1>12. Clear(V, p, st)
  <2> SUFFICES ASSUME NEW q \in N, NEW n \in Nat, OnPath(V, p, q), Ahead(V, p, q, n)
               PROVE  /\ \A i \in DOMAIN st : Before(st[i], Place(V, q, n))
                      /\ q # p => Before(V[p].path, Place(V, q, n))
    BY <1>1, Zenon DEF Clear
  <2>1. /\ \A i \in DOMAIN st : Before(st[i], Place(V, q, n))
        /\ Before(V[a].path, Place(V, q, n))
    BY <1>1, <1>7, <1>11 DEF Clear
  <2>2. ASSUME q # p PROVE Before(V[p].path, Place(V, q, n))
    <3>1. V[q].path # V[p].path
      BY <1>1, <2>2 DEF Rooted
    <3>2. Len(V[q].path) < Len(V[p].path)
      BY <1>3, <3>1, PrefixLen DEF OnPath
    <3>3. Len(Place(V, q, n)) = Len(V[q].path) + 1 /\ Len(V[q].path) \in Nat
          /\ Len(V[p].path) \in Nat /\ Place(V, q, n) \in Path
      BY <1>3, Longer DEF Place
    <3>4. Len(Place(V, q, n)) <= Len(V[p].path)
      BY <3>2, <3>3
    <3> QED BY <1>3, <1>5, <2>1, <3>3, <3>4, BeforeShorter
  <2> QED BY <2>1, <2>2
<1>13. Ordered(V, p, st)
  BY <1>1, <1>9, <1>12 DEF Ordered
<1> QED BY <1>2, <1>13

(* Output of some places is output of more places, of a request of the     *)
(* same path.                                                              *)
LEMMA WiderPieces ==
  ASSUME NEW V, NEW W, NEW q, NEW g \in Nat, NEW h \in Nat, g <= h,
         \A n \in Nat : Place(W, q, n) = Place(V, q, n),
         NEW out, Pieces(V, q, 0, g, out)
  PROVE  Pieces(W, q, 0, h, out)
<1>1. ASSUME NEW j \in DOMAIN out PROVE \E n \in 0 + 1 .. h : out[j] = Place(W, q, n)
  <2>1. PICK n \in 0 + 1 .. g : out[j] = Place(V, q, n)
    BY Zenon DEF Pieces
  <2>2. n \in Nat /\ n \in 0 + 1 .. h
    OBVIOUS
  <2> QED BY <2>1, <2>2
<1> QED BY <1>1, Zenon DEF Pieces

(* A place that was not given out yet is not on the path.                  *)
LEMMA NotEntered ==
  ASSUME NEW N \in SUBSET Nat, NEW V \in [N -> Node], NEW a, NEW st \in Seq(Path),
         Ordered(V, a, st), NEW r \in N, NEW n \in Nat, n > V[r].given
  PROVE  ~Entered(V, a, r, n)
<1>1. a \in N /\ V[a].path \in Path /\ V[r].path \in Path /\ DOMAIN V = N /\ Clear(V, a, st)
  BY DEF Ordered, Node
<1>2. PICK x \in Path : x = Place(V, r, n) /\ x = Append(V[r].path, n)
  BY <1>1, Longer DEF Place
<1> SUFFICES ASSUME IsPrefix(x, V[a].path) PROVE FALSE
  BY <1>2 DEF Entered
<1>3. IsPrefix(V[r].path, V[a].path) /\ Len(V[r].path) < Len(V[a].path)
  BY <1>1, <1>2, PrefixShorter
<1>4. r # a
  <2>1. Len(V[a].path) \in Nat
    BY <1>1 DEF Path
  <2> QED BY <1>3, <2>1
<1>5. OnPath(V, a, r) /\ Ahead(V, a, r, n)
  BY <1>3 DEF OnPath, Ahead
<1>6. Before(V[a].path, x)
  BY <1>1, <1>2, <1>4, <1>5 DEF Clear
<1> QED BY <1>1, <1>6, BeforeNoPrefix

(* A subrequest is made at the next place of its parent. *)
LEMMA Grow ==
  ASSUME NEW N \in SUBSET Nat, NEW s \in Nat \ N, s # NoReq, NEW V \in [N -> Node],
         NEW W \in [N \cup {s} -> Node], NEW a, NEW st \in Seq(Path), Ordered(V, a, st),
         NEW r \in N, NEW n \in Nat, n > V[r].given,
         \A q \in N : q # r => W[q] = V[q],
         W[r].path = V[r].path, W[r].parent = V[r].parent, W[r].given = n,
         W[r].list = Append(V[r].list, Sub(s)),
         W[s].path = Place(V, r, n), W[s].parent = r, W[s].list = <<>>
  PROVE  Ordered(W, a, st)
<1> DEFINE M == N \cup {s}
<1>1. /\ DOMAIN V = N /\ DOMAIN W = M /\ a \in N /\ Rooted(V) /\ s # Main /\ Main \in N
      /\ V[Main].path = <<>>
      /\ \A q \in N : ListOK(V, q) /\ FirstOK(V, a, q)
      /\ Clear(V, a, st) /\ Sorted(st)
  BY DEF Ordered, Rooted
<1>2. \A q \in N : W[q].path = V[q].path /\ W[q].parent = V[q].parent
  BY Zenon
<1>3. /\ \A q \in N : V[q].path \in Path /\ V[q].given \in Nat /\ V[q].list \in Seq(Entry)
      /\ \A q \in M : W[q].path \in Path /\ W[q].given \in Nat /\ W[q].list \in Seq(Entry)
  BY DEF Node
<1>30. \A q \in N : W[q].given >= V[q].given
  <2> SUFFICES ASSUME NEW q \in N PROVE W[q].given >= V[q].given
    OBVIOUS
  <2>1. CASE q = r
    BY <1>3, <2>1
  <2>2. CASE q # r
    BY <1>3, <2>2
  <2> QED BY <2>1, <2>2
<1>4. /\ \A q \in N, m \in Nat : Place(W, q, m) = Place(V, q, m) /\ Place(V, q, m) \in Path
      /\ \A q \in N : OnPath(W, a, q) <=> OnPath(V, a, q)
      /\ \A q \in N, m \in Nat : Entered(W, a, q, m) <=> Entered(V, a, q, m)
      /\ \A q \in N, m \in Nat, e \in Entry :
           e.request \in N \cup {NoReq} => (Has(W, q, e, m) <=> Has(V, q, e, m))
  <2>1. \A q \in N : W[q].path = V[q].path
    BY <1>2
  <2>2. N \subseteq M
    OBVIOUS
  <2> HIDE DEF M
  <2>3. W \in [M -> Node]
    BY DEF M
  <2>4. /\ \A q \in N, m \in Nat : Place(W, q, m) = Place(V, q, m) /\ Place(V, q, m) \in Path
        /\ \A q \in N, b \in N : OnPath(W, b, q) <=> OnPath(V, b, q)
        /\ \A q \in N, b \in N, m \in Nat : Entered(W, b, q, m) <=> Entered(V, b, q, m)
        /\ \A q \in N, m \in Nat, e \in Entry :
             e.request \in N \cup {NoReq} => (Has(W, q, e, m) <=> Has(V, q, e, m))
    BY <2>1, <2>2, <2>3, SameShape, Zenon
  <2> QED BY <1>1, <2>4, Zenon
<1>5. PICK x \in Path : x = Place(V, r, n)
  BY <1>4
<1>6. x = Append(V[r].path, n) /\ V[r].path \in Path
  BY <1>3, <1>5 DEF Place
<1>7. ASSUME NEW q \in N \ {Main}, NEW y \in Path, NEW m \in Nat, V[q].path = Append(y, m)
      PROVE  y = V[V[q].parent].path /\ V[q].parent \in N /\ m <= V[V[q].parent].given
  <2>1. PICK p \in N : p = V[q].parent
    BY <1>1 DEF Rooted
  <2>2. PICK j \in 1 .. V[p].given : V[q].path = Place(V, p, j)
    BY <1>1, <2>1 DEF Rooted
  <2>3. PICK z \in Path : z = V[p].path
    BY <1>3
  <2>4. j \in Nat /\ Append(y, m) = Append(z, j)
    BY <1>3, <1>7, <2>2, <2>3 DEF Place
  <2>5. y = z /\ m = j
    BY <2>4, SamePlace
  <2> QED BY <2>1, <2>2, <2>3, <2>5
<1>8. ASSUME NEW y \in Path, NEW m \in Nat PROVE V[Main].path # Append(y, m)
  <2>1. Len(Append(y, m)) = Len(y) + 1 /\ Len(y) \in Nat
    BY Longer
  <2>2. Len(V[Main].path) = 0
    BY <1>1
  <2> QED BY <2>1, <2>2
<1>9. ASSUME NEW q \in N PROVE V[q].path # x
  <2> SUFFICES ASSUME V[q].path = x PROVE FALSE
    OBVIOUS
  <2>1. q # Main
    BY <1>6, <1>8
  <2>2. V[r].path = V[V[q].parent].path /\ V[q].parent \in N /\ n <= V[V[q].parent].given
    <3>1. PICK y \in Path : y = V[r].path
      BY <1>6
    <3>2. V[q].path = Append(y, n)
      BY <1>6, <3>1
    <3> QED BY <1>7, <2>1, <3>1, <3>2
  <2>3. V[q].parent = r
    BY <1>1, <2>2 DEF Rooted
  <2> QED BY <1>3, <2>2, <2>3
<1>10. ~IsPrefix(x, V[a].path)
  BY <1>5, NotEntered DEF Entered
<1>11. W[s].path = x /\ W[a].path = V[a].path
  BY <1>1, <1>2, <1>5
<1>12. ASSUME NEW m \in Nat PROVE ~OnPath(W, a, s) /\ ~Entered(W, a, s, m)
  <2>1. ~OnPath(W, a, s)
    BY <1>10, <1>11 DEF OnPath
  <2>2. Entered(W, a, s, m) => IsPrefix(x, V[a].path)
    BY <1>1, <1>3, <1>11, PrefixShorter DEF Entered, Place
  <2> QED BY <1>10, <2>1, <2>2
<1>13. Rooted(W)
  <2>1. ASSUME NEW q \in N \ {Main}
        PROVE  /\ W[q].parent \in N
               /\ \E m \in 1 .. W[W[q].parent].given : W[q].path = Place(W, W[q].parent, m)
    <3>1. PICK p \in N : p = V[q].parent
      BY <1>1 DEF Rooted
    <3>2. PICK m \in 1 .. V[p].given : V[q].path = Place(V, p, m)
      BY <1>1, <3>1 DEF Rooted
    <3>3. W[q].parent = p /\ W[q].path = V[q].path
      BY <1>2, <3>1
    <3>4. W[p].given >= V[p].given
      BY <1>30
    <3>5. m \in 1 .. W[p].given /\ W[q].path = Place(W, p, m)
      BY <1>3, <1>4, <3>2, <3>3, <3>4
    <3> QED BY <3>3, <3>5
  <2>2. W[s].parent \in N /\ \E m \in 1 .. W[W[s].parent].given : W[s].path = Place(W, W[s].parent, m)
    <3>1. n \in 1 .. W[r].given /\ W[s].path = Place(W, r, n)
      BY <1>3, <1>4, <1>5, <1>11
    <3> QED BY <3>1
  <2>3. ASSUME NEW p \in M, NEW q \in M, W[p].path = W[q].path PROVE p = q
    BY <1>1, <1>2, <1>9, <1>11, <2>3 DEF Rooted
  <2>4. Main \in M /\ W[Main].path = <<>>
    BY <1>1, <1>2
  <2> QED BY <1>1, <2>1, <2>2, <2>3, <2>4 DEF Rooted
<1>14. ASSUME NEW q \in N, NEW k \in DOMAIN V[q].list
       PROVE  /\ V[q].list[k] \in Entry
              /\ V[q].list[k].request \in N \cup {NoReq}
              /\ \A m \in Nat : Has(V, q, V[q].list[k], m) => m <= V[q].given
              /\ \A m \in Nat : Has(W, q, V[q].list[k], m) <=> Has(V, q, V[q].list[k], m)
  <2>1. /\ V[q].list[k] \in Entry
        /\ V[q].list[k].request \in N \cup {NoReq}
        /\ \A m \in Nat : Has(V, q, V[q].list[k], m) => m <= V[q].given
    BY <1>1, InList
  <2> QED BY <1>4, <2>1
<1>15. PICK z \in Nat : z = Len(V[r].list)
  BY <1>3
<1>16. /\ DOMAIN W[r].list = 1 .. z + 1 /\ DOMAIN V[r].list = 1 .. z
       /\ \A k \in 1 .. z : W[r].list[k] = V[r].list[k]
       /\ W[r].list[z + 1] = Sub(s)
  <2>1. Sub(s) \in Entry
    BY DEF Sub, Entry
  <2> QED BY <1>3, <1>15, <2>1, AppendProperties
<1>17. ASSUME NEW m \in Nat PROVE Has(W, r, Sub(s), m) <=> m = n
  <2>1. Has(W, r, Sub(s), m) <=> x = Append(V[r].path, m)
    BY <1>2, <1>11 DEF Has, Sub, Place
  <2> QED BY <1>6, <2>1, SamePlace
<1>18. ASSUME NEW q \in N, NEW e, EntryOK(V, q, e) PROVE EntryOK(W, q, e)
  <2>1. CASE e.request = NoReq
    <3>1. Pieces(V, q, 0, V[q].given, e.out)
      BY <1>18, <2>1, Zenon DEF EntryOK
    <3>2. V[q].given <= W[q].given
      BY <1>3, <1>30
    <3>3. V[q].given \in Nat /\ W[q].given \in Nat /\ \A m \in Nat : Place(W, q, m) = Place(V, q, m)
      BY <1>3, <1>4
    <3>4. Pieces(W, q, 0, W[q].given, e.out)
      BY <3>1, <3>2, <3>3, WiderPieces
    <3> QED BY <2>1, <3>4, Zenon DEF EntryOK
  <2>2. CASE e.request # NoReq
    <3>1. e.request \in N \ {Main} /\ V[e.request].parent = q
      BY <1>1, <1>18, <2>2, Zenon DEF EntryOK
    <3>2. W[e.request].parent = q
      BY <1>2, <3>1
    <3>3. e.request \in M \ {Main}
      BY <3>1
    <3> QED BY <1>1, <2>2, <3>2, <3>3, Zenon DEF EntryOK
  <2> QED BY <2>1, <2>2
<1>19. EntryOK(W, r, Sub(s))
  BY <1>1 DEF EntryOK, Sub
<1>20. ASSUME NEW q \in M PROVE ListOK(W, q)
  <2>1. CASE q = s
    BY <2>1 DEF ListOK
  <2>2. CASE q \in N /\ q # r
    <3>1. PICK list : list = V[q].list
      OBVIOUS
    <3>2. W[q].list = list
      BY <2>2, <3>1
    <3>3. \A k \in DOMAIN list : EntryOK(W, q, list[k])
      BY <1>1, <1>18, <2>2, <3>1 DEF ListOK
    <3>4. \A k, l \in DOMAIN list : k < l =>
            \A i, j \in Nat : Has(W, q, list[k], i) /\ Has(W, q, list[l], j) => i < j
      BY <1>1, <1>14, <2>2, <3>1 DEF ListOK
    <3>5. \A k, l \in DOMAIN list : l = k + 1 =>
            list[k].request # NoReq \/ list[l].request # NoReq
      BY <1>1, <2>2, <3>1 DEF ListOK
    <3> QED BY <3>2, <3>3, <3>4, <3>5, Zenon DEF ListOK
  <2>3. CASE q = r
    <3>1. PICK list : list = W[r].list
      OBVIOUS
    <3>2. ASSUME NEW k \in 1 .. z + 1 PROVE EntryOK(W, r, list[k])
      <4>1. CASE k = z + 1
        BY <1>16, <1>19, <3>1, <4>1
      <4>2. CASE k # z + 1
        <5>1. k \in 1 .. z
          BY <4>2
        <5> QED BY <1>1, <1>16, <1>18, <3>1, <5>1 DEF ListOK
      <4> QED BY <4>1, <4>2
    <3>3. ASSUME NEW k \in 1 .. z + 1, NEW l \in 1 .. z + 1, k < l, NEW i \in Nat, NEW j \in Nat,
                 Has(W, r, list[k], i), Has(W, r, list[l], j)
          PROVE  i < j
      <4>1. k \in 1 .. z /\ list[k] = V[r].list[k]
        BY <1>16, <3>1, <3>3
      <4>2. Has(V, r, V[r].list[k], i) /\ i <= V[r].given
        BY <1>14, <1>16, <3>3, <4>1
      <4>3. CASE l = z + 1
        <5>1. j = n
          BY <1>16, <1>17, <3>1, <3>3, <4>3
        <5> QED BY <1>3, <4>2, <5>1
      <4>4. CASE l # z + 1
        <5>1. l \in 1 .. z /\ list[l] = V[r].list[l]
          BY <1>16, <3>1, <4>4
        <5>2. Has(V, r, V[r].list[l], j)
          BY <1>14, <1>16, <3>3, <5>1
        <5> QED BY <1>1, <1>16, <3>3, <4>1, <4>2, <5>1, <5>2 DEF ListOK
      <4> QED BY <4>3, <4>4
    <3>4. ASSUME NEW k \in 1 .. z + 1, NEW l \in 1 .. z + 1, l = k + 1
          PROVE  list[k].request # NoReq \/ list[l].request # NoReq
      <4>1. CASE l = z + 1
        BY <1>16, <3>1, <4>1 DEF Sub
      <4>2. CASE l # z + 1
        <5>1. l \in 1 .. z /\ list[l] = V[r].list[l] /\ k \in 1 .. z /\ list[k] = V[r].list[k]
          BY <1>16, <3>1, <3>4, <4>2
        <5>2. V[r].list[k].request # NoReq \/ V[r].list[l].request # NoReq
          <6>1. ListOK(V, r) /\ k \in DOMAIN V[r].list /\ l \in DOMAIN V[r].list
            BY <1>1, <1>16, <5>1
          <6> QED BY <3>4, <6>1, Zenon DEF ListOK
        <5> QED BY <5>1, <5>2
      <4> QED BY <4>1, <4>2
    <3>9. DOMAIN list = 1 .. z + 1
      BY <1>16, <3>1
    <3>5. \A k \in DOMAIN list : EntryOK(W, r, list[k])
      BY <1>16, <3>1, <3>2
    <3>6. \A k, l \in DOMAIN list : k < l =>
            \A i, j \in Nat : Has(W, r, list[k], i) /\ Has(W, r, list[l], j) => i < j
      BY <3>3, <3>9
    <3>7. \A k, l \in DOMAIN list : l = k + 1 =>
            list[k].request # NoReq \/ list[l].request # NoReq
      BY <3>4, <3>9
    <3>8. ListOK(W, r)
      BY <3>1, <3>5, <3>6, <3>7, Zenon DEF ListOK
    <3> QED BY <2>3, <3>8
  <2> QED BY <2>1, <2>2, <2>3
<1>21. ASSUME NEW q \in N, NEW m \in Nat, NEW k \in DOMAIN W[q].list, Has(W, q, W[q].list[k], m)
       PROVE  \/ q = r /\ m = n
              \/ /\ k \in DOMAIN V[q].list /\ W[q].list[k] = V[q].list[k]
                 /\ Has(V, q, V[q].list[k], m)
  <2>1. CASE q = r /\ k = z + 1
    BY <1>16, <1>17, <1>21, <2>1
  <2>2. CASE q = r /\ k # z + 1
    <3>1. k \in 1 .. z
      BY <1>16, <1>21, <2>2
    <3> QED BY <1>14, <1>16, <1>21, <2>2, <3>1
  <2>3. CASE q # r
    BY <1>14, <1>21, <2>3
  <2> QED BY <2>1, <2>2, <2>3
<1>22. ~Entered(V, a, r, n)
  BY <1>5, <1>10 DEF Entered
<1>23. ASSUME NEW q \in M PROVE FirstOK(W, a, q)
  <2> SUFFICES ASSUME NEW m \in Nat, Entered(W, a, q, m), NEW k \in DOMAIN W[q].list,
                      Has(W, q, W[q].list[k], m)
               PROVE  k = 1 /\ W[q].list[k].request # NoReq
    BY Zenon DEF FirstOK
  <2>1. q \in N
    BY <1>12
  <2>2. Entered(V, a, q, m)
    BY <1>4, <2>1
  <2>3. W[q].list[k] = V[q].list[k] /\ Has(V, q, V[q].list[k], m) /\ k \in DOMAIN V[q].list
    BY <1>21, <1>22, <2>1, <2>2
  <2> QED BY <1>1, <2>1, <2>2, <2>3 DEF FirstOK
<1>24. ASSUME NEW q \in N, NEW m \in Nat, Ahead(W, a, q, m) PROVE Ahead(V, a, q, m)
  <2>1. CASE m > W[q].given
    <3>1. m > V[q].given
      BY <1>3, <1>30, <2>1
    <3> QED BY <3>1 DEF Ahead
  <2>2. CASE Listed(W, q, m) /\ ~Entered(W, a, q, m)
    <3>1. PICK k \in DOMAIN W[q].list : Has(W, q, W[q].list[k], m)
      BY <2>2 DEF Listed
    <3>2. CASE q = r /\ m = n
      BY <3>2 DEF Ahead
    <3>3. CASE k \in DOMAIN V[q].list /\ Has(V, q, V[q].list[k], m)
      BY <1>4, <2>2, <3>3 DEF Ahead, Listed
    <3> QED BY <1>21, <3>1, <3>2, <3>3
  <2> QED BY <1>24, <2>1, <2>2 DEF Ahead
<1>25. Clear(W, a, st)
  <2> SUFFICES ASSUME NEW q \in M, NEW m \in Nat, OnPath(W, a, q), Ahead(W, a, q, m)
               PROVE  /\ \A i \in DOMAIN st : Before(st[i], Place(W, q, m))
                      /\ q # a => Before(W[a].path, Place(W, q, m))
    BY <1>1, Zenon DEF Clear
  <2>1. q \in N
    BY <1>12
  <2>2. OnPath(V, a, q) /\ Ahead(V, a, q, m) /\ Place(W, q, m) = Place(V, q, m)
    BY <1>4, <1>24, <2>1
  <2> QED BY <1>1, <1>11, <2>1, <2>2 DEF Clear
<1> HIDE DEF M
<1> QED BY <1>1, <1>13, <1>20, <1>23, <1>25 DEF Ordered, M

(* Output put at the end of a list: with the output that is there already, *)
(* or after the last subrequest.                                           *)
LEMMA AddOutElements ==
  ASSUME NEW list \in Seq(Entry), NEW pieces \in Seq(Path)
  PROVE  /\ AddOut(list, pieces) \in Seq(Entry)
         /\ \E y \in 0 .. Len(list), base \in Seq(Path) :
              /\ DOMAIN AddOut(list, pieces) = 1 .. y + 1
              /\ \A k \in 1 .. y : AddOut(list, pieces)[k] = list[k]
              /\ AddOut(list, pieces)[y + 1] = Out(base \o pieces)
              /\ \/ y = Len(list) /\ base = <<>> /\ (y # 0 => list[y].request # NoReq)
                 \/ y + 1 = Len(list) /\ list[y + 1] = Out(base)
<1>1. PICK z \in Nat : z = Len(list)
  OBVIOUS
<1>2. DOMAIN list = 1 .. z /\ \A k \in 1 .. z : list[k] \in Entry
  BY <1>1
<1>3. \A out \in Seq(Path) : Out(out) \in Entry /\ out \o pieces \in Seq(Path)
  BY DEF Out, Entry, NoReq
<1>4. CASE list # <<>> /\ Last(list).request = NoReq
  <2>1. z # 0
    BY <1>1, <1>4, EmptySeq
  <2>2. PICK y \in Nat : y + 1 = z
    <3>1. z - 1 \in Nat /\ (z - 1) + 1 = z
      BY <2>1
    <3> QED BY <3>1
  <2>3. Last(list) = list[z] /\ list[z] \in Entry
    BY <1>1, <1>2, <2>1 DEF Last
  <2>4. PICK base \in Seq(Path) : base = list[z].out
    BY <2>3 DEF Entry
  <2>5. list[z] = Out(base)
    BY <1>4, <2>3, <2>4 DEF Entry, Out
  <2>6. PICK f : f = Front(list)
    OBVIOUS
  <2>7. f \in Seq(Entry) /\ Len(f) = y /\ \A k \in 1 .. y : f[k] = list[k]
    <3>1. f = SubSeq(list, 1, y)
      BY <1>1, <2>2, <2>6 DEF Front
    <3>2. \A k \in 1 .. y : list[k] \in Entry
      BY <1>2, <2>2
    <3> QED BY <3>1, <3>2, SubSeqProperties
  <2>8. PICK e \in Entry : e = Out(base \o pieces)
    BY <1>3, <2>4
  <2>9. AddOut(list, pieces) = Append(f, e)
    BY <1>4, <2>3, <2>4, <2>6, <2>8 DEF AddOut
  <2>10. /\ Append(f, e) \in Seq(Entry) /\ DOMAIN Append(f, e) = 1 .. y + 1
         /\ \A k \in 1 .. y : Append(f, e)[k] = list[k]
         /\ Append(f, e)[y + 1] = e
    <3>1. /\ Append(f, e) \in Seq(Entry) /\ Len(Append(f, e)) = Len(f) + 1
          /\ \A k \in 1 .. Len(f) : Append(f, e)[k] = f[k]
          /\ Append(f, e)[Len(f) + 1] = e
      BY <2>7, AppendProperties
    <3>2. DOMAIN Append(f, e) = 1 .. Len(Append(f, e))
      BY <3>1, LenProperties
    <3> QED BY <2>7, <3>1, <3>2
  <2>11. y \in 0 .. Len(list)
    BY <1>1, <2>2
  <2> QED BY <1>1, <2>2, <2>4, <2>5, <2>8, <2>9, <2>10, <2>11
<1>5. CASE ~(list # <<>> /\ Last(list).request = NoReq)
  <2>1. PICK e \in Entry : e = Out(pieces)
    BY <1>3
  <2>2. AddOut(list, pieces) = Append(list, e)
    BY <1>5, <2>1 DEF AddOut
  <2>3. /\ Append(list, e) \in Seq(Entry) /\ DOMAIN Append(list, e) = 1 .. z + 1
        /\ \A k \in 1 .. z : Append(list, e)[k] = list[k]
        /\ Append(list, e)[z + 1] = e
    BY <1>1, AppendProperties
  <2>4. z # 0 => list[z].request # NoReq
    BY <1>1, <1>5, EmptySeq DEF Last
  <2>5. <<>> \in Seq(Path) /\ <<>> \o pieces = pieces
    BY ConcatEmptySeq
  <2>6. z \in 0 .. Len(list)
    BY <1>1
  <2> QED BY <1>1, <2>1, <2>2, <2>3, <2>4, <2>5, <2>6
<1> QED BY <1>4, <1>5

(* Output of the next places of a request is put at the end of its list. *)
LEMMA Defer ==
  ASSUME NEW N \in SUBSET Nat, NEW V \in [N -> Node], NEW W \in [N -> Node], NEW a,
         NEW st \in Seq(Path), Ordered(V, a, st), NEW r \in N,
         \A q \in N : q # r => W[q] = V[q],
         W[r].path = V[r].path, W[r].parent = V[r].parent, W[r].given >= V[r].given,
         NEW pieces \in Seq(Path), Pieces(V, r, V[r].given, W[r].given, pieces),
         W[r].list = AddOut(V[r].list, pieces)
  PROVE  Ordered(W, a, st)
<1>1. /\ DOMAIN V = N /\ DOMAIN W = N /\ a \in N /\ Rooted(V)
      /\ ListOK(V, r) /\ FirstOK(V, a, r)
  BY DEF Ordered
<1>2. \A q \in N : W[q].path = V[q].path /\ W[q].parent = V[q].parent
  BY Zenon
<1>3. /\ V[r].path \in Path /\ V[r].given \in Nat /\ V[r].list \in Seq(Entry)
      /\ W[r].given \in Nat /\ W[r].list \in Seq(Entry)
  BY DEF Node
<1>4. PICK g \in Nat, h \in Nat : g = V[r].given /\ h = W[r].given /\ g <= h
  BY <1>3
<1>5. PICK list \in Seq(Entry), nl \in Seq(Entry) : list = V[r].list /\ nl = W[r].list
  BY <1>3
<1>6. PICK y \in 0 .. Len(list), base \in Seq(Path) :
              /\ DOMAIN nl = 1 .. y + 1
              /\ \A k \in 1 .. y : nl[k] = list[k]
              /\ nl[y + 1] = Out(base \o pieces)
              /\ \/ y = Len(list) /\ base = <<>> /\ (y # 0 => list[y].request # NoReq)
                 \/ y + 1 = Len(list) /\ list[y + 1] = Out(base)
  <2>1. nl = AddOut(list, pieces)
    BY <1>5, Zenon
  <2> DEFINE R(x) == \E y \in 0 .. Len(list), base \in Seq(Path) :
              /\ DOMAIN x = 1 .. y + 1
              /\ \A k \in 1 .. y : x[k] = list[k]
              /\ x[y + 1] = Out(base \o pieces)
              /\ \/ y = Len(list) /\ base = <<>> /\ (y # 0 => list[y].request # NoReq)
                 \/ y + 1 = Len(list) /\ list[y + 1] = Out(base)
  <2>2. R(AddOut(list, pieces))
    BY AddOutElements, Zenon
  <2>3. R(nl)
    BY <2>1, <2>2
  <2> QED BY <2>3
<1>7. PICK z \in Nat : z = Len(list) /\ DOMAIN list = 1 .. z
  OBVIOUS
<1>8. y \in Nat /\ y <= z /\ \A k \in 1 .. y : k \in DOMAIN list /\ k \in DOMAIN nl
  BY <1>6, <1>7
<1>9. /\ \A n \in Nat : Place(W, r, n) = Place(V, r, n) /\ Place(V, r, n) \in Path
      /\ \A n \in Nat : Entered(W, a, r, n) <=> Entered(V, a, r, n)
      /\ \A n \in Nat, e \in Entry :
           e.request \in N \cup {NoReq} => (Has(W, r, e, n) <=> Has(V, r, e, n))
  <2>1. \A q \in N : W[q].path = V[q].path
    BY <1>2
  <2>2. /\ \A q \in N, n \in Nat : Place(W, q, n) = Place(V, q, n) /\ Place(V, q, n) \in Path
        /\ \A q \in N, b \in N : OnPath(W, b, q) <=> OnPath(V, b, q)
        /\ \A q \in N, b \in N, n \in Nat : Entered(W, b, q, n) <=> Entered(V, b, q, n)
        /\ \A q \in N, n \in Nat, e \in Entry :
             e.request \in N \cup {NoReq} => (Has(W, q, e, n) <=> Has(V, q, e, n))
    BY <2>1, SameShape, Zenon
  <2> QED BY <1>1, <2>2, Zenon
<1>10. ASSUME NEW k \in DOMAIN list
       PROVE  /\ list[k] \in Entry /\ EntryOK(V, r, list[k])
              /\ \A n \in Nat : Has(V, r, list[k], n) => n <= g
              /\ \A n \in Nat : Has(W, r, list[k], n) <=> Has(V, r, list[k], n)
  <2>1. /\ V[r].list[k] \in Entry
        /\ V[r].list[k].request \in N \cup {NoReq}
        /\ \A n \in Nat : Has(V, r, V[r].list[k], n) => n <= V[r].given
    BY <1>1, <1>5, InList
  <2>2. EntryOK(V, r, list[k])
    BY <1>1, <1>5, Zenon DEF ListOK
  <2> QED BY <1>4, <1>5, <1>9, <2>1, <2>2
<1>11. /\ DOMAIN base = 1 .. Len(base) /\ DOMAIN pieces = 1 .. Len(pieces)
       /\ Len(base) \in Nat /\ Len(pieces) \in Nat
       /\ \A j \in DOMAIN pieces : \E n \in g + 1 .. h : pieces[j] = Place(V, r, n)
       /\ Sorted(pieces)
  BY <1>4 DEF Pieces
<1>12. /\ \A j \in DOMAIN base : \E n \in 1 .. g : base[j] = Place(V, r, n)
       /\ Sorted(base)
  <2>1. CASE base = <<>>
    BY <2>1 DEF Sorted
  <2>2. CASE y + 1 = z /\ list[y + 1] = Out(base)
    <3>1. EntryOK(V, r, Out(base))
      <4>1. y + 1 \in DOMAIN list
        BY <1>7, <1>8, <2>2
      <4> QED BY <1>10, <2>2, <4>1
    <3>2. Pieces(V, r, 0, g, base)
      BY <1>4, <3>1 DEF EntryOK, Out
    <3> QED BY <1>4, <3>2 DEF Pieces
  <2> QED BY <1>6, <1>7, <2>1, <2>2
<1>13. PICK all \in Seq(Path) : all = base \o pieces
  BY ConcatProperties
<1>14. /\ DOMAIN all = 1 .. Len(base) + Len(pieces)
       /\ \A i \in DOMAIN all : IF i <= Len(base) THEN i \in DOMAIN base /\ all[i] = base[i]
                                ELSE i - Len(base) \in DOMAIN pieces /\ all[i] = pieces[i - Len(base)]
  <2>1. /\ Len(all) = Len(base) + Len(pieces)
        /\ \A i \in 1 .. Len(base) + Len(pieces) : all[i] = IF i <= Len(base) THEN base[i]
                                                            ELSE pieces[i - Len(base)]
    BY <1>13, ConcatProperties
  <2> QED BY <1>11, <2>1
<1>15. Sorted(all)
  <2> SUFFICES ASSUME NEW i \in DOMAIN all, NEW j \in DOMAIN all, i < j
               PROVE  Before(all[i], all[j])
    BY Zenon DEF Sorted
  <2>1. CASE j <= Len(base)
    <3>1. i \in DOMAIN base /\ j \in DOMAIN base /\ all[i] = base[i] /\ all[j] = base[j]
      BY <1>11, <1>14, <2>1
    <3> QED BY <1>12, <3>1 DEF Sorted
  <2>2. CASE ~(i <= Len(base))
    <3>1. /\ i - Len(base) \in DOMAIN pieces /\ j - Len(base) \in DOMAIN pieces
          /\ i - Len(base) < j - Len(base)
          /\ all[i] = pieces[i - Len(base)] /\ all[j] = pieces[j - Len(base)]
      BY <1>11, <1>14, <2>2
    <3> QED BY <1>11, <3>1 DEF Sorted
  <2>3. CASE i <= Len(base) /\ ~(j <= Len(base))
    <3>1. PICK m \in 1 .. g : all[i] = Place(V, r, m)
      BY <1>12, <1>14, <2>3
    <3>2. PICK n \in g + 1 .. h : all[j] = Place(V, r, n)
      BY <1>11, <1>14, <2>3
    <3>3. m \in Nat /\ n \in Nat /\ m < n
      BY <3>1, <3>2
    <3> QED BY <1>3, <3>1, <3>2, <3>3, BeforeSame DEF Place
  <2> QED BY <2>1, <2>2, <2>3
<1>16. ASSUME NEW i \in DOMAIN all PROVE \E n \in 1 .. h : all[i] = Place(V, r, n)
  <2>1. CASE i <= Len(base)
    <3>1. PICK n \in 1 .. g : all[i] = Place(V, r, n)
      BY <1>12, <1>14, <2>1
    <3> QED BY <1>4, <3>1
  <2>2. CASE ~(i <= Len(base))
    <3>1. PICK n \in g + 1 .. h : all[i] = Place(V, r, n)
      BY <1>11, <1>14, <2>2
    <3> QED BY <1>4, <3>1
  <2> QED BY <2>1, <2>2
<1>17. nl[y + 1].request = NoReq /\ nl[y + 1].out = all
  BY <1>6, <1>13 DEF Out
<1>18. EntryOK(W, r, nl[y + 1])
  <2>1. \A j \in DOMAIN all : \E n \in 0 + 1 .. W[r].given : all[j] = Place(W, r, n)
    <3> SUFFICES ASSUME NEW j \in DOMAIN all
                 PROVE  \E n \in 0 + 1 .. W[r].given : all[j] = Place(W, r, n)
      OBVIOUS
    <3>1. PICK n \in 1 .. h : all[j] = Place(V, r, n)
      BY <1>16
    <3>2. n \in 0 + 1 .. W[r].given /\ all[j] = Place(W, r, n)
      BY <1>4, <1>9, <3>1
    <3> QED BY <3>2
  <2>2. Pieces(W, r, 0, W[r].given, all)
    BY <1>15, <2>1, Zenon DEF Pieces
  <2> QED BY <1>17, <2>2, Zenon DEF EntryOK
<1>19. ASSUME NEW n \in Nat, Has(W, r, nl[y + 1], n)
       PROVE  n > g \/ (y + 1 = z /\ Has(V, r, list[z], n))
  <2>1. PICK j \in DOMAIN all : all[j] = Place(V, r, n)
    BY <1>9, <1>17, <1>19 DEF Has
  <2>2. CASE j <= Len(base)
    <3>1. j \in DOMAIN base /\ base[j] = Place(V, r, n)
      BY <1>14, <2>1, <2>2
    <3>2. base # <<>>
      BY <3>1
    <3>3. y + 1 = z /\ list[y + 1] = Out(base)
      BY <1>6, <1>7, <3>2
    <3>4. Has(V, r, Out(base), n)
      BY <3>1 DEF Has, Out
    <3> QED BY <3>3, <3>4
  <2>3. CASE ~(j <= Len(base))
    <3>1. PICK m \in g + 1 .. h : all[j] = Place(V, r, m)
      BY <1>11, <1>14, <2>3
    <3>2. m \in Nat /\ m > g /\ Append(V[r].path, m) = Append(V[r].path, n)
      BY <2>1, <3>1 DEF Place
    <3> QED BY <1>3, <3>2, SamePlace
  <2> QED BY <2>2, <2>3
<1>20. ASSUME NEW k \in DOMAIN nl PROVE k \in 1 .. y \/ k = y + 1
  BY <1>6, <1>20
<1>21. ListOK(W, r)
  <2>1. ASSUME NEW k \in DOMAIN nl PROVE EntryOK(W, r, nl[k])
    <3>1. CASE k \in 1 .. y
      <4>1. PICK e : e = list[k]
        OBVIOUS
      <4>2. nl[k] = e /\ EntryOK(V, r, e)
        BY <1>6, <1>8, <1>10, <3>1, <4>1
      <4>3. CASE e.request = NoReq
        <5>1. Pieces(V, r, 0, g, e.out)
          BY <1>4, <4>2, <4>3, Zenon DEF EntryOK
        <5>2. \A n \in Nat : Place(W, r, n) = Place(V, r, n)
          BY <1>9
        <5>3. Pieces(W, r, 0, h, e.out)
          BY <1>4, <5>1, <5>2, WiderPieces
        <5> QED BY <1>4, <4>2, <4>3, <5>3, Zenon DEF EntryOK
      <4>4. CASE e.request # NoReq
        <5>1. e.request \in N \ {Main} /\ V[e.request].parent = r
          BY <1>1, <4>2, <4>4, Zenon DEF EntryOK
        <5>2. W[e.request].parent = r
          BY <1>2, <5>1
        <5> QED BY <1>1, <4>2, <4>4, <5>1, <5>2, Zenon DEF EntryOK
      <4> QED BY <4>3, <4>4
    <3> QED BY <1>18, <1>20, <3>1
  <2>2. ASSUME NEW k \in DOMAIN nl, NEW l \in DOMAIN nl, k < l, NEW m \in Nat, NEW n \in Nat,
               Has(W, r, nl[k], m), Has(W, r, nl[l], n)
        PROVE  m < n
    <3>1. k \in 1 .. y /\ k \in DOMAIN list
      BY <1>8, <1>20, <2>2
    <3>2. Has(V, r, list[k], m) /\ m <= g
      BY <1>6, <1>10, <2>2, <3>1
    <3>3. CASE l \in 1 .. y
      <4>1. Has(V, r, list[l], n) /\ l \in DOMAIN list
        BY <1>6, <1>8, <1>10, <2>2, <3>3
      <4> QED BY <1>1, <1>5, <2>2, <3>1, <3>2, <4>1 DEF ListOK
    <3>4. CASE l = y + 1
      <4>1. CASE n > g
        BY <1>4, <3>2, <4>1
      <4>2. CASE y + 1 = z /\ Has(V, r, list[z], n)
        <5>1. z \in DOMAIN list /\ k < z
          BY <1>7, <1>8, <3>1, <4>2
        <5> QED BY <1>1, <1>5, <3>1, <3>2, <4>2, <5>1 DEF ListOK
      <4> QED BY <1>19, <2>2, <3>4, <4>1, <4>2
    <3> QED BY <1>20, <3>3, <3>4
  <2>3. ASSUME NEW k \in DOMAIN nl, NEW l \in DOMAIN nl, l = k + 1
        PROVE  nl[k].request # NoReq \/ nl[l].request # NoReq
    <3>1. k \in 1 .. y /\ k \in DOMAIN list /\ nl[k] = list[k]
      BY <1>6, <1>8, <1>20, <2>3
    <3>2. ListOK(V, r) /\ DOMAIN V[r].list = DOMAIN list
      BY <1>1, <1>5
    <3>3. CASE l \in 1 .. y
      <4>1. l \in DOMAIN list /\ nl[l] = list[l]
        BY <1>6, <1>8, <3>3
      <4>2. list[k].request # NoReq \/ list[l].request # NoReq
        BY <1>5, <2>3, <3>1, <3>2, <4>1, Zenon DEF ListOK
      <4> QED BY <3>1, <4>1, <4>2
    <3>4. CASE l = y + 1
      <4>1. k = y
        BY <1>8, <2>3, <3>1, <3>4
      <4>2. CASE y = z /\ (y # 0 => list[y].request # NoReq)
        BY <3>1, <4>1, <4>2
      <4>3. CASE y + 1 = z /\ list[y + 1] = Out(base)
        <5>1. y + 1 \in DOMAIN list /\ list[y + 1].request = NoReq
          BY <1>7, <1>8, <4>3 DEF Out
        <5>2. list[k].request # NoReq \/ list[l].request # NoReq
          BY <1>5, <2>3, <3>1, <3>2, <3>4, <5>1, Zenon DEF ListOK
        <5> QED BY <3>1, <3>4, <5>1, <5>2
      <4> QED BY <1>6, <1>7, <4>2, <4>3
    <3> QED BY <1>20, <3>3, <3>4
  <2>4. W[r].list = nl
    BY <1>5
  <2> QED BY <2>1, <2>2, <2>3, <2>4, Zenon DEF ListOK
<1>22. FirstOK(W, a, r)
  <2> SUFFICES ASSUME NEW n \in Nat, Entered(W, a, r, n), NEW k \in DOMAIN nl,
                      Has(W, r, nl[k], n)
               PROVE  k = 1 /\ nl[k].request # NoReq
    BY <1>5, Zenon DEF FirstOK
  <2>1. Entered(V, a, r, n)
    BY <1>9
  <2>2. \A l \in DOMAIN list : Has(V, r, list[l], n) => l = 1 /\ list[l].request # NoReq
    BY <1>1, <1>5, <2>1 DEF FirstOK
  <2>3. CASE k \in 1 .. y
    BY <1>6, <1>8, <1>10, <2>2, <2>3
  <2>4. CASE k = y + 1
    <3>1. CASE n > g
      BY <1>4, <2>1, <3>1, NotEntered
    <3>2. CASE y + 1 = z /\ Has(V, r, list[z], n)
      <4>1. z \in DOMAIN list
        BY <1>7, <1>8, <3>2
      <4>2. list[y + 1] = Out(base)
        BY <1>6, <1>7, <3>2
      <4> QED BY <2>2, <3>2, <4>1, <4>2 DEF Out
    <3> QED BY <1>19, <2>4, <3>1, <3>2
  <2> QED BY <1>20, <2>3, <2>4
<1>23. ASSUME NEW n \in Nat, Ahead(W, a, r, n) PROVE Ahead(V, a, r, n)
  <2>1. CASE n > h
    <3>1. n > V[r].given
      BY <1>4, <2>1
    <3> QED BY <3>1 DEF Ahead
  <2>2. CASE Listed(W, r, n) /\ ~Entered(W, a, r, n)
    <3>1. PICK k \in DOMAIN nl : Has(W, r, nl[k], n)
      BY <1>5, <2>2 DEF Listed
    <3>2. n > g \/ \E l \in DOMAIN list : Has(V, r, list[l], n)
      <4>1. CASE k \in 1 .. y
        BY <1>6, <1>8, <1>10, <3>1, <4>1
      <4>2. CASE k = y + 1
        <5>1. y + 1 = z => z \in DOMAIN list
          BY <1>7, <1>8
        <5> QED BY <1>19, <3>1, <4>2, <5>1
      <4> QED BY <1>20, <4>1, <4>2
    <3> QED BY <1>4, <1>5, <1>9, <2>2, <3>2 DEF Ahead, Listed
  <2> QED BY <1>4, <1>23, <2>1, <2>2 DEF Ahead
<1>24. Ordered(W, a, st \o <<>>)
  <2>1. <<>> \in Seq(Path) /\ Sorted(<<>>) /\ DOMAIN <<>> = {}
    BY DEF Sorted
  <2> HIDE DEF NoReq
  <2> QED BY <1>21, <1>22, <1>23, <2>1, Pass
<1>25. st \o <<>> = st
  BY ConcatEmptySeq
<1> QED BY <1>24, <1>25

(* The place of the active request itself is behind it. *)
LEMMA NotOwn ==
  ASSUME NEW N \in SUBSET Nat, NEW V \in [N -> Node], NEW a \in N, NEW n \in Nat
  PROVE  ~Entered(V, a, a, n)
<1>1. V[a].path \in Path /\ Len(V[a].path) \in Nat
  BY DEF Node, Path
<1>2. Entered(V, a, a, n) => Len(V[a].path) < Len(V[a].path)
  BY <1>1, PrefixShorter DEF Entered, Place
<1> QED BY <1>1, <1>2

(* A list without its first K entries, of a request that may have given    *)
(* out more, is in order.                                                  *)
Shifted(V, W, r, K) ==
  /\ \A q \in DOMAIN V : W[q].path = V[q].path /\ W[q].parent = V[q].parent
  /\ W[r].given >= V[r].given
  /\ \A k \in DOMAIN W[r].list : /\ k + K \in DOMAIN V[r].list
                                  /\ W[r].list[k] = V[r].list[k + K]

SameEntries(V, W, r, K) ==
  /\ ListOK(W, r)
  /\ \A k \in DOMAIN W[r].list, n \in Nat :
       Has(W, r, W[r].list[k], n) <=> Has(V, r, V[r].list[k + K], n)
  /\ \A q \in DOMAIN V, b \in DOMAIN V, n \in Nat : Entered(W, b, q, n) <=> Entered(V, b, q, n)

(* What is left of a list that was in order is in order, and each entry    *)
(* stands for the place it stood for.                                      *)
LEMMA SameList ==
  ASSUME NEW N \in SUBSET Nat, NEW V \in [N -> Node], NEW W \in [N -> Node], Rooted(V),
         NEW r \in N, ListOK(V, r), NEW K \in Nat, Shifted(V, W, r, K)
  PROVE  SameEntries(V, W, r, K)
<1>0. /\ \A q \in N : W[q].path = V[q].path /\ W[q].parent = V[q].parent
      /\ W[r].given >= V[r].given
      /\ \A k \in DOMAIN W[r].list : /\ k + K \in DOMAIN V[r].list
                                      /\ W[r].list[k] = V[r].list[k + K]
  BY DEF Shifted
<1>1. DOMAIN V = N /\ DOMAIN W = N /\ V[r].given \in Nat /\ W[r].given \in Nat
  BY DEF Node
<1>2. /\ \A q \in N, n \in Nat : Place(W, q, n) = Place(V, q, n) /\ Place(V, q, n) \in Path
      /\ \A q \in N, b \in N : OnPath(W, b, q) <=> OnPath(V, b, q)
      /\ \A q \in N, b \in N, n \in Nat : Entered(W, b, q, n) <=> Entered(V, b, q, n)
      /\ \A q \in N, n \in Nat, e \in Entry :
           e.request \in N \cup {NoReq} => (Has(W, q, e, n) <=> Has(V, q, e, n))
  <2>1. \A q \in N : W[q].path = V[q].path
    BY <1>0
  <2> QED BY <2>1, SameShape, Zenon
<1>3. PICK list, nl \in Seq(Entry) : list = V[r].list /\ nl = W[r].list
  BY DEF Node
<1>4. DOMAIN nl = 1 .. Len(nl) /\ Len(nl) \in Nat
  OBVIOUS
<1>5. ASSUME NEW k \in DOMAIN nl
      PROVE  /\ k \in Nat /\ k + K \in DOMAIN list /\ nl[k] = list[k + K]
             /\ EntryOK(V, r, nl[k])
             /\ \A n \in Nat : Has(W, r, nl[k], n) <=> Has(V, r, list[k + K], n)
  <2>1. PICK l \in Nat : l = k + K /\ l \in DOMAIN V[r].list /\ nl[k] = V[r].list[l]
    BY <1>0, <1>3, <1>4
  <2>2. V[r].list[l] \in Entry /\ V[r].list[l].request \in N \cup {NoReq}
    BY <2>1, InList
  <2>3. EntryOK(V, r, V[r].list[l])
    BY <2>1, Zenon DEF ListOK
  <2>4. k \in Nat
    BY <1>4
  <2> QED BY <1>2, <1>3, <2>1, <2>2, <2>3, <2>4
<1>6. ListOK(W, r)
  <2>1. ASSUME NEW k \in DOMAIN nl PROVE EntryOK(W, r, nl[k])
    <3>1. PICK e : e = nl[k]
      OBVIOUS
    <3>2. EntryOK(V, r, e)
      BY <1>5, <3>1
    <3>3. CASE e.request = NoReq
      <4>1. Pieces(V, r, 0, V[r].given, e.out)
        BY <3>2, <3>3, Zenon DEF EntryOK
      <4>2. V[r].given <= W[r].given /\ \A n \in Nat : Place(W, r, n) = Place(V, r, n)
        BY <1>0, <1>1, <1>2
      <4>3. Pieces(W, r, 0, W[r].given, e.out)
        BY <1>1, <4>1, <4>2, WiderPieces
      <4> QED BY <3>1, <3>3, <4>3, Zenon DEF EntryOK
    <3>4. CASE e.request # NoReq
      <4>1. e.request \in N \ {Main} /\ V[e.request].parent = r
        BY <1>1, <3>2, <3>4, Zenon DEF EntryOK
      <4>2. W[e.request].parent = r
        BY <1>0, <4>1
      <4> QED BY <1>1, <3>1, <3>4, <4>1, <4>2, Zenon DEF EntryOK
    <3> QED BY <3>3, <3>4
  <2>2. ASSUME NEW k \in DOMAIN nl, NEW l \in DOMAIN nl, k < l, NEW m \in Nat, NEW n \in Nat,
               Has(W, r, nl[k], m), Has(W, r, nl[l], n)
        PROVE  m < n
    <3>1. /\ k + K \in DOMAIN list /\ l + K \in DOMAIN list
          /\ Has(V, r, list[k + K], m) /\ Has(V, r, list[l + K], n)
      BY <1>5, <2>2
    <3>2. k + K < l + K
      BY <1>5, <2>2
    <3> QED BY <1>3, <3>1, <3>2 DEF ListOK
  <2>3. ASSUME NEW k \in DOMAIN nl, NEW l \in DOMAIN nl, l = k + 1
        PROVE  nl[k].request # NoReq \/ nl[l].request # NoReq
    <3>1. /\ k + K \in DOMAIN list /\ l + K \in DOMAIN list
          /\ nl[k] = list[k + K] /\ nl[l] = list[l + K]
      BY <1>5
    <3>2. l + K = (k + K) + 1
      BY <1>5, <2>3
    <3> QED BY <1>3, <3>1, <3>2 DEF ListOK
  <2> QED BY <1>3, <2>1, <2>2, <2>3, Zenon DEF ListOK
<1> QED BY <1>1, <1>2, <1>3, <1>5, <1>6 DEF SameEntries

(* The active request sends output of its next places; another one may     *)
(* pass over places of its own.                                            *)
LEMMA Send ==
  ASSUME NEW N \in SUBSET Nat, NEW V \in [N -> Node], NEW W \in [N -> Node], NEW a,
         NEW st \in Seq(Path), Ordered(V, a, st), NEW r \in N,
         \A q \in N : q # r => W[q] = V[q],
         W[r].path = V[r].path, W[r].parent = V[r].parent, W[r].given >= V[r].given,
         W[r].list = V[r].list,
         NEW out \in Seq(Path), Pieces(V, r, V[r].given, W[r].given, out),
         out = <<>> \/ (r = a /\ V[r].list = <<>>)
  PROVE  Ordered(W, a, st \o out)
<1>1. /\ DOMAIN V = N /\ DOMAIN W = N /\ a \in N /\ Rooted(V)
      /\ ListOK(V, r) /\ FirstOK(V, a, r)
  BY DEF Ordered
<1>2. \A q \in N : W[q].path = V[q].path /\ W[q].parent = V[q].parent
  BY Zenon
<1>3. V[r].given \in Nat /\ W[r].given \in Nat /\ V[r].list \in Seq(Entry)
  BY DEF Node
<1>4. /\ ListOK(W, r)
      /\ \A k \in DOMAIN W[r].list, n \in Nat :
           Has(W, r, W[r].list[k], n) <=> Has(V, r, V[r].list[k], n)
      /\ \A n \in Nat : Entered(W, a, r, n) <=> Entered(V, a, r, n)
  <2>1. \A k \in DOMAIN W[r].list : k + 0 = k
    BY <1>3
  <2>2. Shifted(V, W, r, 0)
    BY <1>1, <1>2, <2>1 DEF Shifted
  <2>3. SameEntries(V, W, r, 0)
    BY <1>1, <2>2, SameList
  <2> QED BY <1>1, <2>1, <2>3 DEF SameEntries
<1>5. FirstOK(W, a, r)
  BY <1>1, <1>4 DEF FirstOK
<1>6. ASSUME NEW n \in Nat, Ahead(W, a, r, n) PROVE Ahead(V, a, r, n)
  <2>1. n > W[r].given => n > V[r].given
    BY <1>3
  <2>2. Listed(W, r, n) => Listed(V, r, n)
    BY <1>4 DEF Listed
  <2> QED BY <1>4, <1>6, <2>1, <2>2 DEF Ahead
<1>7. Sorted(out)
  BY DEF Pieces
<1>8. ASSUME NEW j \in DOMAIN out
      PROVE  r = a /\ \E n \in Nat : /\ out[j] = Place(V, a, n) /\ Ahead(V, a, a, n)
                                     /\ \A m \in Nat : Ahead(W, a, a, m) => n < m
  <2>1. r = a /\ W[a].list = <<>>
    BY <1>8
  <2>2. PICK n \in V[r].given + 1 .. W[r].given : out[j] = Place(V, r, n)
    BY DEF Pieces
  <2>3. n \in Nat /\ n > V[a].given /\ n <= W[a].given
    BY <1>3, <2>1, <2>2
  <2>4. ASSUME NEW m \in Nat, Ahead(W, a, a, m) PROVE n < m
    <3>1. m > W[a].given
      BY <2>1, <2>4 DEF Ahead, Listed
    <3> QED BY <1>3, <2>1, <2>3, <3>1
  <2>5. Ahead(V, a, a, n)
    BY <2>3 DEF Ahead
  <2> QED BY <2>1, <2>2, <2>3, <2>4, <2>5
<1> QED BY <1>4, <1>5, <1>6, <1>7, <1>8, Pass

(* The head of a list is taken off: output that is sent by the active      *)
(* request, or a subrequest.                                               *)
LEMMA Drop ==
  ASSUME NEW N \in SUBSET Nat, NEW V \in [N -> Node], NEW W \in [N -> Node], NEW a,
         NEW st \in Seq(Path), Ordered(V, a, st), NEW r \in N,
         \A q \in N : q # r => W[q] = V[q],
         W[r].path = V[r].path, W[r].parent = V[r].parent, W[r].given = V[r].given,
         V[r].list # <<>>, W[r].list = Tail(V[r].list),
         NEW out \in Seq(Path),
         out = <<>> \/ (r = a /\ V[r].list[1] = Out(out))
  PROVE  Ordered(W, a, st \o out)
<1>1. /\ DOMAIN V = N /\ DOMAIN W = N /\ a \in N /\ Rooted(V)
      /\ ListOK(V, r) /\ FirstOK(V, a, r)
  BY DEF Ordered
<1>2. \A q \in N : W[q].path = V[q].path /\ W[q].parent = V[q].parent
  BY Zenon
<1>3. V[r].given \in Nat /\ W[r].given \in Nat /\ V[r].list \in Seq(Entry) /\ V[r].path \in Path
  BY DEF Node
<1>4. 1 \in DOMAIN V[r].list
  BY <1>3, EmptySeq
<1>5. /\ W[r].list \in Seq(Entry)
      /\ \A k \in DOMAIN W[r].list : /\ k \in Nat \ {0} /\ k + 1 \in DOMAIN V[r].list
                                     /\ W[r].list[k] = V[r].list[k + 1]
  <2>1. PICK list \in Seq(Entry) : list = V[r].list /\ list # <<>>
    BY <1>3
  <2>2. /\ Tail(list) \in Seq(Entry) /\ Len(Tail(list)) = Len(list) - 1
        /\ \A k \in 1 .. Len(Tail(list)) : Tail(list)[k] = list[k + 1]
    BY <2>1, HeadTailProperties
  <2>3. DOMAIN Tail(list) = 1 .. Len(Tail(list)) /\ DOMAIN list = 1 .. Len(list) /\ Len(list) \in Nat
    BY <2>1, <2>2, LenProperties
  <2> QED BY <2>1, <2>2, <2>3
<1>6. /\ ListOK(W, r)
      /\ \A k \in DOMAIN W[r].list, n \in Nat :
           Has(W, r, W[r].list[k], n) <=> Has(V, r, V[r].list[k + 1], n)
      /\ \A n \in Nat : Entered(W, a, r, n) <=> Entered(V, a, r, n)
  <2>1. Shifted(V, W, r, 1)
    <3>1. W[r].given >= V[r].given
      BY <1>3
    <3>2. \A k \in DOMAIN W[r].list : /\ k + 1 \in DOMAIN V[r].list
                                     /\ W[r].list[k] = V[r].list[k + 1]
      BY <1>5
    <3> QED BY <1>1, <1>2, <3>1, <3>2, Zenon DEF Shifted
  <2>2. SameEntries(V, W, r, 1)
    BY <1>1, <2>1, SameList
  <2> QED BY <1>1, <2>2 DEF SameEntries
<1>7. FirstOK(W, a, r)
  <2> SUFFICES ASSUME NEW n \in Nat, Entered(W, a, r, n), NEW k \in DOMAIN W[r].list,
                      Has(W, r, W[r].list[k], n)
               PROVE  FALSE
    BY Zenon DEF FirstOK
  <2>1. Entered(V, a, r, n) /\ Has(V, r, V[r].list[k + 1], n) /\ k + 1 \in DOMAIN V[r].list
    BY <1>5, <1>6
  <2>2. k + 1 = 1
    BY <1>1, <2>1 DEF FirstOK
  <2> QED BY <1>5, <2>2
<1>8. ASSUME NEW n \in Nat, Ahead(W, a, r, n) PROVE Ahead(V, a, r, n)
  <2>1. Listed(W, r, n) => Listed(V, r, n)
    BY <1>5, <1>6 DEF Listed
  <2> QED BY <1>6, <1>8, <2>1 DEF Ahead
<1>9. out # <<>> => EntryOK(V, r, Out(out))
  BY <1>1, <1>4 DEF ListOK
<1>10. out # <<>> => Pieces(V, r, 0, V[r].given, out)
  BY <1>9 DEF EntryOK, Out
<1>11. Sorted(out)
  BY <1>10 DEF Pieces, Sorted
<1>12. ASSUME NEW j \in DOMAIN out
       PROVE  r = a /\ \E n \in Nat : /\ out[j] = Place(V, a, n) /\ Ahead(V, a, a, n)
                                      /\ \A m \in Nat : Ahead(W, a, a, m) => n < m
  <2>1. r = a /\ V[r].list[1] = Out(out) /\ out # <<>>
    BY <1>12
  <2>2. PICK n \in 1 .. V[r].given : out[j] = Place(V, r, n)
    BY <1>10, <2>1 DEF Pieces
  <2>3. n \in Nat /\ n <= V[r].given
    BY <1>3, <2>2
  <2>4. Has(V, r, V[r].list[1], n)
    BY <2>1, <2>2 DEF Has, Out
  <2>5. Ahead(V, a, a, n)
    BY <1>1, <1>4, <2>1, <2>3, <2>4, NotOwn DEF Ahead, Listed
  <2>6. ASSUME NEW m \in Nat, Ahead(W, a, a, m) PROVE n < m
    <3>1. CASE m > W[r].given
      BY <1>3, <2>3, <3>1
    <3>2. CASE Listed(W, r, m)
      <4>1. PICK k \in DOMAIN W[r].list : Has(W, r, W[r].list[k], m)
        BY <3>2 DEF Listed
      <4>2. Has(V, r, V[r].list[k + 1], m) /\ k + 1 \in DOMAIN V[r].list /\ 1 < k + 1
        BY <1>5, <1>6, <4>1
      <4> QED BY <1>1, <1>4, <2>3, <2>4, <4>2 DEF ListOK
    <3> QED BY <2>1, <2>6, <3>1, <3>2 DEF Ahead
  <2> QED BY <2>1, <2>2, <2>3, <2>5, <2>6
<1>13. W[r].given >= V[r].given
  BY <1>3
<1> QED BY <1>6, <1>7, <1>8, <1>11, <1>12, <1>13, Pass

-----------------------------------------------------------------------------
(* The state a handler works on, and the order in it: m places of r were   *)
(* given out, all that were made of the other requests.                    *)
Request ==
  [parent : Nat, path : Path, waited : BOOLEAN, done : BOOLEAN,
   write_event_handler : Handlers, postponed : Seq(Entry), left : Seq(Items), in : Seq(Items),
   made : Nat, wait : Nat, buffered : BOOLEAN]

Codes == {"OK", "AGAIN", "ERROR"}
Ends == {"open"} \cup Fates

(* The records a handler works on. *)
Worlds ==
  [rq : Seq(Request), active : Nat, posted : Seq(Nat), count : Int, subrequests : Int,
   stream : Seq(Path), buffered : BOOLEAN, error : BOOLEAN, conn : Ends, rc : Codes,
   slow : BOOLEAN, fail : BOOLEAN]

(* The tree of the requests rs, in which m places of r were given out. *)
View(rs, r, m) ==
  [q \in DOMAIN rs |-> [parent |-> rs[q].parent, path |-> rs[q].path, list |-> rs[q].postponed,
                        given |-> IF q = r THEN m ELSE rs[q].made]]

PostedOK(w) == \A i \in DOMAIN w.posted : w.posted[i] \in DOMAIN w.rq

Good(w, r, m) ==
  /\ w \in Worlds
  /\ r \in DOMAIN w.rq
  /\ m \in Nat
  /\ PostedOK(w)
  /\ Ordered(View(w.rq, r, m), w.active, w.stream)

Fine(w) == Good(w, Main, w.rq[Main].made)

(* The tree of requests is the same. *)
SameTree(rs, rt) ==
  /\ DOMAIN rt = DOMAIN rs
  /\ \A q \in DOMAIN rs : rt[q].path = rs[q].path /\ rt[q].parent = rs[q].parent

SameMade(rs, rt) == SameTree(rs, rt) /\ \A q \in DOMAIN rs : rt[q].made = rs[q].made

(* A tree is seen as nodes, one for each request. *)
LEMMA ViewType ==
  ASSUME NEW rs \in Seq(Request), NEW r, NEW m \in Nat
  PROVE  /\ View(rs, r, m) \in [DOMAIN rs -> Node]
         /\ DOMAIN rs \in SUBSET Nat
         /\ \A q \in DOMAIN rs : /\ View(rs, r, m)[q].parent = rs[q].parent
                                 /\ View(rs, r, m)[q].path = rs[q].path
                                 /\ View(rs, r, m)[q].list = rs[q].postponed
                                 /\ View(rs, r, m)[q].given = IF q = r THEN m ELSE rs[q].made
<1>1. \A q \in DOMAIN rs : rs[q] \in Request
  OBVIOUS
<1>2. \A q \in DOMAIN rs : /\ rs[q].parent \in Nat /\ rs[q].path \in Path
                           /\ rs[q].postponed \in Seq(Entry) /\ rs[q].made \in Nat
  BY <1>1 DEF Request
<1>3. DOMAIN rs \in SUBSET Nat
  OBVIOUS
<1>4. View(rs, r, m) \in [DOMAIN rs -> Node]
  BY <1>2 DEF View, Node
<1> QED BY <1>3, <1>4 DEF View

(* What the order does not depend on. *)
LEMMA ViewSame ==
  ASSUME NEW rs, NEW rt, NEW r, NEW m, NEW q, NEW n, DOMAIN rt = DOMAIN rs,
         \A x \in DOMAIN rs : /\ rt[x].path = rs[x].path /\ rt[x].parent = rs[x].parent
                              /\ rt[x].postponed = rs[x].postponed
                              /\ (IF x = q THEN n ELSE rt[x].made) = IF x = r THEN m ELSE rs[x].made
  PROVE  View(rt, q, n) = View(rs, r, m)
BY DEF View

(* What the handlers change besides the tree, the lists, the active        *)
(* request and the response leaves the order as it is.                     *)
LEMMA Minor ==
  ASSUME NEW w, NEW r, NEW m, Good(w, r, m), NEW v \in Worlds, SameMade(w.rq, v.rq),
         \A q \in DOMAIN w.rq : v.rq[q].postponed = w.rq[q].postponed,
         v.active = w.active, v.stream = w.stream, PostedOK(v)
  PROVE  Good(v, r, m)
<1>1. View(v.rq, r, m) = View(w.rq, r, m)
  BY ViewSame DEF SameMade, SameTree
<1>2. r \in DOMAIN v.rq
  BY DEF Good, SameMade, SameTree
<1> QED BY <1>1, <1>2 DEF Good

(* A request that has given out all it made is like the others. *)
LEMMA AnyRequest ==
  ASSUME NEW w, NEW r, Good(w, r, w.rq[r].made), NEW q \in DOMAIN w.rq
  PROVE  Good(w, q, w.rq[q].made)
<1>1. View(w.rq, q, w.rq[q].made) = View(w.rq, r, w.rq[r].made)
  BY ViewSame
<1>2. w.rq[q].made \in Nat
  <2>1. w.rq[q] \in Request
    BY DEF Good, Worlds
  <2> QED BY <2>1 DEF Request
<1> QED BY <1>1, <1>2 DEF Good

(* What is known of a good state. *)
LEMMA GoodType ==
  ASSUME NEW w, NEW r, NEW m, Good(w, r, m)
  PROVE  /\ w \in Worlds /\ w.rq \in Seq(Request) /\ w.posted \in Seq(Nat)
         /\ w.stream \in Seq(Path) /\ w.count \in Int /\ w.subrequests \in Int
         /\ w.error \in BOOLEAN /\ w.buffered \in BOOLEAN /\ w.conn \in Ends /\ w.rc \in Codes
         /\ w.slow \in BOOLEAN /\ w.fail \in BOOLEAN
         /\ w.active \in DOMAIN w.rq /\ Main \in DOMAIN w.rq
         /\ r \in DOMAIN w.rq /\ m \in Nat /\ PostedOK(w)
         /\ \A q \in DOMAIN w.rq : w.rq[q] \in Request
         /\ \A q \in DOMAIN w.rq \ {Main} : w.rq[q].parent \in DOMAIN w.rq
<1>1. w \in Worlds /\ w.rq \in Seq(Request) /\ r \in DOMAIN w.rq /\ m \in Nat /\ PostedOK(w)
  BY DEF Good, Worlds
<1>2. /\ w.posted \in Seq(Nat) /\ w.stream \in Seq(Path) /\ w.count \in Int
      /\ w.subrequests \in Int /\ w.error \in BOOLEAN /\ w.buffered \in BOOLEAN
      /\ w.conn \in Ends /\ w.rc \in Codes /\ w.slow \in BOOLEAN /\ w.fail \in BOOLEAN
  BY <1>1 DEF Worlds
<1>3. PICK V : V = View(w.rq, r, m)
  OBVIOUS
<1>4. /\ DOMAIN V = DOMAIN w.rq
      /\ \A q \in DOMAIN w.rq : V[q].parent = w.rq[q].parent
  BY <1>3 DEF View
<1>5. w.active \in DOMAIN V /\ Rooted(V)
  BY <1>3 DEF Good, Ordered
<1>6. Main \in DOMAIN w.rq /\ \A q \in DOMAIN w.rq \ {Main} : w.rq[q].parent \in DOMAIN w.rq
  BY <1>4, <1>5 DEF Rooted
<1>7. \A q \in DOMAIN w.rq : w.rq[q] \in Request
  BY <1>1
<1> QED BY <1>1, <1>2, <1>4, <1>5, <1>6, <1>7

(* A field of one request is set. *)
LEMMA SetRequest ==
  ASSUME NEW rs \in Seq(Request), NEW r \in DOMAIN rs, NEW x \in Request
  PROVE  /\ [rs EXCEPT ![r] = x] \in Seq(Request)
         /\ DOMAIN [rs EXCEPT ![r] = x] = DOMAIN rs
         /\ [rs EXCEPT ![r] = x][r] = x
         /\ \A q \in DOMAIN rs : q # r => [rs EXCEPT ![r] = x][q] = rs[q]
<1>1. DOMAIN rs = 1 .. Len(rs)
  OBVIOUS
<1> QED BY <1>1, ExceptSeq

(* What is posted is a request. *)
LEMMA PostOK ==
  ASSUME NEW p \in Seq(Nat), NEW D \in SUBSET Nat, \A i \in DOMAIN p : p[i] \in D, NEW r \in D
  PROVE  Append(p, r) \in Seq(Nat) /\ \A i \in DOMAIN Append(p, r) : Append(p, r)[i] \in D
<1>1. r \in Nat /\ Len(p) \in Nat /\ DOMAIN p = 1 .. Len(p)
  OBVIOUS
<1>2. /\ Append(p, r) \in Seq(Nat) /\ Len(Append(p, r)) = Len(p) + 1
      /\ \A i \in 1 .. Len(p) : Append(p, r)[i] = p[i]
      /\ Append(p, r)[Len(p) + 1] = r
  BY <1>1, AppendProperties
<1>3. DOMAIN Append(p, r) = 1 .. Len(p) + 1
  BY <1>2, LenProperties
<1>4. ASSUME NEW i \in DOMAIN Append(p, r) PROVE Append(p, r)[i] \in D
  <2>1. i \in 1 .. Len(p) \/ i = Len(p) + 1
    BY <1>1, <1>3
  <2> QED BY <1>1, <1>2, <2>1
<1> QED BY <1>2, <1>4

(* One request changes, in what it has given out or in its list.           *)
OnlyOne(rs, rt, r) ==
  /\ SameTree(rs, rt)
  /\ \A q \in DOMAIN rs \ {r} : rt[q].postponed = rs[q].postponed /\ rt[q].made = rs[q].made

(* The same, seen in the tree. *)
Updated(rs, rt, r, m, n, V, W) ==
  /\ DOMAIN rs \in SUBSET Nat
  /\ V \in [DOMAIN rs -> Node] /\ W \in [DOMAIN rs -> Node]
  /\ \A q \in DOMAIN rs : q # r => W[q] = V[q]
  /\ W[r].path = V[r].path /\ W[r].parent = V[r].parent
  /\ V[r].list = rs[r].postponed /\ W[r].list = rt[r].postponed
  /\ V[r].given = m /\ W[r].given = n

(* When one request changes, one node of the tree does. *)
LEMMA ViewUpdate ==
  ASSUME NEW rs \in Seq(Request), NEW rt \in Seq(Request), NEW r \in DOMAIN rs, OnlyOne(rs, rt, r),
         NEW m \in Nat, NEW n \in Nat, NEW V, V = View(rs, r, m), NEW W, W = View(rt, r, n)
  PROVE  Updated(rs, rt, r, m, n, V, W)
<1>1. DOMAIN rt = DOMAIN rs
  BY DEF OnlyOne, SameTree
<1>2. V \in [DOMAIN rs -> Node] /\ DOMAIN rs \in SUBSET Nat
  BY ViewType
<1>3. W \in [DOMAIN rs -> Node]
  BY <1>1, ViewType
<1>4. ASSUME NEW q \in DOMAIN rs, q # r PROVE W[q] = V[q]
  BY <1>1, <1>4 DEF View, OnlyOne, SameTree
<1>5. /\ W[r].path = V[r].path /\ W[r].parent = V[r].parent
      /\ V[r].list = rs[r].postponed /\ W[r].list = rt[r].postponed
      /\ V[r].given = m /\ W[r].given = n
  BY <1>1 DEF View, OnlyOne, SameTree
<1> QED BY <1>2, <1>3, <1>4, <1>5 DEF Updated

(* The steps of the tree, on the state of a handler. *)

(* A step that sends output of r, or only reads on in its page, is a step  *)
(* Send of the tree.                                                       *)
LEMMA SendStep ==
  ASSUME NEW w, NEW r, NEW m, Good(w, r, m), NEW v \in Worlds, OnlyOne(w.rq, v.rq, r),
         v.rq[r].postponed = w.rq[r].postponed, v.active = w.active, PostedOK(v),
         NEW n \in Nat, m <= n, NEW out \in Seq(Path), Pieces(View(w.rq, r, m), r, m, n, out),
         out = <<>> \/ (r = w.active /\ w.rq[r].postponed = <<>>),
         v.stream = w.stream \o out
  PROVE  Good(v, r, n)
<1>1. PICK V, W : V = View(w.rq, r, m) /\ W = View(v.rq, r, n)
  OBVIOUS
<1>2. /\ r \in DOMAIN w.rq /\ m \in Nat /\ w.stream \in Seq(Path)
      /\ w.rq \in Seq(Request) /\ v.rq \in Seq(Request) /\ Ordered(V, w.active, w.stream)
  BY <1>1 DEF Good, Worlds
<1>0. Updated(w.rq, v.rq, r, m, n, V, W)
  BY <1>1, <1>2, ViewUpdate
<1>3. /\ DOMAIN w.rq \in SUBSET Nat
      /\ V \in [DOMAIN w.rq -> Node] /\ W \in [DOMAIN w.rq -> Node]
      /\ \A q \in DOMAIN w.rq : q # r => W[q] = V[q]
      /\ W[r].path = V[r].path /\ W[r].parent = V[r].parent
      /\ V[r].list = w.rq[r].postponed /\ W[r].list = v.rq[r].postponed
      /\ V[r].given = m /\ W[r].given = n
  BY <1>0 DEF Updated
<1>4. /\ W[r].given >= V[r].given /\ W[r].list = V[r].list
      /\ Pieces(V, r, V[r].given, W[r].given, out)
      /\ out = <<>> \/ (r = w.active /\ V[r].list = <<>>)
  BY <1>1, <1>2, <1>3
<1>5. Ordered(W, w.active, w.stream \o out)
  BY <1>2, <1>3, <1>4, Send
<1>6. r \in DOMAIN v.rq
  BY <1>2 DEF OnlyOne, SameTree
<1> QED BY <1>1, <1>2, <1>5, <1>6 DEF Good

(* A step that puts output at the end of the list of r is a step Defer of  *)
(* the tree.                                                               *)
LEMMA DeferStep ==
  ASSUME NEW w, NEW r, NEW m, Good(w, r, m), NEW v \in Worlds, OnlyOne(w.rq, v.rq, r),
         NEW n \in Nat, m <= n, NEW out \in Seq(Path), Pieces(View(w.rq, r, m), r, m, n, out),
         v.rq[r].postponed = AddOut(w.rq[r].postponed, out),
         v.active = w.active, v.stream = w.stream, PostedOK(v)
  PROVE  Good(v, r, n)
<1>1. PICK V, W : V = View(w.rq, r, m) /\ W = View(v.rq, r, n)
  OBVIOUS
<1>2. /\ r \in DOMAIN w.rq /\ m \in Nat /\ w.stream \in Seq(Path)
      /\ w.rq \in Seq(Request) /\ v.rq \in Seq(Request) /\ Ordered(V, w.active, w.stream)
  BY <1>1 DEF Good, Worlds
<1>0. Updated(w.rq, v.rq, r, m, n, V, W)
  BY <1>1, <1>2, ViewUpdate
<1>3. /\ DOMAIN w.rq \in SUBSET Nat
      /\ V \in [DOMAIN w.rq -> Node] /\ W \in [DOMAIN w.rq -> Node]
      /\ \A q \in DOMAIN w.rq : q # r => W[q] = V[q]
      /\ W[r].path = V[r].path /\ W[r].parent = V[r].parent
      /\ V[r].list = w.rq[r].postponed /\ W[r].list = v.rq[r].postponed
      /\ V[r].given = m /\ W[r].given = n
  BY <1>0 DEF Updated
<1>4. /\ W[r].given >= V[r].given /\ W[r].list = AddOut(V[r].list, out)
      /\ Pieces(V, r, V[r].given, W[r].given, out)
  BY <1>1, <1>2, <1>3
<1>5. Ordered(W, w.active, w.stream)
  BY <1>2, <1>3, <1>4, Defer
<1>6. r \in DOMAIN v.rq
  BY <1>2 DEF OnlyOne, SameTree
<1> QED BY <1>1, <1>2, <1>5, <1>6 DEF Good

(* A step that takes the first entry off the list of r, and sends it when  *)
(* it is output of the active request, is a step Drop of the tree.         *)
LEMMA DropStep ==
  ASSUME NEW w, NEW r, NEW m, Good(w, r, m), NEW v \in Worlds, OnlyOne(w.rq, v.rq, r),
         w.rq[r].postponed # <<>>, v.rq[r].postponed = Tail(w.rq[r].postponed),
         NEW out \in Seq(Path),
         out = <<>> \/ (r = w.active /\ w.rq[r].postponed[1] = Out(out)),
         v.active = w.active, v.stream = w.stream \o out, PostedOK(v)
  PROVE  Good(v, r, m)
<1>1. PICK V, W : V = View(w.rq, r, m) /\ W = View(v.rq, r, m)
  OBVIOUS
<1>2. /\ r \in DOMAIN w.rq /\ m \in Nat /\ w.stream \in Seq(Path)
      /\ w.rq \in Seq(Request) /\ v.rq \in Seq(Request) /\ Ordered(V, w.active, w.stream)
  BY <1>1 DEF Good, Worlds
<1>0. Updated(w.rq, v.rq, r, m, m, V, W)
  BY <1>1, <1>2, ViewUpdate
<1>3. /\ DOMAIN w.rq \in SUBSET Nat
      /\ V \in [DOMAIN w.rq -> Node] /\ W \in [DOMAIN w.rq -> Node]
      /\ \A q \in DOMAIN w.rq : q # r => W[q] = V[q]
      /\ W[r].path = V[r].path /\ W[r].parent = V[r].parent
      /\ V[r].list = w.rq[r].postponed /\ W[r].list = v.rq[r].postponed
      /\ V[r].given = m /\ W[r].given = m
  BY <1>0 DEF Updated
<1>4. /\ W[r].given = V[r].given /\ V[r].list # <<>> /\ W[r].list = Tail(V[r].list)
      /\ out = <<>> \/ (r = w.active /\ V[r].list[1] = Out(out))
  BY <1>1, <1>2, <1>3
<1>5. Ordered(W, w.active, w.stream \o out)
  BY <1>2, <1>3, <1>4, Drop
<1>6. r \in DOMAIN v.rq
  BY <1>2 DEF OnlyOne, SameTree
<1> QED BY <1>1, <1>2, <1>5, <1>6 DEF Good

(* A step that makes the subrequest at the head of the list of the active  *)
(* request the active one is a step Enter of the tree.                     *)
LEMMA EnterStep ==
  ASSUME NEW w, NEW r, NEW m, Good(w, r, m), NEW c, c = w.active,
         w.rq[c].postponed # <<>>, w.rq[c].postponed[1].request # NoReq,
         NEW v \in Worlds, v.rq = w.rq, v.active = w.rq[c].postponed[1].request,
         v.stream = w.stream, PostedOK(v)
  PROVE  v.active \in DOMAIN w.rq /\ Good(v, r, m)
<1>1. PICK V : V = View(w.rq, r, m)
  OBVIOUS
<1>2. /\ r \in DOMAIN w.rq /\ m \in Nat /\ w.stream \in Seq(Path)
      /\ w.rq \in Seq(Request) /\ Ordered(V, w.active, w.stream)
  BY <1>1 DEF Good, Worlds
<1>3. c \in DOMAIN w.rq
  BY GoodType
<1>4. /\ V \in [DOMAIN w.rq -> Node] /\ DOMAIN w.rq \in SUBSET Nat
      /\ V[c].list = w.rq[c].postponed
  BY <1>1, <1>2, <1>3, ViewType
<1>5. v.active \in DOMAIN w.rq \ {Main} /\ Ordered(V, v.active, w.stream)
  <2>1. V[c].list # <<>> /\ V[c].list[1].request # NoReq /\ v.active = V[c].list[1].request
    BY <1>4
  <2>2. PICK N \in SUBSET Nat : N = DOMAIN w.rq
    BY <1>4
  <2>3. V \in [N -> Node] /\ Ordered(V, c, w.stream) /\ w.stream \in Seq(Path)
    BY <1>2, <1>4, <2>2
  <2>4. V[c].list[1].request \in N \ {Main} /\ Ordered(V, V[c].list[1].request, w.stream)
    BY <2>1, <2>3, Enter
  <2> QED BY <2>1, <2>2, <2>4
<1> QED BY <1>1, <1>2, <1>5 DEF Good

(* A step that gives the turn back to the parent of the active request, in *)
(* whose list it no longer is, is a step Leave of the tree.                *)
LEMMA LeaveStep ==
  ASSUME NEW w, NEW r, NEW m, Good(w, r, m), NEW c, c = w.active, c # Main,
         \A k \in DOMAIN w.rq[w.rq[c].parent].postponed :
           w.rq[w.rq[c].parent].postponed[k].request # c,
         NEW v \in Worlds, v.rq = w.rq, v.active = w.rq[c].parent,
         v.stream = w.stream, PostedOK(v)
  PROVE  v.active \in DOMAIN w.rq /\ Good(v, r, m)
<1>1. PICK V : V = View(w.rq, r, m)
  OBVIOUS
<1>2. /\ r \in DOMAIN w.rq /\ m \in Nat /\ w.stream \in Seq(Path)
      /\ w.rq \in Seq(Request) /\ Ordered(V, w.active, w.stream)
  BY <1>1 DEF Good, Worlds
<1>3. c \in DOMAIN w.rq /\ w.rq[c].parent \in DOMAIN w.rq
  BY GoodType
<1>4. /\ V \in [DOMAIN w.rq -> Node] /\ DOMAIN w.rq \in SUBSET Nat
      /\ V[c].parent = w.rq[c].parent
      /\ V[w.rq[c].parent].list = w.rq[w.rq[c].parent].postponed
  BY <1>1, <1>2, <1>3, ViewType
<1>5. \A k \in DOMAIN V[V[c].parent].list : V[V[c].parent].list[k].request # c
  BY <1>4
<1>6. V[c].parent \in DOMAIN w.rq /\ Ordered(V, V[c].parent, w.stream)
  BY <1>2, <1>4, <1>5, Leave
<1> QED BY <1>1, <1>2, <1>4, <1>6 DEF Good

(* The step of ngx_http_subrequest on the tree: x is the new request, y    *)
(* its parent r afterwards.                                                *)
Grown(w, v, r, n, x, y) ==
  /\ x \in Request /\ x.path = Append(w.rq[r].path, n) /\ x.parent = r /\ x.postponed = <<>>
  /\ y \in Request /\ y.path = w.rq[r].path /\ y.parent = w.rq[r].parent
  /\ y.postponed = Append(w.rq[r].postponed, Sub(Len(w.rq) + 1))
  /\ v \in Worlds /\ v.rq = Append([w.rq EXCEPT ![r] = y], x)
  /\ v.active = w.active /\ v.stream = w.stream /\ PostedOK(v)

(* A step that makes a request at the place n of r, at the end of its      *)
(* list, is a step Grow of the tree.                                       *)
LEMMA GrowStep ==
  ASSUME NEW w, NEW r, NEW m, Good(w, r, m), NEW n \in Nat, n > m,
         NEW x, NEW y, NEW v, Grown(w, v, r, n, x, y)
  PROVE  /\ Good(v, r, n) /\ DOMAIN v.rq = DOMAIN w.rq \cup {Len(w.rq) + 1}
         /\ v.rq[r] = y /\ v.rq[Len(w.rq) + 1] = x
         /\ \A q \in DOMAIN w.rq : q # r => v.rq[q] = w.rq[q]
<1> SUFFICES ASSUME x \in Request, x.path = Append(w.rq[r].path, n), x.parent = r,
                    x.postponed = <<>>, y \in Request, y.path = w.rq[r].path,
                    y.parent = w.rq[r].parent,
                    y.postponed = Append(w.rq[r].postponed, Sub(Len(w.rq) + 1)),
                    v \in Worlds, v.rq = Append([w.rq EXCEPT ![r] = y], x),
                    v.active = w.active, v.stream = w.stream, PostedOK(v)
             PROVE  /\ Good(v, r, n) /\ DOMAIN v.rq = DOMAIN w.rq \cup {Len(w.rq) + 1}
                    /\ v.rq[r] = y /\ v.rq[Len(w.rq) + 1] = x
                    /\ \A q \in DOMAIN w.rq : q # r => v.rq[q] = w.rq[q]
  BY DEF Grown
<1>1. PICK V, W : V = View(w.rq, r, m) /\ W = View(v.rq, r, n)
  OBVIOUS
<1>2. /\ r \in DOMAIN w.rq /\ m \in Nat /\ w.stream \in Seq(Path)
      /\ w.rq \in Seq(Request) /\ v.rq \in Seq(Request) /\ Ordered(V, w.active, w.stream)
  BY <1>1 DEF Good, Worlds
<1>3. PICK s \in Nat : s = Len(w.rq) + 1
  BY <1>2
<1>4. PICK rs \in Seq(Request) : rs = [w.rq EXCEPT ![r] = y]
  BY <1>2, SetRequest
<1>5. /\ DOMAIN rs = DOMAIN w.rq /\ rs[r] = y
      /\ \A q \in DOMAIN w.rq : q # r => rs[q] = w.rq[q]
  BY <1>2, <1>4, SetRequest
<1>6. DOMAIN w.rq = 1 .. s - 1 /\ DOMAIN rs = 1 .. Len(rs) /\ Len(rs) \in Nat /\ Len(w.rq) \in Nat
  BY <1>2, <1>3, <1>4
<1>7. Len(rs) = s - 1
  BY <1>3, <1>5, <1>6
<1>8. /\ Len(v.rq) = s /\ v.rq[s] = x
      /\ \A q \in 1 .. s - 1 : v.rq[q] = rs[q]
  <2>1. /\ Len(v.rq) = Len(rs) + 1
        /\ \A i \in 1 .. Len(rs) : v.rq[i] = rs[i]
        /\ v.rq[Len(rs) + 1] = x
    BY <1>4, AppendProperties
  <2> QED BY <1>3, <1>7, <2>1
<1>9. /\ DOMAIN v.rq = DOMAIN w.rq \cup {s} /\ s \notin DOMAIN w.rq /\ s # NoReq
      /\ v.rq[r] = y /\ \A q \in DOMAIN w.rq : q # r => v.rq[q] = w.rq[q]
  <2>1. DOMAIN v.rq = 1 .. s
    BY <1>2, <1>8
  <2> QED BY <1>2, <1>3, <1>5, <1>6, <1>8, <2>1 DEF NoReq
<1>10. /\ V \in [DOMAIN w.rq -> Node] /\ DOMAIN w.rq \in SUBSET Nat
       /\ V[r].path = w.rq[r].path /\ V[r].parent = w.rq[r].parent
       /\ V[r].list = w.rq[r].postponed /\ V[r].given = m
  BY <1>1, <1>2, ViewType
<1>11. W \in [DOMAIN w.rq \cup {s} -> Node]
  BY <1>1, <1>2, <1>9, ViewType
<1>12. \A q \in DOMAIN w.rq : q # r => W[q] = V[q]
  BY <1>1, <1>9 DEF View
<1>13. /\ W[r].path = y.path /\ W[r].parent = y.parent /\ W[r].list = y.postponed /\ W[r].given = n
       /\ W[s].path = x.path /\ W[s].parent = x.parent /\ W[s].list = x.postponed
  <2>1. s \in DOMAIN v.rq /\ r \in DOMAIN v.rq /\ v.rq[s] = x /\ v.rq[r] = y
    BY <1>2, <1>8, <1>9
  <2> QED BY <1>1, <2>1 DEF View
<1>14. Ordered(W, w.active, w.stream)
  <2>1. s \in Nat \ DOMAIN w.rq /\ n > V[r].given /\ W[s].path = Place(V, r, n)
    BY <1>3, <1>9, <1>10, <1>13 DEF Place
  <2>2. /\ W[r].path = V[r].path /\ W[r].parent = V[r].parent
        /\ W[r].list = Append(V[r].list, Sub(s)) /\ W[s].parent = r /\ W[s].list = <<>>
    BY <1>3, <1>10, <1>13
  <2> QED BY <1>2, <1>9, <1>10, <1>11, <1>12, <1>13, <2>1, <2>2, Grow
<1>15. Good(v, r, n)
  BY <1>1, <1>2, <1>9, <1>14 DEF Good
<1> QED BY <1>3, <1>8, <1>9, <1>15

(* ngx_http_write_filter passes on all it gets, or nothing. *)
Wrote(w, v, pieces) ==
  /\ v \in Worlds
  /\ v.rq = w.rq /\ v.active = w.active /\ v.posted = w.posted
  /\ IF v.rc = "ERROR" THEN v.stream = w.stream ELSE v.stream = w.stream \o pieces

(* ngx_http_write_filter adds what it is given to the response, or fails   *)
(* and adds nothing.                                                       *)
LEMMA WriteFilterOK ==
  ASSUME NEW w \in Worlds, NEW pieces \in Seq(Path)
  PROVE  Wrote(w, WriteFilter(w, pieces), pieces)
<1>1. w.stream \o pieces \in Seq(Path) /\ w.slow \in BOOLEAN
  BY DEF Worlds
<1> QED BY <1>1 DEF Worlds, WriteFilter, Wrote, Codes

(* The list of a request is set, and nothing else. *)
SetList(w, r, list) == [w EXCEPT !.rq[r].postponed = list]

ListSet(w, v, r, list) ==
  /\ v \in Worlds
  /\ OnlyOne(w.rq, v.rq, r)
  /\ SameMade(w.rq, v.rq)
  /\ v.rq[r].postponed = list
  /\ v.active = w.active /\ v.posted = w.posted /\ v.stream = w.stream
  /\ v.rc = w.rc /\ v.buffered = w.buffered

(* Setting the list of a request changes nothing else. *)
LEMMA SetListOK ==
  ASSUME NEW w \in Worlds, NEW r \in DOMAIN w.rq, NEW list \in Seq(Entry)
  PROVE  ListSet(w, SetList(w, r, list), r, list)
<1>1. w.rq \in Seq(Request) /\ w.rq[r] \in Request
  BY DEF Worlds
<1>2. PICK x : x = [w.rq[r] EXCEPT !.postponed = list]
  OBVIOUS
<1>3. /\ x \in Request /\ x.postponed = list /\ x.path = w.rq[r].path
      /\ x.parent = w.rq[r].parent /\ x.made = w.rq[r].made
  BY <1>1, <1>2 DEF Request
<1>4. PICK rs : rs = [w.rq EXCEPT ![r] = x]
  OBVIOUS
<1>5. /\ rs \in Seq(Request) /\ DOMAIN rs = DOMAIN w.rq /\ rs[r] = x
      /\ \A q \in DOMAIN w.rq : q # r => rs[q] = w.rq[q]
  BY <1>1, <1>3, <1>4, SetRequest
<1>6. SetList(w, r, list) = [w EXCEPT !.rq = rs]
  BY <1>2, <1>4 DEF SetList
<1>7. /\ [w EXCEPT !.rq = rs] \in Worlds /\ [w EXCEPT !.rq = rs].rq = rs
      /\ [w EXCEPT !.rq = rs].active = w.active /\ [w EXCEPT !.rq = rs].posted = w.posted
      /\ [w EXCEPT !.rq = rs].stream = w.stream /\ [w EXCEPT !.rq = rs].rc = w.rc
      /\ [w EXCEPT !.rq = rs].buffered = w.buffered
  BY <1>5 DEF Worlds
<1>8. OnlyOne(w.rq, rs, r) /\ SameMade(w.rq, rs)
  BY <1>3, <1>5 DEF OnlyOne, SameMade, SameTree
<1> QED BY <1>3, <1>5, <1>6, <1>7, <1>8 DEF ListSet

(* The last list set counts. *)
LEMMA SetListTwice ==
  ASSUME NEW w \in Worlds, NEW r \in DOMAIN w.rq, NEW l, NEW k
  PROVE  SetList(SetList(w, r, l), r, k) = SetList(w, r, k)
<1>1. w.rq \in Seq(Request) /\ w.rq[r] \in Request
  BY DEF Worlds
<1>2. PICK x, y : x = [w.rq[r] EXCEPT !.postponed = l] /\ y = [w.rq[r] EXCEPT !.postponed = k]
  OBVIOUS
<1>3. [x EXCEPT !.postponed = k] = y
  BY <1>1, <1>2 DEF Request
<1>4. PICK rs, rt : rs = [w.rq EXCEPT ![r] = x] /\ rt = [w.rq EXCEPT ![r] = y]
  OBVIOUS
<1>5. rs[r] = x /\ [rs EXCEPT ![r] = y] = rt
  BY <1>1, <1>4
<1>6. PICK u, v : u = [w EXCEPT !.rq = rs] /\ v = [w EXCEPT !.rq = rt]
  OBVIOUS
<1>7. u.rq = rs /\ [u EXCEPT !.rq = rt] = v
  BY <1>6 DEF Worlds
<1>8. SetList(w, r, l) = u /\ SetList(w, r, k) = v
  BY <1>2, <1>4, <1>6 DEF SetList
<1>9. SetList(u, r, k) = [u EXCEPT !.rq = [rs EXCEPT ![r] = [x EXCEPT !.postponed = k]]]
  BY <1>5, <1>7 DEF SetList
<1> QED BY <1>3, <1>5, <1>7, <1>8, <1>9

(* Putting one sequence together is that sequence. *)
LEMMA FlattenOne ==
  ASSUME NEW S, NEW s \in Seq(S)
  PROVE  FlattenSeq([k \in 1 .. 1 |-> s]) = s
<1> DEFINE q == [k \in 1 .. 1 |-> s]
           N == Len(q)
           P(f) == f = [i \in 1 .. N |-> IF i = 1 THEN q[i] ELSE f[i - 1] \o q[i]]
           flatten[i \in 1 .. N] == IF i = 1 THEN q[i] ELSE flatten[i - 1] \o q[i]
           h == [i \in 1 .. 1 |-> s]
<1>1. q \in Seq(Seq(S)) /\ Len(q) = 1 /\ q[1] = s
  <2>1. q \in [1 .. 1 -> Seq(S)]
    OBVIOUS
  <2> QED BY <2>1, SeqDef, LenProperties
<1>2. P(h)
  <2>1. 1 .. N = 1 .. 1
    BY <1>1
  <2>2. \A i \in 1 .. N : (IF i = 1 THEN q[i] ELSE h[i - 1] \o q[i]) = s
    BY <1>1
  <2>3. h = [i \in 1 .. N |-> s]
    BY <2>1
  <2> HIDE DEF h, N, q
  <2> QED BY <2>2, <2>3
<1>3. flatten = CHOOSE x : P(x)
  BY Zenon
<1>4. P(CHOOSE x : P(x))
  <2> HIDE DEF P
  <2> QED BY <1>2, Zenon
<1>5. FlattenSeq(q) = flatten[N]
  <2>1. Len(q) # 0
    BY <1>1
  <2> QED BY <2>1, Zenon DEF FlattenSeq
<1> HIDE DEF flatten
<1>6. P(flatten)
  BY ZenonT(40), <1>3, <1>4
<1>7. 1 \in 1 .. N /\ N = 1
  BY <1>1
<1>8. flatten[1] = q[1]
  BY <1>6, <1>7
<1> QED BY <1>1, <1>5, <1>7, <1>8

(* The rest of a list after its first entries. *)
LEMMA RestOfList ==
  ASSUME NEW S, NEW list \in Seq(S), list # <<>>
  PROVE  /\ Tail(list) \in Seq(S) /\ Len(Tail(list)) = Len(list) - 1
         /\ SubSeq(list, 2, Len(list)) = Tail(list)
         /\ Len(list) = 1 => Tail(list) = <<>> /\ SubSeq(list, 3, Len(list)) = <<>>
         /\ Len(list) # 1 => /\ Tail(list) # <<>> /\ Tail(list)[1] = list[2]
                             /\ SubSeq(list, 3, Len(list)) = Tail(Tail(list))
<1>1. Len(list) \in Nat /\ Len(list) # 0 /\ \A k \in 1 .. Len(list) : list[k] \in S
  BY EmptySeq, ElementOfSeq
<1>2. /\ Tail(list) \in Seq(S) /\ Len(Tail(list)) = Len(list) - 1
      /\ \A k \in 1 .. Len(list) - 1 : Tail(list)[k] = list[k + 1]
  BY <1>1, HeadTailProperties
<1>3. PICK n \in Nat : n = Len(list)
  BY <1>1
<1>4. SubSeq(list, 2, n) = Tail(list)
  <2>1. \A k \in 2 .. n : list[k] \in S
    BY <1>1, <1>3
  <2>2. /\ SubSeq(list, 2, n) \in Seq(S)
        /\ Len(SubSeq(list, 2, n)) = IF 2 <= n THEN n - 2 + 1 ELSE 0
        /\ \A k \in 1 .. n - 2 + 1 : SubSeq(list, 2, n)[k] = list[2 + k - 1]
    BY <2>1, SubSeqProperties
  <2>3. Len(SubSeq(list, 2, n)) = n - 1 /\ Len(Tail(list)) = n - 1
    BY <1>1, <1>2, <1>3, <2>2
  <2>4. \A k \in 1 .. n - 1 : SubSeq(list, 2, n)[k] = Tail(list)[k]
    BY <1>2, <1>3, <2>2
  <2> QED BY <1>2, <2>2, <2>3, <2>4, SeqEqual
<1>5. CASE n = 1
  <2>0. Tail(list) \in Seq(S) /\ Len(Tail(list)) = 0
    BY <1>2, <1>3, <1>5
  <2>1. Tail(list) = <<>>
    BY <2>0, EmptySeq
  <2>2. SubSeq(list, 3, n) \in Seq(S) /\ Len(SubSeq(list, 3, n)) = 0
    <3>1. \A k \in 3 .. n : list[k] \in S
      BY <1>5
    <3> QED BY <1>5, <3>1, SubSeqProperties
  <2>3. SubSeq(list, 3, n) = <<>>
    BY <2>2, EmptySeq
  <2> QED BY <1>2, <1>3, <1>4, <1>5, <2>1, <2>3
<1>6. CASE n # 1
  <2>1. PICK t \in Seq(S) : t = Tail(list)
    BY <1>2
  <2>2. Len(t) = n - 1 /\ n - 1 \in Nat /\ n - 1 # 0
    BY <1>1, <1>2, <1>3, <1>6, <2>1
  <2>3. t # <<>>
    BY <2>2
  <2>4. t[1] = list[2]
    <3>1. 1 \in 1 .. Len(list) - 1 /\ 1 + 1 = 2
      BY <1>1, <1>3, <1>6
    <3> QED BY <1>2, <2>1, <3>1
  <2>5. /\ Tail(t) \in Seq(S) /\ Len(Tail(t)) = n - 2
        /\ \A k \in 1 .. n - 2 : Tail(t)[k] = t[k + 1]
    <3>1. /\ Tail(t) \in Seq(S) /\ Len(Tail(t)) = Len(t) - 1
          /\ \A k \in 1 .. Len(t) - 1 : Tail(t)[k] = t[k + 1]
      BY <2>3, HeadTailProperties
    <3>2. Len(t) - 1 = n - 2
      BY <2>2
    <3> QED BY <3>1, <3>2
  <2>6. SubSeq(list, 3, n) = Tail(t)
    <3>1. \A k \in 3 .. n : list[k] \in S
      BY <1>1, <1>3
    <3>2. /\ SubSeq(list, 3, n) \in Seq(S)
          /\ Len(SubSeq(list, 3, n)) = IF 3 <= n THEN n - 3 + 1 ELSE 0
          /\ \A k \in 1 .. n - 3 + 1 : SubSeq(list, 3, n)[k] = list[3 + k - 1]
      BY <3>1, SubSeqProperties
    <3>3. Len(SubSeq(list, 3, n)) = n - 2
      BY <2>2, <3>2
    <3>4. ASSUME NEW k \in 1 .. n - 2 PROVE SubSeq(list, 3, n)[k] = Tail(t)[k]
      <4>1. k \in 1 .. n - 3 + 1 /\ 3 + k - 1 = (k + 1) + 1 /\ k + 1 \in 1 .. Len(list) - 1
        BY <1>3
      <4> QED BY <1>2, <2>1, <2>5, <3>2, <4>1
    <3> QED BY <2>5, <3>2, <3>3, <3>4, SeqEqual
  <2> QED BY <1>2, <1>3, <1>4, <1>6, <2>1, <2>3, <2>4, <2>6
<1> QED BY <1>5, <1>6

(* ngx_http_postpone_filter of the active request sends its postponed      *)
(* output and makes the first subrequest of its list active.               *)
LEMMA FlushOK ==
  ASSUME NEW w, NEW r, NEW m, Good(w, r, m), w.active = r, w.rc = "OK",
         w.rq[r].postponed # <<>>
  PROVE  Good(Flush(w, r), r, m) /\ SameMade(w.rq, Flush(w, r).rq)
<1>1. /\ w \in Worlds /\ w.rq \in Seq(Request) /\ r \in DOMAIN w.rq /\ w.rq[r] \in Request
      /\ PostedOK(w) /\ w.stream \in Seq(Path) /\ w.posted \in Seq(Nat) /\ m \in Nat
  BY GoodType
<1>2. PICK list \in Seq(Entry) : list = w.rq[r].postponed /\ list # <<>>
  BY <1>1 DEF Request
<1>3. /\ DOMAIN list = 1 .. Len(list) /\ Len(list) \in Nat /\ Len(list) # 0
      /\ \A k \in DOMAIN list : /\ list[k] \in Entry
                                /\ list[k].request \in Nat /\ list[k].out \in Seq(Path)
  <2>1. \A k \in DOMAIN list : list[k] \in Entry
    BY <1>2
  <2> QED BY <1>2, <2>1, EmptySeq DEF Entry
<1>4. \A k, l \in DOMAIN list : l = k + 1 => list[k].request # NoReq \/ list[l].request # NoReq
  <2>1. PICK V : V = View(w.rq, r, m)
    OBVIOUS
  <2>2. V[r].list = list
    BY <1>1, <1>2, <2>1 DEF View
  <2>3. ListOK(V, r)
    <3>1. Ordered(V, w.active, w.stream) /\ r \in DOMAIN V
      BY <1>1, <2>1 DEF Good, View
    <3> QED BY <3>1, Zenon DEF Ordered
  <2> QED BY <2>2, <2>3, Zenon DEF ListOK
<1> DEFINE Subs == {k \in DOMAIN list : list[k].request # NoReq}
           first == IF Subs = {} THEN Len(list) + 1 ELSE Min(Subs)
           outs == FlattenSeq([k \in 1 .. first - 1 |-> list[k].out])
           w1 == IF first = 1 THEN w ELSE WriteFilter(w, outs)
           w2 == SetList(w1, r, SubSeq(list, first + 1, Len(list)))
<1>5. Flush(w, r) =
        IF w1.rc = "ERROR" THEN w1
        ELSE IF Subs = {} THEN Rc(w2, "OK")
        ELSE Post([w2 EXCEPT !.active = list[first].request], list[first].request)
  BY <1>2 DEF Flush, SetList
<1>6. /\ Subs = {} => first = Len(list) + 1 /\ Len(list) = 1 /\ list[1].request = NoReq
      /\ Subs # {} => /\ first \in {1, 2} /\ first \in Subs
                      /\ first = 2 => list[1].request = NoReq /\ Len(list) # 1
  <2>1. 1 \in DOMAIN list
    BY <1>3
  <2>2. Len(list) # 1 => 2 \in DOMAIN list
    BY <1>3
  <2>3. CASE Subs = {}
    <3>1. list[1].request = NoReq /\ (Len(list) # 1 => list[2].request = NoReq)
      BY <2>1, <2>2, <2>3
    <3>2. Len(list) = 1
      <4> SUFFICES ASSUME Len(list) # 1 PROVE FALSE
        OBVIOUS
      <4>1. 1 \in DOMAIN list /\ 2 \in DOMAIN list /\ 2 = 1 + 1
        BY <2>1, <2>2
      <4>2. list[1].request # NoReq \/ list[2].request # NoReq
        BY <1>4, <4>1
      <4> QED BY <3>1, <4>2
    <3> QED BY <2>3, <3>1, <3>2
  <2>4. CASE Subs # {}
    <3>1. Subs \in SUBSET Nat
      BY <1>3
    <3>2. first \in Subs /\ \A k \in Subs : first <= k
      <4> HIDE DEF Subs
      <4> QED BY <2>4, <3>1, MinIn
    <3>3. first \in 1 .. Len(list)
      BY <1>3, <3>2
    <3>4. 1 \in Subs \/ 2 \in Subs \/ Len(list) = 1
      <4> SUFFICES ASSUME Len(list) # 1 PROVE 1 \in Subs \/ 2 \in Subs
        OBVIOUS
      <4>1. 1 \in DOMAIN list /\ 2 \in DOMAIN list /\ 2 = 1 + 1
        BY <2>1, <2>2
      <4>2. list[1].request # NoReq \/ list[2].request # NoReq
        BY <1>4, <4>1
      <4> QED BY <4>1, <4>2
    <3>5. first <= 2 /\ (first = 2 => 1 \notin Subs /\ Len(list) # 1)
      <4>1. PICK f : f = first
        OBVIOUS
      <4>2. PICK T : T = Subs
        OBVIOUS
      <4>3. f \in Nat /\ f >= 1 /\ f <= Len(list) /\ (1 \in T => f <= 1) /\ (2 \in T => f <= 2)
            /\ (1 \in T \/ 2 \in T \/ Len(list) = 1)
        <5> HIDE DEF Subs, first
        <5>1. f \in 1 .. Len(list)
          BY <3>3, <4>1
        <5>2. 1 \in T => f <= 1
          BY <3>2, <4>1, <4>2
        <5>3. 2 \in T => f <= 2
          BY <3>2, <4>1, <4>2
        <5>4. 1 \in T \/ 2 \in T \/ Len(list) = 1
          BY <3>4, <4>2
        <5> QED BY <1>3, <5>1, <5>2, <5>3, <5>4
      <4>4. f <= 2 /\ (f = 2 => 1 \notin T /\ Len(list) # 1)
        <5> HIDE DEF Subs, first
        <5>1. PICK n \in Nat : n = Len(list)
          BY <1>3
        <5>2. f \in Nat /\ f <= n
          BY <4>3, <5>1
        <5>3. CASE 1 \in T
          <6>1. f <= 1
            BY <4>3, <5>3
          <6> QED BY <5>2, <6>1
        <5>4. CASE 1 \notin T /\ 2 \in T
          <6>1. f <= 2
            BY <4>3, <5>4
          <6>2. f = 2 => n # 1
            BY <5>2
          <6> QED BY <5>1, <5>4, <6>1, <6>2
        <5>5. CASE 1 \notin T /\ 2 \notin T
          <6>1. n = 1
            BY <4>3, <5>1, <5>5
          <6> QED BY <5>2, <6>1
        <5> QED BY <5>3, <5>4, <5>5
      <4> HIDE DEF Subs, first
      <4> QED BY <4>1, <4>2, <4>4
    <3>6. first = 2 => list[1].request = NoReq
      BY <2>1, <3>5
    <3>7. first \in {1, 2}
      <4> HIDE DEF Subs, first
      <4>1. first \in Nat /\ first >= 1
        BY <1>3, <3>3
      <4> QED BY <3>5, <4>1
    <3> HIDE DEF Subs, first
    <3> QED BY <2>4, <3>2, <3>5, <3>6, <3>7
  <2> QED BY <2>3, <2>4
<1>7. /\ Tail(list) \in Seq(Entry)
      /\ SubSeq(list, 2, Len(list)) = Tail(list)
      /\ Len(list) = 1 => Tail(list) = <<>> /\ SubSeq(list, 3, Len(list)) = <<>>
      /\ Len(list) # 1 => /\ Tail(list) # <<>> /\ Tail(list)[1] = list[2]
                          /\ SubSeq(list, 3, Len(list)) = Tail(Tail(list))
  BY <1>2, RestOfList
<1>8. 1 \in DOMAIN list
  BY <1>3
<1> HIDE DEF Subs, first, outs, w1, w2
(* The output at the head of the list. *)
<1>9. ASSUME list[1].request = NoReq, first = 2
      PROVE  /\ Wrote(w, w1, list[1].out)
             /\ w1.rc = "ERROR" => Good(w1, r, m) /\ SameMade(w.rq, w1.rq)
             /\ w1.rc # "ERROR" => /\ Good(SetList(w1, r, Tail(list)), r, m)
                                   /\ SameMade(w.rq, SetList(w1, r, Tail(list)).rq)
  <2>1. PICK out \in Seq(Path) : out = list[1].out
    BY <1>3, <1>8
  <2>2. list[1] = Out(out)
    BY <1>3, <1>8, <1>9, <2>1 DEF Entry, Out
  <2>3. outs = out
    <3>1. first - 1 = 1
      BY <1>9
    <3>2. [k \in 1 .. 1 |-> list[k].out] = [k \in 1 .. 1 |-> out]
      BY <2>1
    <3>3. FlattenSeq([k \in 1 .. 1 |-> out]) = out
      BY FlattenOne
    <3> QED BY <3>1, <3>2, <3>3 DEF outs
  <2>4. Wrote(w, w1, out)
    BY <1>1, <1>9, <2>3, WriteFilterOK DEF w1
  <2>5. /\ w1 \in Worlds /\ w1.rq = w.rq /\ w1.active = w.active /\ w1.posted = w.posted
        /\ IF w1.rc = "ERROR" THEN w1.stream = w.stream ELSE w1.stream = w.stream \o out
    BY <2>4 DEF Wrote
  <2>6. SameMade(w.rq, w.rq)
    BY DEF SameMade, SameTree
  <2>7. CASE w1.rc = "ERROR"
    <3>1. PostedOK(w1)
      BY <1>1, <2>5 DEF PostedOK
    <3>2. Good(w1, r, m)
      BY <2>5, <2>6, <2>7, <3>1, Minor
    <3> QED BY <2>1, <2>4, <2>5, <2>6, <2>7, <3>2
  <2>8. CASE w1.rc # "ERROR"
    <3>1. PICK v : v = SetList(w1, r, Tail(list))
      OBVIOUS
    <3>2. /\ v \in Worlds /\ OnlyOne(w.rq, v.rq, r) /\ SameMade(w.rq, v.rq)
          /\ v.rq[r].postponed = Tail(list) /\ v.active = w.active /\ v.posted = w.posted
          /\ v.stream = w.stream \o out
      <4>1. w1 \in Worlds /\ r \in DOMAIN w1.rq
        BY <1>1, <2>5
      <4>2. ListSet(w1, v, r, Tail(list))
        BY <1>7, <3>1, <4>1, SetListOK
      <4> QED BY <2>5, <2>8, <4>2 DEF ListSet
    <3>3. PostedOK(v)
      BY <1>1, <3>2 DEF PostedOK, SameMade, SameTree
    <3>4. Good(v, r, m)
      BY <1>2, <2>2, <3>2, <3>3, DropStep
    <3> QED BY <2>1, <2>4, <2>8, <3>1, <3>2, <3>4
  <2> QED BY <2>7, <2>8
(* The subrequest at the head of the list. *)
<1>10. ASSUME NEW u, Good(u, r, m), u.active = r, NEW lu \in Seq(Entry), lu = u.rq[r].postponed,
              lu # <<>>, NEW c, c = lu[1].request, c # NoReq
       PROVE  LET v == Post([SetList(u, r, Tail(lu)) EXCEPT !.active = c], c)
              IN  Good(v, r, m) /\ SameMade(u.rq, v.rq)
  <2>1. /\ u \in Worlds /\ u.rq \in Seq(Request) /\ r \in DOMAIN u.rq
        /\ PostedOK(u) /\ u.stream \in Seq(Path) /\ u.posted \in Seq(Nat)
    BY <1>10, GoodType
  <2>2. c \in Nat
    <3>1. lu[1] \in Entry
      BY <1>10, EmptySeq
    <3> QED BY <1>10, <3>1 DEF Entry
  <2>3. PICK x : x = [u EXCEPT !.active = c]
    OBVIOUS
  <2>4. /\ x \in Worlds /\ x.rq = u.rq /\ x.active = c /\ x.stream = u.stream
        /\ x.posted = u.posted
    BY <2>1, <2>2, <2>3 DEF Worlds
  <2>5. PostedOK(x)
    BY <2>1, <2>4 DEF PostedOK
  <2>6. c \in DOMAIN u.rq /\ Good(x, r, m)
    BY <1>10, <2>4, <2>5, EnterStep
  <2>7. Tail(lu) \in Seq(Entry)
    BY <1>10, RestOfList
  <2>8. PICK y : y = SetList(x, r, Tail(lu))
    OBVIOUS
  <2>9. /\ y \in Worlds /\ OnlyOne(u.rq, y.rq, r) /\ SameMade(u.rq, y.rq)
        /\ y.rq[r].postponed = Tail(lu) /\ y.active = c /\ y.posted = u.posted
        /\ y.stream = u.stream
    <3>1. x \in Worlds /\ r \in DOMAIN x.rq
      BY <2>1, <2>4
    <3>2. ListSet(x, y, r, Tail(lu))
      BY <2>7, <2>8, <3>1, SetListOK
    <3> QED BY <2>4, <3>2 DEF ListSet
  <2>10. PICK v : v = Post([SetList(u, r, Tail(lu)) EXCEPT !.active = c], c)
    OBVIOUS
  <2>11. v = Post(y, c)
    BY <2>1, <2>3, <2>8, <2>10 DEF Worlds, SetList
  <2>12. /\ DOMAIN u.rq \in SUBSET Nat /\ DOMAIN y.rq = DOMAIN u.rq
         /\ Append(u.posted, c) \in Seq(Nat)
         /\ \A i \in DOMAIN Append(u.posted, c) : Append(u.posted, c)[i] \in DOMAIN u.rq
    <3>1. DOMAIN u.rq \in SUBSET Nat /\ DOMAIN y.rq = DOMAIN u.rq
      BY <2>1, <2>9 DEF SameMade, SameTree
    <3>2. \A i \in DOMAIN u.posted : u.posted[i] \in DOMAIN u.rq
      BY <2>1 DEF PostedOK
    <3> QED BY <2>1, <2>6, <3>1, <3>2, PostOK
  <2>13. /\ v \in Worlds /\ v.rq = y.rq /\ v.active = y.active /\ v.stream = y.stream
         /\ v.posted = Append(u.posted, c)
    BY <2>9, <2>11, <2>12 DEF Worlds, Post, Codes
  <2>14. PostedOK(v)
    BY <2>12, <2>13 DEF PostedOK
  <2>15. Good(v, r, m)
    <3>1. v.stream = x.stream \o <<>>
      BY <2>1, <2>4, <2>9, <2>13, ConcatEmptySeq
    <3>2. OnlyOne(x.rq, v.rq, r) /\ x.rq[r].postponed # <<>>
          /\ v.rq[r].postponed = Tail(x.rq[r].postponed) /\ v.active = x.active
      BY <1>10, <2>4, <2>9, <2>13
    <3>3. <<>> \in Seq(Path)
      OBVIOUS
    <3> QED BY <2>6, <2>13, <2>14, <3>1, <3>2, <3>3, DropStep
  <2> QED BY <2>9, <2>10, <2>13, <2>15
<1>11. CASE Subs = {}
  <2>1. first = 2 /\ list[1].request = NoReq /\ Len(list) = 1
    <3>1. first = Len(list) + 1 /\ Len(list) = 1 /\ list[1].request = NoReq
      BY <1>6, <1>11, Zenon
    <3>2. first = 1 + 1
      BY <3>1, Zenon
    <3> QED BY <3>1, <3>2
  <2>2. SubSeq(list, first + 1, Len(list)) = Tail(list)
    BY <1>7, <2>1
  <2>3. CASE w1.rc = "ERROR"
    BY <1>5, <1>9, <2>1, <2>3
  <2>4. CASE w1.rc # "ERROR"
    <3>1. PICK v : v = Rc(w2, "OK")
      OBVIOUS
    <3>2. w2 = SetList(w1, r, Tail(list)) /\ Good(w2, r, m) /\ SameMade(w.rq, w2.rq)
      BY <1>9, <2>1, <2>2, <2>4 DEF w2
    <3>3. w2 \in Worlds /\ PostedOK(w2)
      BY <3>2, GoodType
    <3>4. /\ v \in Worlds /\ v.rq = w2.rq /\ v.active = w2.active /\ v.stream = w2.stream
          /\ v.posted = w2.posted
      BY <3>1, <3>3 DEF Rc, Worlds, Codes
    <3>5. PostedOK(v) /\ SameMade(w2.rq, v.rq)
      BY <3>3, <3>4 DEF PostedOK, SameMade, SameTree
    <3>6. Good(v, r, m)
      BY <3>2, <3>4, <3>5, Minor
    <3> QED BY <1>5, <1>11, <2>4, <3>1, <3>2, <3>4, <3>6
  <2> QED BY <2>3, <2>4
<1>12. CASE Subs # {} /\ first = 1
  <2>1. w1 = w
    BY <1>12 DEF w1
  <2>2. list[1].request # NoReq
    BY <1>6, <1>12 DEF Subs
  <2>3. w2 = SetList(w, r, Tail(list))
    <3>1. first + 1 = 2
      BY <1>12
    <3>2. SubSeq(list, first + 1, Len(list)) = Tail(list)
      BY <1>7, <3>1
    <3> QED BY <2>1, <3>2 DEF w2
  <2>4. Flush(w, r) = Post([SetList(w, r, Tail(list)) EXCEPT !.active = list[1].request], list[1].request)
    BY <1>5, <1>12, <2>1, <2>3
  <2> QED BY <1>2, <1>10, <2>2, <2>4
<1>13. CASE Subs # {} /\ first = 2
  <2>1. /\ list[1].request = NoReq /\ Len(list) # 1 /\ list[2].request # NoReq
        /\ Tail(list) # <<>> /\ Tail(list)[1] = list[2]
        /\ SubSeq(list, 3, Len(list)) = Tail(Tail(list))
    BY <1>6, <1>7, <1>13 DEF Subs
  <2>2. CASE w1.rc = "ERROR"
    BY <1>5, <1>9, <1>13, <2>1, <2>2
  <2>3. CASE w1.rc # "ERROR"
    <3>1. PICK u : u = SetList(w1, r, Tail(list))
      OBVIOUS
    <3>2. Good(u, r, m) /\ SameMade(w.rq, u.rq)
      BY <1>9, <1>13, <2>1, <2>3, <3>1
    <3>3. w1 \in Worlds /\ w1.rq = w.rq /\ w1.active = w.active
      BY <1>9, <1>13, <2>1 DEF Wrote
    <3>4. u.rq[r].postponed = Tail(list) /\ u.active = r
      <4>1. w1 \in Worlds /\ r \in DOMAIN w1.rq
        BY <1>1, <3>3
      <4>2. ListSet(w1, u, r, Tail(list))
        BY <1>7, <3>1, <4>1, SetListOK
      <4> QED BY <1>1, <3>3, <4>2 DEF ListSet
    <3>5. PICK v : v = Post([SetList(u, r, Tail(Tail(list))) EXCEPT !.active = list[2].request], list[2].request)
      OBVIOUS
    <3>6. Good(v, r, m) /\ SameMade(u.rq, v.rq)
      BY <1>7, <1>10, <2>1, <3>2, <3>4, <3>5
    <3>7. SetList(u, r, Tail(Tail(list))) = w2
      <4>1. w2 = SetList(w1, r, Tail(Tail(list)))
        <5>1. first + 1 = 3
          BY <1>13
        <5>2. SubSeq(list, first + 1, Len(list)) = Tail(Tail(list))
          BY <2>1, <5>1
        <5> QED BY <5>2 DEF w2
      <4>2. w1.rq \in Seq(Request) /\ r \in DOMAIN w1.rq
        BY <1>1, <3>3
      <4>3. Tail(Tail(list)) \in Seq(Entry)
        BY <1>7, <2>1, RestOfList
      <4>4. SetList(SetList(w1, r, Tail(list)), r, Tail(Tail(list))) = SetList(w1, r, Tail(Tail(list)))
        BY <3>3, <4>2, SetListTwice
      <4> QED BY <3>1, <4>1, <4>4
    <3>8. Flush(w, r) = v
      BY <1>5, <1>13, <2>3, <3>5, <3>7
    <3>9. SameMade(w.rq, v.rq)
      BY <3>2, <3>6 DEF SameMade, SameTree
    <3> QED BY <3>6, <3>8, <3>9
  <2> QED BY <2>2, <2>3
<1> QED BY <1>6, <1>11, <1>12, <1>13

(* Output added to a list makes a list that is not empty. *)
LEMMA AddOutType ==
  ASSUME NEW list \in Seq(Entry), NEW pieces \in Seq(Path)
  PROVE  AddOut(list, pieces) \in Seq(Entry) /\ AddOut(list, pieces) # <<>>
<1>1. Out(pieces) \in Entry
  BY DEF Out, Entry, NoReq
<1>2. /\ Append(list, Out(pieces)) \in Seq(Entry) /\ Append(list, Out(pieces)) # <<>>
  BY <1>1, AppendProperties
<1>3. CASE list # <<>>
  <2>1. Len(list) \in Nat /\ Len(list) # 0
    BY <1>3, EmptySeq
  <2>2. Front(list) \in Seq(Entry)
    <3>1. PICK l \in Nat : l = Len(list) - 1
      BY <2>1
    <3>2. \A k \in 1 .. l : list[k] \in Entry
      BY <2>1, <3>1
    <3>3. SubSeq(list, 1, l) \in Seq(Entry)
      BY <3>1, <3>2, SubSeqProperties
    <3> QED BY <3>1, <3>3 DEF Front
  <2>3. Last(list) \in Entry
    BY <2>1 DEF Last
  <2>4. Last(list).out \o pieces \in Seq(Path)
    BY <2>3 DEF Entry
  <2>5. PICK e \in Entry : e = Out(Last(list).out \o pieces)
    BY <2>4 DEF Out, Entry, NoReq
  <2>6. Append(Front(list), e) \in Seq(Entry) /\ Append(Front(list), e) # <<>>
    BY <2>2, <2>5, AppendProperties
  <2> QED BY <1>2, <1>3, <2>5, <2>6 DEF AddOut
<1>4. CASE list = <<>>
  BY <1>2, <1>4 DEF AddOut
<1> QED BY <1>3, <1>4

(* ngx_http_postpone_filter: the output of r up to its place h is sent, or *)
(* put into its list.                                                      *)
LEMMA PostponeFilterOK ==
  ASSUME NEW w, NEW r, NEW m, Good(w, r, m), NEW h \in Nat, m <= h, NEW hasIn \in BOOLEAN,
         NEW pieces \in Seq(Path), Pieces(View(w.rq, r, m), r, m, h, pieces),
         ~hasIn => pieces = <<>> /\ h = m
  PROVE  /\ Good(PostponeFilter(w, r, hasIn, pieces), r, h)
         /\ SameMade(w.rq, PostponeFilter(w, r, hasIn, pieces).rq)
<1>1. /\ w \in Worlds /\ w.rq \in Seq(Request) /\ r \in DOMAIN w.rq /\ w.rq[r] \in Request
      /\ PostedOK(w) /\ w.stream \in Seq(Path) /\ m \in Nat
  BY GoodType
<1>2. PICK u : u = Rc(w, "OK")
  OBVIOUS
<1>3. /\ u \in Worlds /\ u.rq = w.rq /\ u.active = w.active /\ u.stream = w.stream
      /\ u.posted = w.posted /\ u.rc = "OK"
  BY <1>1, <1>2 DEF Rc, Worlds, Codes
<1>4. PostedOK(u) /\ SameMade(w.rq, u.rq)
  BY <1>1, <1>3 DEF PostedOK, SameMade, SameTree
<1>5. Good(u, r, m)
  BY <1>3, <1>4, Minor
<1>6. PICK list \in Seq(Entry) : list = u.rq[r].postponed
  BY <1>1, <1>3 DEF Request
<1>7. ASSUME hasIn
      PROVE  LET v == SetList(u, r, AddOut(list, pieces))
             IN  /\ Good(v, r, h) /\ SameMade(w.rq, v.rq) /\ v.active = u.active /\ v.rc = "OK"
                 /\ v.rq[r].postponed = AddOut(list, pieces) /\ AddOut(list, pieces) # <<>>
  <2>1. AddOut(list, pieces) \in Seq(Entry) /\ AddOut(list, pieces) # <<>>
    BY AddOutType
  <2>2. PICK v : v = SetList(u, r, AddOut(list, pieces))
    OBVIOUS
  <2>3. /\ v \in Worlds /\ OnlyOne(u.rq, v.rq, r) /\ SameMade(u.rq, v.rq)
        /\ v.rq[r].postponed = AddOut(list, pieces) /\ v.active = u.active
        /\ v.posted = u.posted /\ v.stream = u.stream /\ v.rc = "OK"
    <3>1. r \in DOMAIN u.rq
      BY <1>1, <1>3
    <3>2. ListSet(u, v, r, AddOut(list, pieces))
      BY <1>3, <2>1, <2>2, <3>1, SetListOK
    <3> QED BY <1>3, <3>2 DEF ListSet
  <2>4. PostedOK(v)
    BY <1>4, <2>3 DEF PostedOK, SameMade, SameTree
  <2>5. Good(v, r, h)
    BY <1>3, <1>5, <1>6, <2>3, <2>4, DeferStep
  <2> QED BY <1>3, <2>1, <2>2, <2>3, <2>5
<1>8. PostponeFilter(w, r, hasIn, pieces) =
        LET added == IF hasIn THEN SetList(u, r, AddOut(list, pieces)) ELSE u
        IN  IF u.active # r THEN added
            ELSE IF list = <<>> THEN IF hasIn \/ u.buffered THEN WriteFilter(u, pieces) ELSE u
            ELSE Flush(added, r)
  <2>1. [u EXCEPT !.rq[r].postponed = AddOut(@, pieces)] = SetList(u, r, AddOut(list, pieces))
    BY <1>1, <1>3, <1>6 DEF SetList, Worlds, Request
  <2> QED BY <1>2, <1>6, <2>1 DEF PostponeFilter
<1>9. CASE u.active # r
  BY <1>3, <1>4, <1>5, <1>7, <1>8, <1>9
<1>10. CASE u.active = r /\ list = <<>>
  <2>1. PICK v : v = WriteFilter(u, pieces)
    OBVIOUS
  <2>2. Wrote(u, v, pieces)
    BY <1>3, <2>1, WriteFilterOK
  <2>3. /\ v \in Worlds /\ v.rq = w.rq /\ v.active = w.active /\ v.posted = w.posted
        /\ IF v.rc = "ERROR" THEN v.stream = w.stream ELSE v.stream = w.stream \o pieces
    BY <1>3, <2>2 DEF Wrote
  <2>4. PostedOK(v) /\ SameMade(w.rq, v.rq) /\ OnlyOne(w.rq, v.rq, r)
    BY <1>1, <2>3 DEF PostedOK, SameMade, SameTree, OnlyOne
  <2>5. \E out \in Seq(Path) : /\ v.stream = w.stream \o out
                               /\ Pieces(View(w.rq, r, m), r, m, h, out)
    <3>1. Pieces(View(w.rq, r, m), r, m, h, <<>>) /\ <<>> \in Seq(Path)
      BY DEF Pieces, Sorted
    <3>2. w.stream \o <<>> = w.stream
      BY <1>1, ConcatEmptySeq
    <3> QED BY <2>3, <3>1, <3>2
  <2>6. Good(v, r, h)
    <3>1. PICK out \in Seq(Path) : /\ v.stream = w.stream \o out
                                   /\ Pieces(View(w.rq, r, m), r, m, h, out)
      BY <2>5
    <3> QED BY <1>3, <1>6, <1>10, <2>3, <2>4, <3>1, SendStep
  <2>7. ~hasIn => Good(u, r, h)
    BY <1>5
  <2> QED BY <1>4, <1>8, <1>10, <2>1, <2>4, <2>6, <2>7
<1>11. CASE u.active = r /\ list # <<>>
  <2>1. PICK v : v = IF hasIn THEN SetList(u, r, AddOut(list, pieces)) ELSE u
    OBVIOUS
  <2>2. /\ Good(v, r, h) /\ SameMade(w.rq, v.rq) /\ v.active = r /\ v.rc = "OK"
        /\ v.rq[r].postponed # <<>>
    BY <1>3, <1>4, <1>5, <1>6, <1>7, <1>11, <2>1
  <2>3. Good(Flush(v, r), r, h) /\ SameMade(v.rq, Flush(v, r).rq)
    BY <2>2, FlushOK
  <2>4. SameMade(w.rq, Flush(v, r).rq)
    BY <2>2, <2>3 DEF SameMade, SameTree
  <2> QED BY <1>8, <1>11, <2>1, <2>3, <2>4
<1> QED BY <1>9, <1>10, <1>11

(* ngx_http_subrequest: a subrequest at the place n of r, after all r gave *)
(* out, or none when too many were made.                                   *)
SubrequestMade(w, v, r, m, n) ==
  \/ v.rc = "ERROR" /\ Good(v, r, m) /\ v.rq = w.rq
  \/ /\ v.rc = "OK" /\ Good(v, r, n)
     /\ v.rq[r].made = w.rq[r].made /\ v.rq[r].path = w.rq[r].path

(* ngx_http_subrequest keeps the order: the new request has its place in   *)
(* the list of r behind all r gave out, and is active at once when r is    *)
(* and nothing of r is postponed.                                          *)
LEMMA SubrequestOK ==
  ASSUME NEW w, NEW r, NEW m, Good(w, r, m), NEW n \in Nat, n > m,
         NEW path, path = Append(w.rq[r].path, n), NEW waited \in BOOLEAN
  PROVE  SubrequestMade(w, Subrequest(w, r, path, waited), r, m, n)
<1>1. /\ w \in Worlds /\ w.rq \in Seq(Request) /\ r \in DOMAIN w.rq /\ w.rq[r] \in Request
      /\ PostedOK(w) /\ w.stream \in Seq(Path) /\ w.posted \in Seq(Nat) /\ m \in Nat
      /\ w.active \in DOMAIN w.rq /\ w.count \in Int /\ w.subrequests \in Int
  BY GoodType
<1>2. DOMAIN w.rq = 1 .. Len(w.rq) /\ Len(w.rq) \in Nat /\ r \in Nat
  BY <1>1
<1>3. PICK s \in Nat : s = Len(w.rq) + 1
  BY <1>2
<1>4. w.rq[r].path \in Path /\ w.rq[r].postponed \in Seq(Entry) /\ path \in Path
  <2>1. w.rq[r].path \in Path /\ w.rq[r].postponed \in Seq(Entry)
    BY <1>1 DEF Request
  <2> QED BY <2>1, Longer
<1>5. PICK list \in Seq(Entry) : list = Append(w.rq[r].postponed, Sub(s))
  <2>1. Sub(s) \in Entry
    BY <1>3 DEF Sub, Entry
  <2>2. Append(w.rq[r].postponed, Sub(s)) \in Seq(Entry)
    BY <1>4, <2>1, AppendProperties
  <2> QED BY <2>2
<1>6. PICK y : y = [w.rq[r] EXCEPT !.postponed = list]
  OBVIOUS
<1>7. /\ y \in Request /\ y.path = w.rq[r].path /\ y.parent = w.rq[r].parent
      /\ y.postponed = list /\ y.made = w.rq[r].made
  BY <1>1, <1>5, <1>6 DEF Request
<1>8. PICK x : x = NewRequest(r, path, waited)
  OBVIOUS
<1>9. x \in Request /\ x.path = path /\ x.parent = r /\ x.postponed = <<>>
  BY <1>2, <1>4, <1>8 DEF NewRequest, Request, Handlers, NoReq
<1>10. PICK rs \in Seq(Request) : rs = Append([w.rq EXCEPT ![r] = y], x)
  <2>1. [w.rq EXCEPT ![r] = y] \in Seq(Request)
    BY <1>1, <1>7, SetRequest
  <2>2. Append([w.rq EXCEPT ![r] = y], x) \in Seq(Request)
    BY <1>9, <2>1, AppendProperties
  <2> QED BY <2>2
<1>11. PICK v : v = Subrequest(w, r, path, waited)
  OBVIOUS
<1>12. CASE w.subrequests = 1
  <2>1. v = Rc(w, "ERROR")
    BY <1>11, <1>12 DEF Subrequest
  <2>2. /\ v \in Worlds /\ v.rq = w.rq /\ v.active = w.active /\ v.stream = w.stream
        /\ v.posted = w.posted /\ v.rc = "ERROR"
    BY <1>1, <2>1 DEF Rc, Worlds, Codes
  <2>3. PostedOK(v) /\ SameMade(w.rq, v.rq)
    BY <1>1, <2>2 DEF PostedOK, SameMade, SameTree
  <2>4. Good(v, r, m)
    BY <2>2, <2>3, Minor
  <2> QED BY <1>11, <2>2, <2>4 DEF SubrequestMade
<1>13. CASE w.subrequests # 1
  <2>1. PICK g : g = [w EXCEPT !.rq = rs, !.subrequests = @ - 1, !.count = @ + 1,
                               !.posted = Append(@, s), !.rc = "OK"]
    OBVIOUS
  <2>2. v = [g EXCEPT !.active = IF w.active = r /\ w.rq[r].postponed = <<>> THEN s ELSE @]
    <3>1. Append([w.rq EXCEPT ![r].postponed = Append(@, Sub(Len(w.rq) + 1))], NewRequest(r, path, waited)) = rs
      BY <1>1, <1>3, <1>5, <1>6, <1>8, <1>10 DEF Request
    <3>2. PICK q :
            /\ v = Post(q, Len(w.rq) + 1)
            /\ q = [w EXCEPT !.rq = Append([w.rq EXCEPT ![r].postponed = Append(@, Sub(Len(w.rq) + 1))],
                                           NewRequest(r, path, waited)),
                             !.active = IF w.active = r /\ w.rq[r].postponed = <<>>
                                        THEN Len(w.rq) + 1 ELSE @,
                             !.subrequests = @ - 1, !.count = @ + 1]
      BY <1>11, <1>13 DEF Subrequest
    <3>3. q = [w EXCEPT !.rq = rs,
                        !.active = IF w.active = r /\ w.rq[r].postponed = <<>> THEN s ELSE @,
                        !.subrequests = @ - 1, !.count = @ + 1]
      <4>1. q = [w EXCEPT !.rq = rs,
                          !.active = IF w.active = r /\ w.rq[r].postponed = <<>>
                                     THEN Len(w.rq) + 1 ELSE @,
                          !.subrequests = @ - 1, !.count = @ + 1]
        BY <3>1, <3>2
      <4> QED BY <1>3, <4>1
    <3>4. v = Post(q, s)
      BY <1>3, <3>2
    <3> QED BY <1>1, <2>1, <3>3, <3>4 DEF Post, Worlds
  <2>3. Append(w.posted, s) \in Seq(Nat) /\ \A i \in DOMAIN Append(w.posted, s) :
          Append(w.posted, s)[i] \in DOMAIN w.rq \cup {s}
    <3>1. DOMAIN w.rq \cup {s} \in SUBSET Nat /\ s \in DOMAIN w.rq \cup {s}
      BY <1>2
    <3>2. \A i \in DOMAIN w.posted : w.posted[i] \in DOMAIN w.rq \cup {s}
      BY <1>1 DEF PostedOK
    <3> QED BY <1>1, <3>1, <3>2, PostOK
  <2>4. /\ g \in Worlds /\ g.rq = rs /\ g.active = w.active /\ g.stream = w.stream
        /\ g.posted = Append(w.posted, s) /\ g.rc = "OK"
    <3>1. PICK a \in Int : a = w.subrequests - 1
      BY <1>1
    <3>2. PICK b \in Int : b = w.count + 1
      BY <1>1
    <3>3. PICK p \in Seq(Nat) : p = Append(w.posted, s)
      BY <2>3
    <3>4. g = [w EXCEPT !.rq = rs, !.subrequests = a, !.count = b, !.posted = p, !.rc = "OK"]
      BY <1>1, <2>1, <3>1, <3>2, <3>3
    <3>5. "OK" \in Codes
      BY DEF Codes
    <3> QED BY <1>1, <1>10, <3>3, <3>4, <3>5 DEF Worlds
  <2>5. DOMAIN rs = DOMAIN w.rq \cup {s}
    <3>1. /\ [w.rq EXCEPT ![r] = y] \in Seq(Request)
          /\ DOMAIN [w.rq EXCEPT ![r] = y] = DOMAIN w.rq
      BY <1>1, <1>7, SetRequest
    <3>2. Len([w.rq EXCEPT ![r] = y]) = Len(w.rq)
      BY <1>2, <3>1
    <3>3. Len(rs) = s
      BY <1>3, <1>10, <3>1, <3>2, AppendProperties
    <3>4. DOMAIN rs = 1 .. s
      BY <1>10, <3>3
    <3> QED BY <1>2, <1>3, <3>4
  <2>6. PostedOK(g)
    BY <2>3, <2>4, <2>5 DEF PostedOK
  <2>7. /\ Good(g, r, n) /\ g.rq[r] = y /\ g.rq[s] = x
    <3>1. x.path = Append(w.rq[r].path, n) /\ y.postponed = Append(w.rq[r].postponed, Sub(Len(w.rq) + 1))
      BY <1>3, <1>5, <1>7, <1>9
    <3>2. g.rq = Append([w.rq EXCEPT ![r] = y], x)
      BY <1>10, <2>4
    <3>3. /\ g \in Worlds /\ g.active = w.active /\ g.stream = w.stream /\ PostedOK(g)
      BY <2>4, <2>6
    <3>4. Grown(w, g, r, n, x, y)
      BY <1>7, <1>9, <3>1, <3>2, <3>3 DEF Grown
    <3>5. Good(g, r, n) /\ g.rq[r] = y /\ g.rq[Len(w.rq) + 1] = x
      BY <3>4, GrowStep
    <3> QED BY <1>3, <3>5
  <2>8. CASE w.active = r /\ w.rq[r].postponed = <<>>
    <3>1. v = [g EXCEPT !.active = s]
      BY <2>2, <2>8
    <3>2. /\ v \in Worlds /\ v.rq = rs /\ v.active = s /\ v.stream = g.stream
          /\ v.posted = g.posted /\ v.rc = "OK"
      BY <1>3, <2>4, <3>1 DEF Worlds
    <3>3. list = <<Sub(s)>> /\ list # <<>> /\ list[1].request = s /\ s # NoReq
      BY <1>2, <1>3, <1>5, <2>8 DEF Sub, NoReq
    <3>4. PostedOK(v)
      BY <2>4, <2>6, <3>2 DEF PostedOK
    <3>5. Good(v, r, n)
      <4>1. r = g.active /\ g.rq[r].postponed # <<>> /\ g.rq[r].postponed[1].request # NoReq
            /\ v.rq = g.rq /\ v.active = g.rq[r].postponed[1].request
        BY <1>7, <2>4, <2>7, <2>8, <3>2, <3>3
      <4> QED BY <2>7, <3>2, <3>4, <4>1, EnterStep
    <3> QED BY <1>7, <1>11, <2>4, <2>7, <3>2, <3>5 DEF SubrequestMade
  <2>9. CASE ~(w.active = r /\ w.rq[r].postponed = <<>>)
    <3>1. v = g
      BY <2>2, <2>4, <2>9 DEF Worlds
    <3> QED BY <1>7, <1>11, <2>4, <2>7, <3>1 DEF SubrequestMade
  <2> QED BY <2>8, <2>9
<1> QED BY <1>12, <1>13

(* A field of a request that the order does not depend on is set. *)
Touched(w, v, q, x) ==
  /\ v \in Worlds /\ v.rq \in Seq(Request) /\ DOMAIN v.rq = DOMAIN w.rq /\ v.rq[q] = x
  /\ \A p \in DOMAIN w.rq : p # q => v.rq[p] = w.rq[p]
  /\ v.active = w.active /\ v.posted = w.posted /\ v.stream = w.stream /\ v.rc = w.rc
  /\ v.error = w.error /\ v.buffered = w.buffered /\ v.conn = w.conn

(* Setting such a field keeps the order. *)
LEMMA Touch ==
  ASSUME NEW w, NEW r, NEW m, Good(w, r, m), NEW q \in DOMAIN w.rq, NEW x \in Request,
         x.path = w.rq[q].path, x.parent = w.rq[q].parent, x.postponed = w.rq[q].postponed,
         q = r \/ x.made = w.rq[q].made,
         NEW v, v = [w EXCEPT !.rq = [@ EXCEPT ![q] = x]]
  PROVE  Good(v, r, m) /\ Touched(w, v, q, x)
<1>1. /\ w \in Worlds /\ w.rq \in Seq(Request) /\ PostedOK(w) /\ m \in Nat /\ r \in DOMAIN w.rq
  BY GoodType
<1>2. PICK rs : rs = [w.rq EXCEPT ![q] = x]
  OBVIOUS
<1>3. /\ rs \in Seq(Request) /\ DOMAIN rs = DOMAIN w.rq /\ rs[q] = x
      /\ \A p \in DOMAIN w.rq : p # q => rs[p] = w.rq[p]
  BY <1>1, <1>2, SetRequest
<1>4. v = [w EXCEPT !.rq = rs]
  BY <1>2
<1>5. /\ v \in Worlds /\ v.rq = rs /\ v.active = w.active /\ v.posted = w.posted
      /\ v.stream = w.stream /\ v.rc = w.rc
      /\ v.error = w.error /\ v.buffered = w.buffered /\ v.conn = w.conn
  BY <1>1, <1>3, <1>4 DEF Worlds
<1>6. View(rs, r, m) = View(w.rq, r, m)
  BY <1>3, ViewSame
<1>7. PostedOK(v)
  BY <1>1, <1>3, <1>5 DEF PostedOK
<1>8. Good(v, r, m)
  BY <1>1, <1>3, <1>5, <1>6, <1>7 DEF Good
<1> QED BY <1>3, <1>5, <1>8 DEF Touched

(* Places may be passed over. *)
LEMMA Skip ==
  ASSUME NEW w, NEW r, NEW m, Good(w, r, m), NEW n \in Nat, m <= n
  PROVE  Good(w, r, n)
<1>1. w \in Worlds /\ PostedOK(w) /\ w.stream \in Seq(Path)
  BY GoodType
<1>2. OnlyOne(w.rq, w.rq, r)
  BY DEF OnlyOne, SameTree
<1>3. Pieces(View(w.rq, r, m), r, m, n, <<>>) /\ <<>> \in Seq(Path)
  BY DEF Pieces, Sorted
<1>4. w.stream = w.stream \o <<>>
  BY <1>1, ConcatEmptySeq
<1> QED BY <1>1, <1>2, <1>3, <1>4, SendStep

(* The return code of a handler is set. *)
LEMMA SetRc ==
  ASSUME NEW w, NEW r, NEW m, Good(w, r, m), NEW c \in Codes
  PROVE  Good(Rc(w, c), r, m) /\ Rc(w, c).rq = w.rq /\ Rc(w, c).rc = c
<1>1. w \in Worlds /\ PostedOK(w)
  BY GoodType
<1>2. PICK v : v = Rc(w, c)
  OBVIOUS
<1>3. /\ v \in Worlds /\ v.rq = w.rq /\ v.active = w.active /\ v.stream = w.stream
      /\ v.posted = w.posted /\ v.rc = c
  BY <1>1, <1>2 DEF Rc, Worlds
<1>4. PostedOK(v) /\ SameMade(w.rq, v.rq)
  BY <1>1, <1>3 DEF PostedOK, SameMade, SameTree
<1> QED BY <1>2, <1>3, <1>4, Minor

(* What is chosen of a set with one element is that element (operator      *)
(* Once).                                                                  *)
LEMMA OnlyElement == \A a : (CHOOSE y \in {a} : TRUE) = a
OBVIOUS

-----------------------------------------------------------------------------
(* The filter of includes, item by item: what it has read and not sent     *)
(* lies behind what was given out.                                         *)
Filters == [w : Worlds, out : Seq(Path), stop : BOOLEAN, rest : Seq(Items)]

Read(w, r, out) ==
  \E m \in Nat : /\ m <= w.rq[r].made
                 /\ Good(w, r, m)
                 /\ Pieces(View(w.rq, r, m), r, m, w.rq[r].made, out)

Filtered(s, r) ==
  /\ s \in Filters
  /\ IF s.stop THEN Good(s.w, r, s.w.rq[r].made) ELSE Read(s.w, r, s.out)

(* One more place at the end of what was read. *)
LEMMA MorePieces ==
  ASSUME NEW N \in SUBSET Nat, NEW V \in [N -> Node], NEW r \in N, NEW m \in Nat, NEW n \in Nat,
         m < n, NEW out \in Seq(Path), Pieces(V, r, m, n - 1, out)
  PROVE  /\ Append(out, Place(V, r, n)) \in Seq(Path)
         /\ Pieces(V, r, m, n, Append(out, Place(V, r, n)))
<1>1. V[r].path \in Path
  BY DEF Node
<1>2. PICK p \in Path : p = Place(V, r, n)
  BY <1>1, Longer DEF Place
<1>3. PICK all : all = Append(out, p)
  OBVIOUS
<1>4. /\ all \in Seq(Path) /\ Len(out) \in Nat /\ Len(all) = Len(out) + 1
      /\ \A i \in 1 .. Len(out) : all[i] = out[i]
      /\ all[Len(out) + 1] = p
  BY <1>3, AppendProperties
<1>5. DOMAIN all = 1 .. Len(out) + 1 /\ DOMAIN out = 1 .. Len(out)
  BY <1>4
<1>6. ASSUME NEW j \in DOMAIN out
      PROVE  \E i \in m + 1 .. n : all[j] = Place(V, r, i) /\ i < n
  <2>1. PICK i \in m + 1 .. n - 1 : out[j] = Place(V, r, i)
    BY DEF Pieces
  <2> QED BY <1>4, <1>5, <2>1
<1>7. ASSUME NEW j \in DOMAIN all PROVE \E i \in m + 1 .. n : all[j] = Place(V, r, i)
  <2>1. CASE j \in DOMAIN out
    BY <1>6, <2>1
  <2>2. CASE j = Len(out) + 1
    BY <1>2, <1>4, <2>2
  <2> QED BY <1>4, <1>5, <2>1, <2>2
<1>8. ASSUME NEW i \in DOMAIN all, NEW j \in DOMAIN all, i < j PROVE Before(all[i], all[j])
  <2>1. i \in DOMAIN out
    BY <1>4, <1>5, <1>8
  <2>2. CASE j \in DOMAIN out
    <3>1. Before(out[i], out[j])
      BY <1>8, <2>1, <2>2 DEF Pieces, Sorted
    <3> QED BY <1>4, <1>5, <2>1, <2>2, <3>1
  <2>3. CASE j = Len(out) + 1
    <3>1. PICK k \in m + 1 .. n : all[i] = Place(V, r, k) /\ k < n
      BY <1>6, <2>1
    <3>2. k \in Nat
      OBVIOUS
    <3>3. Before(Place(V, r, k), Place(V, r, n))
      BY <1>1, <3>1, <3>2, BeforeSame DEF Place
    <3> QED BY <1>2, <1>4, <2>3, <3>1, <3>3
  <2> QED BY <1>4, <1>5, <2>2, <2>3
<1>9. Pieces(V, r, m, n, all)
  BY <1>7, <1>8 DEF Pieces, Sorted
<1> QED BY <1>2, <1>3, <1>4, <1>9

(* One item through ngx_http_ssi_body_filter: what was read and not sent   *)
(* stays behind what was given out, and an include sends it before its     *)
(* subrequest is made.                                                     *)
LEMMA SsiItemOK ==
  ASSUME NEW r, NEW s, Filtered(s, r), NEW item \in Items
  PROVE  Filtered(SsiItem(r, s, item), r)
<1>1. s \in Filters /\ s.out \in Seq(Path) /\ s.rest \in Seq(Items) /\ s.stop \in BOOLEAN
  BY DEF Filtered, Filters
<1>2. CASE s.stop
  <2>1. PICK t : t = [s EXCEPT !.rest = Append(@, item)]
    OBVIOUS
  <2>2. SsiItem(r, s, item) = t
    BY <1>2, <2>1 DEF SsiItem
  <2>3. t \in Filters /\ t.stop = s.stop /\ t.w = s.w
    <3>1. PICK more \in Seq(Items) : more = Append(s.rest, item)
      BY <1>1, AppendProperties
    <3>2. t = [s EXCEPT !.rest = more]
      BY <2>1, <3>1
    <3> QED BY <1>1, <3>2 DEF Filters
  <2> QED BY <1>2, <2>2, <2>3 DEF Filtered
<1>3. CASE ~s.stop
  <2>1. PICK m \in Nat : /\ m <= s.w.rq[r].made
                         /\ Good(s.w, r, m)
                         /\ Pieces(View(s.w.rq, r, m), r, m, s.w.rq[r].made, s.out)
    BY <1>3 DEF Filtered, Read
  <2>2. /\ s.w \in Worlds /\ s.w.rq \in Seq(Request) /\ r \in DOMAIN s.w.rq
        /\ s.w.rq[r] \in Request /\ s.w.rq[r].made \in Nat /\ s.w.rq[r].path \in Path
        /\ DOMAIN s.w.rq \in SUBSET Nat
    <3>1. s.w \in Worlds /\ s.w.rq \in Seq(Request) /\ r \in DOMAIN s.w.rq /\ s.w.rq[r] \in Request
      BY <2>1, GoodType
    <3>2. s.w.rq[r].made \in Nat /\ s.w.rq[r].path \in Path
      BY <3>1 DEF Request
    <3>3. DOMAIN s.w.rq \in SUBSET Nat
      BY <3>1
    <3> QED BY <3>1, <3>2, <3>3
  <2>3. PICK n \in Nat : n = s.w.rq[r].made + 1 /\ m < n
    BY <2>1, <2>2
  <2>4. PICK path \in Path : path = Append(s.w.rq[r].path, n)
    BY <2>2, Longer
  <2>5. PICK x : x = [s.w.rq[r] EXCEPT !.made = n]
    OBVIOUS
  <2>6. /\ x \in Request /\ x.path = s.w.rq[r].path /\ x.parent = s.w.rq[r].parent
        /\ x.postponed = s.w.rq[r].postponed /\ x.made = n
    BY <2>2, <2>5 DEF Request
  <2>7. PICK w : w = [s.w EXCEPT !.rq = [@ EXCEPT ![r] = x]]
    OBVIOUS
  <2>8. w = [s.w EXCEPT !.rq[r].made = n]
    BY <2>5, <2>7
  <2>9. Good(w, r, m) /\ Touched(s.w, w, r, x)
    BY <2>1, <2>2, <2>6, <2>7, Touch
  <2>10. w \in Worlds /\ w.rq[r].made = n /\ w.rq[r].path = s.w.rq[r].path
    BY <2>6, <2>9 DEF Touched
  <2>11. View(w.rq, r, m) = View(s.w.rq, r, m)
    BY <2>6, <2>9, ViewSame DEF Touched
  <2>12. PICK V : V = View(w.rq, r, m)
    OBVIOUS
  <2>13. V \in [DOMAIN s.w.rq -> Node] /\ V[r].path = s.w.rq[r].path
    BY <2>2, <2>11, <2>12, ViewType
  <2>14. Pieces(V, r, m, n - 1, s.out) /\ path = Place(V, r, n)
    <3>1. n - 1 = s.w.rq[r].made
      BY <2>2, <2>3
    <3> QED BY <2>1, <2>4, <2>11, <2>12, <2>13, <3>1 DEF Place
  <2> DEFINE Made(sub) ==
               IF sub.rc = "ERROR" THEN [s EXCEPT !.w = Rc(sub, "OK"), !.out = <<path>>]
               ELSE IF item = "include" THEN [s EXCEPT !.w = sub, !.out = <<>>]
               ELSE [s EXCEPT !.w = [Rc(sub, "AGAIN") EXCEPT !.rq[r].wait = Len(sub.rq)],
                              !.stop = TRUE]
             Include(flushed) ==
               IF flushed.rc = "ERROR" THEN [s EXCEPT !.w = flushed, !.stop = TRUE]
               ELSE Once(Made, Subrequest(flushed, r, path, item = "wait"))
             start == IF s.out = <<>> THEN Rc(w, "OK") ELSE PostponeFilter(w, r, TRUE, s.out)
  <2>15. SsiItem(r, s, item) =
           IF item = "text" THEN [s EXCEPT !.w = w, !.out = Append(@, path)]
           ELSE Once(Include, start)
    BY <1>3, <2>3, <2>4, <2>8 DEF SsiItem
  <2>16. \A y : Once(Made, y) = Made(y)
    <3> SUFFICES ASSUME NEW y PROVE Once(Made, y) = Made(y)
      OBVIOUS
    <3> HIDE DEF Made
    <3>1. {Made(v) : v \in {y}} = {Made(y)}
      OBVIOUS
    <3> QED BY <3>1, OnlyElement DEF Once
  <2>17. \A y : Once(Include, y) = Include(y)
    <3> SUFFICES ASSUME NEW y PROVE Once(Include, y) = Include(y)
      OBVIOUS
    <3> HIDE DEF Include
    <3>1. {Include(v) : v \in {y}} = {Include(y)}
      OBVIOUS
    <3> QED BY <3>1, OnlyElement DEF Once
  <2>18. CASE item = "text"
    <3>1. PICK out : out = Append(s.out, path)
      OBVIOUS
    <3>2. out \in Seq(Path) /\ Pieces(V, r, m, n, out)
      BY <1>1, <2>2, <2>3, <2>13, <2>14, <3>1, MorePieces
    <3>3. PICK t : t = [s EXCEPT !.w = w, !.out = out]
      OBVIOUS
    <3>4. t \in Filters /\ t.w = w /\ t.out = out /\ t.stop = s.stop
      BY <1>1, <2>10, <3>2, <3>3 DEF Filters
    <3>5. Read(w, r, out)
      BY <2>3, <2>9, <2>10, <2>12, <3>2 DEF Read
    <3>6. SsiItem(r, s, item) = t
      BY <1>1, <2>15, <2>18, <3>1, <3>3 DEF Filters
    <3> QED BY <1>3, <3>4, <3>5, <3>6 DEF Filtered
  <2>19. CASE item # "text"
    <3>1. PICK f : f = start
      OBVIOUS
    <3>2. \E k \in Nat : k < n /\ Good(f, r, k) /\ f.rq[r].made = n /\ f.rq[r].path = s.w.rq[r].path
      <4>1. CASE s.out = <<>>
        <5>1. f = Rc(w, "OK")
          BY <3>1, <4>1
        <5>2. Good(f, r, m) /\ f.rq = w.rq
          BY <2>9, <5>1, SetRc DEF Codes
        <5> QED BY <2>3, <2>10, <5>2
      <4>2. CASE s.out # <<>>
        <5>1. f = PostponeFilter(w, r, TRUE, s.out)
          BY <3>1, <4>2
        <5>2. PICK h \in Nat : h = n - 1 /\ m <= h /\ h < n
          BY <2>3
        <5>3. Good(f, r, h) /\ SameMade(w.rq, f.rq)
          BY <1>1, <2>9, <2>12, <2>14, <5>1, <5>2, PostponeFilterOK
        <5>4. r \in DOMAIN w.rq
          BY <2>9, GoodType
        <5> QED BY <2>10, <5>2, <5>3, <5>4 DEF SameMade, SameTree
      <4> QED BY <4>1, <4>2
    <3>3. PICK k \in Nat : k < n /\ Good(f, r, k) /\ f.rq[r].made = n /\ f.rq[r].path = s.w.rq[r].path
      BY <3>2
    <3>4. f \in Worlds
      BY <3>3, GoodType
    <3>5. SsiItem(r, s, item) = Include(f)
      BY <2>15, <2>17, <2>19, <3>1
    <3>6. CASE f.rc = "ERROR"
      <4>1. PICK t : t = [s EXCEPT !.w = f, !.stop = TRUE]
        OBVIOUS
      <4>2. t \in Filters /\ t.w = f /\ t.stop = TRUE
        BY <1>1, <3>4, <4>1 DEF Filters
      <4>3. Good(f, r, n)
        BY <3>3, Skip
      <4>4. SsiItem(r, s, item) = t
        BY <3>5, <3>6, <4>1
      <4> QED BY <3>3, <4>2, <4>3, <4>4 DEF Filtered
    <3>7. CASE f.rc # "ERROR"
      <4>1. PICK sub : sub = Subrequest(f, r, path, item = "wait")
        OBVIOUS
      <4>2. SubrequestMade(f, sub, r, k, n)
        BY <2>4, <3>3, <4>1, SubrequestOK
      <4>3. SsiItem(r, s, item) = Made(sub)
        BY <2>16, <3>5, <3>7, <4>1
      <4>4. CASE sub.rc = "ERROR"
        <5>1. Good(sub, r, k) /\ sub.rq = f.rq
          BY <4>2, <4>4 DEF SubrequestMade
        <5>2. PICK u : u = Rc(sub, "OK")
          OBVIOUS
        <5>3. Good(u, r, k) /\ u.rq = f.rq
          BY <5>1, <5>2, SetRc DEF Codes
        <5>4. u \in Worlds /\ u.rq \in Seq(Request) /\ r \in DOMAIN u.rq /\ DOMAIN u.rq \in SUBSET Nat
          BY <5>3, GoodType
        <5>5. PICK U : U = View(u.rq, r, k)
          OBVIOUS
        <5>6. U \in [DOMAIN u.rq -> Node] /\ U[r].path = u.rq[r].path
          BY <5>4, <5>5, ViewType
        <5>7. path = Place(U, r, n)
          BY <2>4, <3>3, <5>3, <5>6 DEF Place
        <5>8. Pieces(U, r, k, n, <<path>>) /\ <<path>> \in Seq(Path)
          <6>1. Pieces(U, r, k, n - 1, <<>>) /\ <<>> \in Seq(Path)
            BY DEF Pieces, Sorted
          <6>2. Pieces(U, r, k, n, Append(<<>>, path))
            BY <3>3, <5>4, <5>6, <5>7, <6>1, MorePieces
          <6>3. Append(<<>>, path) = <<path>> /\ <<path>> \in Seq(Path)
            BY <2>4
          <6> QED BY <6>2, <6>3
        <5>9. PICK t : t = [s EXCEPT !.w = u, !.out = <<path>>]
          OBVIOUS
        <5>10. t \in Filters /\ t.w = u /\ t.out = <<path>> /\ t.stop = s.stop
          BY <1>1, <5>4, <5>8, <5>9 DEF Filters
        <5>11. Read(u, r, <<path>>)
          <6>1. k <= u.rq[r].made /\ u.rq[r].made = n
            BY <3>3, <5>3
          <6> QED BY <5>3, <5>5, <5>8, <6>1 DEF Read
        <5>12. SsiItem(r, s, item) = t
          BY <4>3, <4>4, <5>2, <5>9
        <5> QED BY <1>3, <5>10, <5>11, <5>12 DEF Filtered
      <4>5. CASE sub.rc # "ERROR"
        <5>1. Good(sub, r, n) /\ sub.rq[r].made = n
          BY <3>3, <4>2, <4>5 DEF SubrequestMade
        <5>2. sub \in Worlds /\ sub.rq \in Seq(Request) /\ r \in DOMAIN sub.rq /\ sub.rq[r] \in Request
          BY <5>1, GoodType
        <5>3. CASE item = "include"
          <6>1. PICK t : t = [s EXCEPT !.w = sub, !.out = <<>>]
            OBVIOUS
          <6>2. <<>> \in Seq(Path) /\ Pieces(View(sub.rq, r, n), r, n, n, <<>>)
            BY DEF Pieces, Sorted
          <6>3. t \in Filters /\ t.w = sub /\ t.out = <<>> /\ t.stop = s.stop
            BY <1>1, <5>2, <6>1, <6>2 DEF Filters
          <6>4. n <= sub.rq[r].made
            BY <5>1
          <6>5. Read(sub, r, <<>>)
            BY <5>1, <6>2, <6>4 DEF Read
          <6>6. SsiItem(r, s, item) = t
            BY <4>3, <4>5, <5>3, <6>1
          <6> QED BY <1>3, <6>3, <6>5, <6>6 DEF Filtered
        <5>4. CASE item # "include"
          <6>1. PICK l \in Nat : l = Len(sub.rq)
            BY <5>2
          <6>2. PICK u : u = Rc(sub, "AGAIN")
            OBVIOUS
          <6>3. Good(u, r, n) /\ u.rq = sub.rq
            BY <5>1, <6>2, SetRc DEF Codes
          <6>4. PICK y : y = [u.rq[r] EXCEPT !.wait = l]
            OBVIOUS
          <6>5. /\ y \in Request /\ y.path = u.rq[r].path /\ y.parent = u.rq[r].parent
                /\ y.postponed = u.rq[r].postponed /\ y.made = n
            BY <5>1, <5>2, <6>3, <6>4 DEF Request
          <6>6. PICK v : v = [u EXCEPT !.rq = [@ EXCEPT ![r] = y]]
            OBVIOUS
          <6>7. Good(v, r, n) /\ Touched(u, v, r, y)
            BY <5>2, <6>3, <6>5, <6>6, Touch
          <6>8. v \in Worlds /\ v.rq[r].made = n
            BY <6>5, <6>7 DEF Touched
          <6>9. PICK t : t = [s EXCEPT !.w = v, !.stop = TRUE]
            OBVIOUS
          <6>10. t \in Filters /\ t.w = v /\ t.stop = TRUE
            BY <1>1, <6>8, <6>9 DEF Filters
          <6>11. [u EXCEPT !.rq[r].wait = Len(sub.rq)] = v
            BY <6>1, <6>4, <6>6
          <6>12. SsiItem(r, s, item) = t
            BY <4>3, <4>5, <5>4, <6>2, <6>9, <6>11
          <6> QED BY <6>7, <6>8, <6>10, <6>12 DEF Filtered
        <5> QED BY <5>3, <5>4
      <4> QED BY <4>4, <4>5
    <3> QED BY <3>6, <3>7
  <2> QED BY <2>18, <2>19
<1> QED BY <1>1, <1>2, <1>3

(* The whole input through ngx_http_ssi_body_filter, item after item: in   *)
(* the end all that was read is given out, or the rest is kept.            *)
LEMMA SsiParseOK ==
  ASSUME NEW w, NEW r, Good(w, r, w.rq[r].made), NEW input \in Seq(Items)
  PROVE  LET v == SsiParse(w, r, input) IN Good(v, r, v.rq[r].made)
<1> DEFINE N == Len(input)
           b == [w |-> w, out |-> <<>>, stop |-> FALSE, rest |-> <<>>]
           S == {s \in Filters : Filtered(s, r)}
           P(f) == f = [k \in 0 .. Len(input) |->
                          IF k = 0 THEN [w |-> w, out |-> <<>>, stop |-> FALSE, rest |-> <<>>]
                          ELSE Once(LAMBDA s : SsiItem(r, s, input[k]), f[k - 1])]
           parsed[k \in 0 .. Len(input)] ==
             IF k = 0 THEN [w |-> w, out |-> <<>>, stop |-> FALSE, rest |-> <<>>]
             ELSE Once(LAMBDA s : SsiItem(r, s, input[k]), parsed[k - 1])
           Parsed(s) ==
             IF s.stop THEN [s.w EXCEPT !.rq[r].in = s.rest, !.rq[r].buffered = TRUE]
             ELSE [PostponeFilter([s.w EXCEPT !.rq[r].in = <<>>], r, TRUE, s.out)
                     EXCEPT !.rq[r].buffered = FALSE]
           g == [k \in 1 .. N |-> [s \in S |-> SsiItem(r, s, input[k])]]
<1>1. N \in Nat /\ \A k \in 1 .. N : input[k] \in Items
  BY ElementOfSeq
<1>2. b \in S
  <2>1. w \in Worlds /\ w.rq \in Seq(Request) /\ r \in DOMAIN w.rq /\ w.rq[r] \in Request
    BY GoodType
  <2>2. w.rq[r].made \in Nat
    BY <2>1 DEF Request
  <2>3. b \in Filters /\ b.w = w /\ b.out = <<>> /\ b.stop = FALSE
    BY <2>1 DEF Filters
  <2>4. Pieces(View(w.rq, r, w.rq[r].made), r, w.rq[r].made, w.rq[r].made, <<>>)
    BY DEF Pieces, Sorted
  <2>5. Read(w, r, <<>>)
    BY <2>2, <2>4 DEF Read
  <2> HIDE DEF b
  <2>6. Filtered(b, r)
    BY <2>3, <2>5 DEF Filtered
  <2> QED BY <2>3, <2>6
<1>3. ASSUME NEW s \in S, NEW k \in 1 .. N PROVE SsiItem(r, s, input[k]) \in S
  <2>1. Filtered(SsiItem(r, s, input[k]), r)
    BY <1>1, SsiItemOK
  <2> QED BY <2>1 DEF Filtered
<1>4. ASSUME NEW k, NEW x PROVE Once(LAMBDA s : SsiItem(r, s, input[k]), x) = SsiItem(r, x, input[k])
  <2>1. {SsiItem(r, v, input[k]) : v \in {x}} = {SsiItem(r, x, input[k])}
    OBVIOUS
  <2> QED BY <2>1, OnlyElement DEF Once
<1> HIDE DEF S, b
<1>5. g \in [1 .. N -> [S -> S]]
  BY <1>1, <1>3
<1>6. PICK h \in [0 .. N -> S] : Repeats(h, b, g, N)
  <2> HIDE DEF g, N
  <2> QED BY <1>1, <1>2, <1>5, Iteration
<1>7. \A n \in 1 .. N : n - 1 \in 0 .. N /\ n \in 0 .. N /\ n # 0
  BY <1>1
<1>8. P(h)
  <2>1. h[0] = b
    BY <1>6 DEF Repeats
  <2>2. ASSUME NEW n \in 1 .. N
        PROVE  h[n] = Once(LAMBDA s : SsiItem(r, s, input[n]), h[n - 1])
    <3>1. h[n] = g[n][h[n - 1]]
      BY <1>6 DEF Repeats
    <3>2. h[n - 1] \in S
      BY <1>6, <1>7
    <3>3. g[n] = [s \in S |-> SsiItem(r, s, input[n])]
      OBVIOUS
    <3> HIDE DEF g
    <3>4. h[n] = SsiItem(r, h[n - 1], input[n])
      BY <3>1, <3>2, <3>3
    <3> QED BY <1>4, <3>4
  <2>3. \A n \in 0 .. N : h[n] = IF n = 0 THEN b ELSE Once(LAMBDA s : SsiItem(r, s, input[n]), h[n - 1])
    <3> SUFFICES ASSUME NEW n \in 0 .. N, n # 0
                 PROVE  h[n] = Once(LAMBDA s : SsiItem(r, s, input[n]), h[n - 1])
      BY <2>1
    <3>1. n \in 1 .. N
      BY <1>1
    <3> QED BY <2>2, <3>1
  <2>4. h = [n \in 0 .. N |-> h[n]]
    BY <1>6
  <2> QED BY <2>3, <2>4 DEF b
<1>9. parsed = CHOOSE f : P(f)
  BY Zenon
<1>10. P(CHOOSE f : P(f))
  <2> HIDE DEF P
  <2> QED BY <1>8, Zenon
<1>11. SsiParse(w, r, input) = Once(Parsed, parsed[N])
  BY Zenon DEF SsiParse
<1> HIDE DEF parsed
<1>12. P(parsed)
  BY <1>9, <1>10
<1>13. \A n \in 0 .. N : parsed[n] = IF n = 0 THEN b ELSE SsiItem(r, parsed[n - 1], input[n])
  <2>1. \A n \in 0 .. N : parsed[n] = IF n = 0 THEN b ELSE Once(LAMBDA s : SsiItem(r, s, input[n]), parsed[n - 1])
    BY <1>12 DEF b
  <2> QED BY <1>4, <2>1
<1> HIDE DEF P
<1> DEFINE T == {n \in 0 .. N : parsed[n] \in S}
<1>14. 0 .. N \subseteq T
  <2>1. 0 \in T
    <3>1. 0 \in 0 .. N
      BY <1>1
    <3> QED BY <1>2, <1>13, <3>1
  <2>2. ASSUME NEW n \in 1 .. N, n - 1 \in T PROVE n \in T
    <3>1. parsed[n] = SsiItem(r, parsed[n - 1], input[n])
      BY <1>7, <1>13
    <3> QED BY <1>3, <1>7, <2>2, <3>1
  <2> HIDE DEF T
  <2> QED BY <1>1, <2>1, <2>2, Upto
<1>15. PICK s \in S : s = parsed[N]
  BY <1>1, <1>14
<1>16. SsiParse(w, r, input) = Parsed(s)
  <2>1. \A y : Once(Parsed, y) = Parsed(y)
    <3> SUFFICES ASSUME NEW y PROVE Once(Parsed, y) = Parsed(y)
      OBVIOUS
    <3> HIDE DEF Parsed
    <3>1. {Parsed(v) : v \in {y}} = {Parsed(y)}
      OBVIOUS
    <3> QED BY <3>1, OnlyElement DEF Once
  <2> HIDE DEF Parsed
  <2> QED BY <1>11, <1>15, <2>1
<1>17. Filtered(s, r) /\ s \in Filters
  BY DEF S
<1>18. s.w \in Worlds /\ s.out \in Seq(Path) /\ s.rest \in Seq(Items) /\ s.stop \in BOOLEAN
  BY <1>17 DEF Filters
<1>19. CASE s.stop
  <2>1. Good(s.w, r, s.w.rq[r].made)
    BY <1>17, <1>19 DEF Filtered
  <2>2. s.w.rq \in Seq(Request) /\ r \in DOMAIN s.w.rq /\ s.w.rq[r] \in Request
    BY <2>1, GoodType
  <2>3. PICK x : x = [s.w.rq[r] EXCEPT !.in = s.rest, !.buffered = TRUE]
    OBVIOUS
  <2>4. /\ x \in Request /\ x.path = s.w.rq[r].path /\ x.parent = s.w.rq[r].parent
        /\ x.postponed = s.w.rq[r].postponed /\ x.made = s.w.rq[r].made
    BY <1>18, <2>2, <2>3 DEF Request
  <2>5. PICK v : v = [s.w EXCEPT !.rq = [@ EXCEPT ![r] = x]]
    OBVIOUS
  <2>6. Good(v, r, s.w.rq[r].made) /\ Touched(s.w, v, r, x)
    BY <2>1, <2>2, <2>4, <2>5, Touch
  <2>7. v.rq[r].made = s.w.rq[r].made
    BY <2>4, <2>6 DEF Touched
  <2>8. SsiParse(w, r, input) = v
    BY <1>16, <1>18, <1>19, <2>2, <2>3, <2>5 DEF Worlds, Request
  <2> QED BY <2>6, <2>7, <2>8
<1>20. CASE ~s.stop
  <2>1. PICK m \in Nat : /\ m <= s.w.rq[r].made
                         /\ Good(s.w, r, m)
                         /\ Pieces(View(s.w.rq, r, m), r, m, s.w.rq[r].made, s.out)
    BY <1>17, <1>20 DEF Filtered, Read
  <2>2. s.w.rq \in Seq(Request) /\ r \in DOMAIN s.w.rq /\ s.w.rq[r] \in Request
    BY <2>1, GoodType
  <2>3. PICK n \in Nat : n = s.w.rq[r].made
    BY <2>2 DEF Request
  <2>4. PICK x : x = [s.w.rq[r] EXCEPT !.in = <<>>]
    OBVIOUS
  <2>5. /\ x \in Request /\ x.path = s.w.rq[r].path /\ x.parent = s.w.rq[r].parent
        /\ x.postponed = s.w.rq[r].postponed /\ x.made = n
    <3>1. <<>> \in Seq(Items)
      OBVIOUS
    <3> QED BY <2>2, <2>3, <2>4, <3>1 DEF Request
  <2>6. PICK v : v = [s.w EXCEPT !.rq = [@ EXCEPT ![r] = x]]
    OBVIOUS
  <2>7. Good(v, r, m) /\ Touched(s.w, v, r, x)
    BY <2>1, <2>2, <2>3, <2>5, <2>6, Touch
  <2>8. v.rq[r].made = n
    BY <2>5, <2>7 DEF Touched
  <2>9. View(v.rq, r, m) = View(s.w.rq, r, m)
    BY <2>5, <2>7, ViewSame DEF Touched
  <2>10. PICK u : u = PostponeFilter(v, r, TRUE, s.out)
    OBVIOUS
  <2>11. Good(u, r, n) /\ SameMade(v.rq, u.rq)
    <3>1. m <= n /\ Pieces(View(v.rq, r, m), r, m, n, s.out)
      BY <2>1, <2>3, <2>9
    <3> QED BY <1>18, <2>7, <2>10, <3>1, PostponeFilterOK
  <2>12. u.rq[r].made = n /\ u.rq \in Seq(Request) /\ r \in DOMAIN u.rq /\ u.rq[r] \in Request
    <3>1. r \in DOMAIN v.rq
      BY <2>7, GoodType
    <3>2. u.rq[r].made = n
      BY <2>8, <2>11, <3>1 DEF SameMade
    <3> QED BY <2>11, <3>2, GoodType
  <2>13. PICK y : y = [u.rq[r] EXCEPT !.buffered = FALSE]
    OBVIOUS
  <2>14. /\ y \in Request /\ y.path = u.rq[r].path /\ y.parent = u.rq[r].parent
         /\ y.postponed = u.rq[r].postponed /\ y.made = n
    BY <2>12, <2>13 DEF Request
  <2>15. PICK z : z = [u EXCEPT !.rq = [@ EXCEPT ![r] = y]]
    OBVIOUS
  <2>16. Good(z, r, n) /\ Touched(u, z, r, y)
    BY <2>11, <2>12, <2>14, <2>15, Touch
  <2>17. z.rq[r].made = n
    BY <2>14, <2>16 DEF Touched
  <2>18. SsiParse(w, r, input) = z
    <3>1. [s.w EXCEPT !.rq[r].in = <<>>] = v
      BY <2>4, <2>6
    <3>2. [u EXCEPT !.rq[r].buffered = FALSE] = z
      BY <2>13, <2>15
    <3> QED BY <1>16, <1>20, <2>10, <3>1, <3>2
  <2> QED BY <2>16, <2>17, <2>18
<1> QED BY <1>18, <1>19, <1>20

(* The state between two calls: every request has given out all it made. *)
LEMMA FineAll ==
  ASSUME NEW w
  PROVE  /\ Fine(w) => \A r \in DOMAIN w.rq : Good(w, r, w.rq[r].made)
         /\ \A r : Good(w, r, w.rq[r].made) => Fine(w) /\ r \in DOMAIN w.rq
<1>1. ASSUME Fine(w), NEW r \in DOMAIN w.rq PROVE Good(w, r, w.rq[r].made)
  BY <1>1, AnyRequest DEF Fine
<1>2. ASSUME NEW r, Good(w, r, w.rq[r].made) PROVE Fine(w) /\ r \in DOMAIN w.rq
  <2>1. Main \in DOMAIN w.rq /\ r \in DOMAIN w.rq
    BY <1>2, GoodType
  <2> QED BY <1>2, <2>1, AnyRequest DEF Fine
<1> QED BY <1>1, <1>2

(* What is known of such a state. *)
LEMMA FineType ==
  ASSUME NEW w, Fine(w)
  PROVE  /\ w \in Worlds /\ w.rq \in Seq(Request) /\ w.posted \in Seq(Nat)
         /\ w.stream \in Seq(Path) /\ w.count \in Int /\ w.subrequests \in Int
         /\ w.error \in BOOLEAN /\ w.buffered \in BOOLEAN /\ w.conn \in Ends /\ w.rc \in Codes
         /\ w.active \in DOMAIN w.rq /\ Main \in DOMAIN w.rq /\ PostedOK(w)
         /\ DOMAIN w.rq \in SUBSET Nat /\ NoReq \notin DOMAIN w.rq
         /\ \A q \in DOMAIN w.rq : w.rq[q] \in Request
         /\ \A q \in DOMAIN w.rq \ {Main} : w.rq[q].parent \in DOMAIN w.rq
<1>1. /\ w \in Worlds /\ w.rq \in Seq(Request) /\ w.posted \in Seq(Nat)
      /\ w.stream \in Seq(Path) /\ w.count \in Int /\ w.subrequests \in Int
      /\ w.error \in BOOLEAN /\ w.buffered \in BOOLEAN /\ w.conn \in Ends /\ w.rc \in Codes
      /\ w.active \in DOMAIN w.rq /\ Main \in DOMAIN w.rq /\ PostedOK(w)
      /\ \A q \in DOMAIN w.rq : w.rq[q] \in Request
      /\ \A q \in DOMAIN w.rq \ {Main} : w.rq[q].parent \in DOMAIN w.rq
  BY GoodType DEF Fine
<1>2. DOMAIN w.rq \in SUBSET Nat /\ NoReq \notin DOMAIN w.rq
  BY <1>1 DEF NoReq
<1> QED BY <1>1, <1>2

(* Steps that change neither the tree, the lists, nor what was sent. *)
Quiet(w, v) ==
  /\ v \in Worlds /\ SameMade(w.rq, v.rq)
  /\ \A q \in DOMAIN w.rq : v.rq[q].postponed = w.rq[q].postponed
  /\ v.active = w.active /\ v.stream = w.stream /\ PostedOK(v)

(* A quiet step keeps the order. *)
LEMMA QuietFine ==
  ASSUME NEW w, Fine(w), NEW v, Quiet(w, v)
  PROVE  Fine(v)
<1>1. Good(w, Main, w.rq[Main].made) /\ Main \in DOMAIN w.rq
  BY FineType DEF Fine
<1>2. Good(v, Main, w.rq[Main].made)
  BY <1>1, Minor DEF Quiet
<1>3. v.rq[Main].made = w.rq[Main].made
  BY <1>1 DEF Quiet, SameMade
<1> QED BY <1>2, <1>3 DEF Fine

(* So does setting a field of any request, where all that was made was     *)
(* given out.                                                              *)
LEMMA TouchFine ==
  ASSUME NEW w, Fine(w), NEW q \in DOMAIN w.rq, NEW x \in Request,
         x.path = w.rq[q].path, x.parent = w.rq[q].parent, x.postponed = w.rq[q].postponed,
         x.made = w.rq[q].made, NEW v, v = [w EXCEPT !.rq = [@ EXCEPT ![q] = x]]
  PROVE  Fine(v) /\ Touched(w, v, q, x)
<1>1. Good(w, q, w.rq[q].made)
  BY FineAll
<1>2. Good(v, q, w.rq[q].made) /\ Touched(w, v, q, x)
  BY <1>1, Touch
<1>3. v.rq[q].made = w.rq[q].made
  BY <1>2 DEF Touched
<1> QED BY <1>2, <1>3, FineAll

(* The filters of the output of a request. *)
LEMMA OutputFilterOK ==
  ASSUME NEW w, Fine(w), NEW r \in DOMAIN w.rq, NEW hasIn \in BOOLEAN, NEW items \in Seq(Items)
  PROVE  LET v == OutputFilter(w, r, hasIn, items) IN Fine(v) /\ r \in DOMAIN v.rq
<1>1. w.rq \in Seq(Request) /\ w.rq[r] \in Request /\ w \in Worlds
  BY FineType
<1>2. PICK q \in Request : q = w.rq[r]
  BY <1>1
<1>3. PICK input \in Seq(Items) : input = q.in \o items
  <2>1. q.in \in Seq(Items)
    BY DEF Request
  <2>2. q.in \o items \in Seq(Items)
    BY <2>1, ConcatProperties
  <2> QED BY <2>2
<1>4. PICK kept : kept = [w EXCEPT !.rq[r].in = input]
  OBVIOUS
<1>5. Fine(kept) /\ r \in DOMAIN kept.rq
  <2>1. PICK x : x = [w.rq[r] EXCEPT !.in = input]
    OBVIOUS
  <2>2. /\ x \in Request /\ x.path = w.rq[r].path /\ x.parent = w.rq[r].parent
        /\ x.postponed = w.rq[r].postponed /\ x.made = w.rq[r].made
    BY <1>1, <2>1 DEF Request
  <2>3. kept = [w EXCEPT !.rq = [@ EXCEPT ![r] = x]]
    BY <1>4, <2>1
  <2> QED BY <2>2, <2>3, TouchFine DEF Touched
<1>6. ASSUME NEW u, Fine(u), r \in DOMAIN u.rq
      PROVE  LET v == PostponeFilter(u, r, FALSE, <<>>) IN Fine(v) /\ r \in DOMAIN v.rq
  <2>1. PICK v : v = PostponeFilter(u, r, FALSE, <<>>)
    OBVIOUS
  <2>2. Good(u, r, u.rq[r].made)
    BY <1>6, FineAll
  <2>3. PICK n \in Nat : n = u.rq[r].made
    BY <2>2, GoodType
  <2>4. Pieces(View(u.rq, r, n), r, n, n, <<>>) /\ <<>> \in Seq(Path) /\ FALSE \in BOOLEAN /\ n <= n
    BY DEF Pieces, Sorted
  <2>5. Good(v, r, n) /\ SameMade(u.rq, v.rq)
    BY <2>1, <2>2, <2>3, <2>4, PostponeFilterOK
  <2>6. v.rq[r].made = n
    BY <1>6, <2>3, <2>5 DEF SameMade
  <2>7. Good(v, r, v.rq[r].made)
    BY <2>5, <2>6
  <2> QED BY <2>1, <2>7, FineAll
<1>7. ASSUME NEW u, Fine(u), r \in DOMAIN u.rq
      PROVE  LET v == SsiParse(u, r, input) IN Fine(v) /\ r \in DOMAIN v.rq
  <2>1. PICK v : v = SsiParse(u, r, input)
    OBVIOUS
  <2>2. Good(u, r, u.rq[r].made)
    BY <1>7, FineAll
  <2>3. Good(v, r, v.rq[r].made)
    BY <2>1, <2>2, SsiParseOK
  <2> QED BY <2>1, <2>3, FineAll
<1>8. PICK v : v = OutputFilter(w, r, hasIn, items)
  OBVIOUS
<1>9. v = IF ~hasIn /\ ~q.buffered THEN PostponeFilter(w, r, FALSE, <<>>)
          ELSE IF q.wait = NoReq THEN SsiParse(w, r, input)
          ELSE IF w.active # r THEN Rc(kept, "AGAIN")
          ELSE IF ~w.rq[q.wait].done THEN PostponeFilter(kept, r, FALSE, <<>>)
          ELSE SsiParse([w EXCEPT !.rq[r].wait = NoReq], r, input)
  BY <1>2, <1>3, <1>4, <1>8 DEF OutputFilter
<1>10. Fine(Rc(kept, "AGAIN")) /\ r \in DOMAIN Rc(kept, "AGAIN").rq
  <2>1. Good(kept, r, kept.rq[r].made)
    BY <1>5, FineAll
  <2>2. Good(Rc(kept, "AGAIN"), r, kept.rq[r].made) /\ Rc(kept, "AGAIN").rq = kept.rq
    BY <2>1, SetRc DEF Codes
  <2>3. Good(Rc(kept, "AGAIN"), r, Rc(kept, "AGAIN").rq[r].made)
    BY <2>2
  <2> QED BY <2>3, FineAll
<1>11. PICK u : u = [w EXCEPT !.rq[r].wait = NoReq]
  OBVIOUS
<1>12. Fine(u) /\ r \in DOMAIN u.rq
  <2>1. PICK x : x = [w.rq[r] EXCEPT !.wait = NoReq]
    OBVIOUS
  <2>2. /\ x \in Request /\ x.path = w.rq[r].path /\ x.parent = w.rq[r].parent
        /\ x.postponed = w.rq[r].postponed /\ x.made = w.rq[r].made
    BY <1>1, <2>1 DEF Request, NoReq
  <2>3. u = [w EXCEPT !.rq = [@ EXCEPT ![r] = x]]
    BY <1>11, <2>1
  <2> QED BY <2>2, <2>3, TouchFine DEF Touched
<1> QED BY <1>5, <1>6, <1>7, <1>8, <1>9, <1>10, <1>11, <1>12

(* The references do not bear on the order. *)
LEMMA CountFine ==
  ASSUME NEW w, Fine(w), NEW c \in Int
  PROVE  Fine([w EXCEPT !.count = c]) /\ [w EXCEPT !.count = c].rq = w.rq
<1>1. w \in Worlds /\ PostedOK(w)
  BY FineType
<1>2. PICK v : v = [w EXCEPT !.count = c]
  OBVIOUS
<1>3. /\ v \in Worlds /\ v.rq = w.rq /\ v.active = w.active /\ v.stream = w.stream
      /\ v.posted = w.posted
  BY <1>1, <1>2 DEF Worlds
<1>4. Quiet(w, v)
  BY <1>1, <1>3 DEF Quiet, SameMade, SameTree, PostedOK
<1> QED BY <1>2, <1>3, <1>4, QuietFine

(* Nor does the connection. *)
LEMMA CloseFine ==
  ASSUME NEW w, Fine(w), NEW fate \in Fates
  PROVE  Fine(CloseRequest(w)) /\ Fine(FinalizeConnection(w, fate))
<1>1. /\ w \in Worlds /\ PostedOK(w) /\ w.count \in Int /\ w.conn \in Ends
      /\ "closed" \in Ends /\ fate \in Ends
  BY FineType DEF Ends, Fates
<1>2. ASSUME NEW v, NEW c \in Int, NEW e \in Ends, v = [w EXCEPT !.count = c, !.conn = e]
      PROVE  Fine(v)
  <2>1. /\ v \in Worlds /\ v.rq = w.rq /\ v.active = w.active /\ v.stream = w.stream
        /\ v.posted = w.posted
    BY <1>1, <1>2 DEF Worlds
  <2>2. Quiet(w, v)
    BY <1>1, <2>1 DEF Quiet, SameMade, SameTree, PostedOK
  <2> QED BY <2>2, QuietFine
<1>3. Fine(CloseRequest(w))
  <2>1. w.count - 1 \in Int /\ (IF w.count = 1 THEN "closed" ELSE w.conn) \in Ends
    BY <1>1
  <2>2. CloseRequest(w) = [w EXCEPT !.count = w.count - 1,
                                    !.conn = IF w.count = 1 THEN "closed" ELSE w.conn]
    BY DEF CloseRequest
  <2> QED BY <1>2, <2>1, <2>2
<1>4. Fine(FinalizeConnection(w, fate))
  <2>1. (IF fate = "keepalive" THEN 0 ELSE 1) \in Int
    OBVIOUS
  <2>2. PICK v : v = [w EXCEPT !.count = IF fate = "keepalive" THEN 0 ELSE 1, !.conn = fate]
    OBVIOUS
  <2>3. Fine(v)
    BY <1>1, <1>2, <2>1, <2>2
  <2>4. v = [w EXCEPT !.conn = fate, !.count = IF fate = "keepalive" THEN 0 ELSE 1]
    BY <1>1, <2>2 DEF Worlds
  <2> QED BY <1>3, <2>3, <2>4 DEF FinalizeConnection
<1> QED BY <1>3, <1>4

(* ngx_http_terminate_request takes no output and gives none. *)
LEMMA TerminateFine ==
  ASSUME NEW w, Fine(w), NEW r
  PROVE  Fine(Terminate(w, r))
<1>1. /\ w \in Worlds /\ w.rq \in Seq(Request) /\ w.count \in Int /\ Main \in DOMAIN w.rq
      /\ \A q \in DOMAIN w.rq : w.rq[q] \in Request
  BY FineType
<1> DEFINE others == Running(w) \ {r}
           Ended(s) == IF s = Main THEN "terminate"
                       ELSE IF s \in others THEN "empty" ELSE w.rq[s].write_event_handler
<1>2. Cardinality(others) \in Nat
  <2>1. DOMAIN w.rq = 1 .. Len(w.rq) /\ Len(w.rq) \in Nat
    BY <1>1
  <2>2. IsFiniteSet(DOMAIN w.rq)
    BY <2>1, FS_Interval
  <2>3. IsFiniteSet(others)
    BY <2>2, FS_Subset DEF Running
  <2> QED BY <2>3, FS_CardinalityType
<1>3. \A s \in DOMAIN w.rq : Ended(s) \in Handlers
  BY <1>1 DEF Request, Handlers
<1> HIDE DEF others, Ended
<1>4. PICK rs : rs = [s \in DOMAIN w.rq |-> [w.rq[s] EXCEPT !.write_event_handler = Ended(s)]]
  OBVIOUS
<1>5. ASSUME NEW s \in DOMAIN w.rq
      PROVE  /\ rs[s] \in Request /\ rs[s].path = w.rq[s].path /\ rs[s].parent = w.rq[s].parent
             /\ rs[s].postponed = w.rq[s].postponed /\ rs[s].made = w.rq[s].made
  <2>1. rs[s] = [w.rq[s] EXCEPT !.write_event_handler = Ended(s)]
    BY <1>4
  <2> QED BY <1>1, <1>3, <2>1 DEF Request
<1>6. rs \in Seq(Request) /\ DOMAIN rs = DOMAIN w.rq
  <2>1. DOMAIN w.rq = 1 .. Len(w.rq) /\ Len(w.rq) \in Nat /\ DOMAIN rs = DOMAIN w.rq
    BY <1>1, <1>4
  <2>2. rs \in [1 .. Len(w.rq) -> Request]
    BY <1>4, <1>5, <2>1
  <2> QED BY <2>1, <2>2, SeqDef
<1>7. PICK v : v = [w EXCEPT !.rq = rs, !.count = @ - Cardinality(others), !.posted = <<Main>>]
  OBVIOUS
<1>8. Terminate(w, r) = v
  BY <1>4, <1>7 DEF Terminate, others, Ended
<1>9. <<Main>> \in Seq(Nat) /\ \A i \in DOMAIN <<Main>> : <<Main>>[i] \in DOMAIN w.rq
  BY <1>1 DEF Main
<1>10. /\ v \in Worlds /\ v.rq = rs /\ v.active = w.active /\ v.stream = w.stream
       /\ v.posted = <<Main>>
  <2>1. PICK c \in Int : c = w.count - Cardinality(others)
    BY <1>1, <1>2
  <2>2. PICK p \in Seq(Nat) : p = <<Main>>
    BY <1>9
  <2>3. v = [w EXCEPT !.rq = rs, !.count = c, !.posted = p]
    BY <1>7, <2>1, <2>2
  <2> QED BY <1>1, <1>6, <2>2, <2>3 DEF Worlds
<1>11. PostedOK(v)
  BY <1>6, <1>9, <1>10 DEF PostedOK
<1>12. Quiet(w, v)
  BY <1>5, <1>6, <1>10, <1>11 DEF Quiet, SameMade, SameTree
<1> QED BY <1>8, <1>12, QuietFine

(* The parent of an active subrequest has it at the head of its list, if   *)
(* it is there.                                                            *)
LEMMA ActiveFirst ==
  ASSUME NEW w, Fine(w), w.active # Main, NEW list, list = w.rq[w.rq[w.active].parent].postponed,
         NEW k \in DOMAIN list, list[k].request = w.active
  PROVE  k = 1
<1>1. PICK r, p : r = w.active /\ p = w.rq[r].parent
  OBVIOUS
<1>2. /\ r \in DOMAIN w.rq /\ p \in DOMAIN w.rq /\ w.rq \in Seq(Request) /\ r # NoReq
      /\ r # Main /\ Main \in DOMAIN w.rq
  BY <1>1, FineType
<1>3. PICK m \in Nat : m = w.rq[Main].made
  <2>1. w.rq[Main] \in Request
    BY FineType
  <2> QED BY <2>1 DEF Request
<1>4. PICK V : V = View(w.rq, Main, m)
  OBVIOUS
<1>5. /\ DOMAIN V = DOMAIN w.rq /\ V[r].parent = p /\ V[p].list = list
      /\ V[p].path \in Path
  <2>1. w.rq[p].path \in Path
    <3>1. w.rq[p] \in Request
      BY <1>2, FineType
    <3> QED BY <3>1 DEF Request
  <2> QED BY <1>1, <1>2, <1>4, <2>1 DEF View
<1>6. Ordered(V, r, w.stream)
  BY <1>1, <1>3, <1>4 DEF Fine, Good
<1>7. Rooted(V) /\ FirstOK(V, r, p)
  BY <1>2, <1>5, <1>6, Zenon DEF Ordered
<1>8. PICK n \in 1 .. V[p].given : V[r].path = Place(V, p, n)
  BY <1>2, <1>5, <1>7 DEF Rooted
<1>9. n \in Nat /\ Place(V, p, n) \in Path
  BY <1>5, <1>8, Longer DEF Place
<1>10. Entered(V, r, p, n)
  BY <1>8, <1>9, PrefixSelf DEF Entered
<1>11. Has(V, p, list[k], n)
  BY <1>1, <1>2, <1>8 DEF Has
<1> QED BY <1>5, <1>7, <1>9, <1>10, <1>11, Zenon DEF FirstOK

(* ngx_http_post_request, with the counters of the main request. *)
LEMMA PostFine ==
  ASSUME NEW w, Fine(w), NEW r \in DOMAIN w.rq, NEW c \in Int, NEW s \in Int,
         NEW v, v = Post([w EXCEPT !.count = c, !.subrequests = s], r)
  PROVE  Fine(v)
<1>1. /\ w \in Worlds /\ w.posted \in Seq(Nat) /\ DOMAIN w.rq \in SUBSET Nat /\ PostedOK(w)
  BY FineType
<1>2. PICK p : p = Append(w.posted, r)
  OBVIOUS
<1>3. p \in Seq(Nat) /\ \A i \in DOMAIN p : p[i] \in DOMAIN w.rq
  <2>1. \A i \in DOMAIN w.posted : w.posted[i] \in DOMAIN w.rq
    BY <1>1 DEF PostedOK
  <2> QED BY <1>1, <1>2, <2>1, PostOK
<1>4. v = [w EXCEPT !.count = c, !.subrequests = s, !.posted = p, !.rc = "OK"]
  BY <1>1, <1>2 DEF Post, Worlds
<1>5. /\ v \in Worlds /\ v.rq = w.rq /\ v.active = w.active /\ v.stream = w.stream
      /\ v.posted = p
  BY <1>1, <1>3, <1>4 DEF Worlds, Codes
<1>6. PostedOK(v)
  BY <1>3, <1>5 DEF PostedOK
<1>7. Quiet(w, v)
  BY <1>5, <1>6 DEF Quiet, SameMade, SameTree
<1> QED BY <1>7, QuietFine

(* The end of a subrequest gives the turn back to its parent, or leaves it *)
(* to the finalizer.                                                       *)
LEMMA FinalizeSubFine ==
  ASSUME NEW w, Fine(w), NEW r \in DOMAIN w.rq, r # Main
  PROVE  Fine(FinalizeSub(w, r))
<1>1. /\ w \in Worlds /\ w.rq \in Seq(Request) /\ w.rq[r] \in Request /\ r # NoReq
      /\ w.count \in Int /\ w.subrequests \in Int /\ w.rq[r].parent \in DOMAIN w.rq
  BY FineType
<1>2. PICK p \in DOMAIN w.rq : p = w.rq[r].parent
  BY <1>1
<1>3. PICK list \in Seq(Entry) : list = w.rq[p].postponed
  <2>1. w.rq[p] \in Request
    BY FineType
  <2> QED BY <2>1 DEF Request
<1>4. PICK n \in Nat : n = w.rq[Main].made
  <2>1. Main \in DOMAIN w.rq /\ w.rq[Main] \in Request
    BY FineType
  <2> QED BY <2>1 DEF Request
<1>5. CASE w.active = r
  <2>1. PICK x : x = [w.rq[r] EXCEPT !.done = TRUE]
    OBVIOUS
  <2>2. /\ x \in Request /\ x.path = w.rq[r].path /\ x.parent = w.rq[r].parent
        /\ x.postponed = w.rq[r].postponed /\ x.made = w.rq[r].made
    BY <1>1, <2>1 DEF Request
  <2>3. PICK u : u = [w EXCEPT !.rq = [@ EXCEPT ![r] = x]]
    OBVIOUS
  <2>4. Fine(u) /\ Touched(w, u, r, x)
    BY <2>2, <2>3, TouchFine
  <2>5. /\ u \in Worlds /\ u.rq \in Seq(Request) /\ DOMAIN u.rq = DOMAIN w.rq /\ u.active = r
        /\ u.rq[r].parent = p /\ u.rq[p].postponed = list /\ u.posted = w.posted
        /\ PostedOK(u) /\ Main \in DOMAIN u.rq /\ u.stream \in Seq(Path)
    <3>1. u.rq[p].postponed = list
      BY <1>3, <2>2, <2>4 DEF Touched
    <3> QED BY <1>2, <1>5, <2>2, <2>4, <3>1, FineType DEF Touched
  <2>6. PICK rest : rest = IF list # <<>> /\ Head(list).request = r THEN Tail(list) ELSE list
    OBVIOUS
  <2>7. /\ rest \in Seq(Entry)
        /\ \A k \in DOMAIN rest : rest[k].request # r
    <3>1. \A k \in DOMAIN list : list[k].request = r => k = 1
      BY <1>2, <1>3, <1>5, ActiveFirst
    <3>2. CASE list # <<>> /\ Head(list).request = r
      <4>1. rest = Tail(list)
        BY <2>6, <3>2
      <4>2. /\ rest \in Seq(Entry) /\ Len(rest) = Len(list) - 1 /\ Len(list) \in Nat
            /\ \A k \in 1 .. Len(list) - 1 : rest[k] = list[k + 1]
        BY <3>2, <4>1, HeadTailProperties
      <4>3. ASSUME NEW k \in DOMAIN rest PROVE rest[k].request # r
        <5>1. k \in 1 .. Len(list) - 1 /\ k + 1 \in DOMAIN list /\ k + 1 # 1
          BY <4>2
        <5> QED BY <3>1, <4>2, <5>1
      <4> QED BY <4>2, <4>3
    <3>3. CASE ~(list # <<>> /\ Head(list).request = r)
      <4>1. rest = list
        BY <2>6, <3>3
      <4>2. ASSUME NEW k \in DOMAIN list, list[k].request = r PROVE FALSE
        <5>1. k = 1 /\ list # <<>>
          BY <3>1, <4>2
        <5>2. Head(list) = list[1]
          BY <5>1, HeadTailProperties
        <5> QED BY <3>3, <4>2, <5>1, <5>2
      <4> QED BY <4>1, <4>2
    <3> QED BY <3>2, <3>3
  <2>8. PICK y : y = SetList(u, p, rest)
    OBVIOUS
  <2>9. /\ y \in Worlds /\ OnlyOne(u.rq, y.rq, p) /\ SameMade(u.rq, y.rq)
        /\ y.rq[p].postponed = rest /\ y.active = r /\ y.posted = w.posted
        /\ y.stream = u.stream
    <3>1. p \in DOMAIN u.rq
      BY <1>2, <2>5
    <3>2. ListSet(u, y, p, rest)
      BY <2>5, <2>7, <2>8, <3>1, SetListOK
    <3> QED BY <2>5, <3>2 DEF ListSet
  <2>10. PostedOK(y)
    BY <2>5, <2>9 DEF PostedOK, SameMade, SameTree
  <2>11. Fine(y)
    <3>1. CASE list # <<>> /\ Head(list).request = r
      <4>1. Good(u, p, u.rq[p].made)
        BY <2>4, <2>5, FineAll
      <4>2. y.rq[p].postponed = Tail(u.rq[p].postponed) /\ u.rq[p].postponed # <<>>
        BY <2>5, <2>6, <2>9, <3>1
      <4>3. <<>> \in Seq(Path) /\ y.stream = u.stream \o <<>>
        BY <2>5, <2>9, ConcatEmptySeq
      <4>4. Good(y, p, u.rq[p].made)
        BY <2>5, <2>9, <2>10, <4>1, <4>2, <4>3, DropStep
      <4>5. y.rq[p].made = u.rq[p].made
        BY <2>5, <2>9 DEF SameMade
      <4>6. Good(y, p, y.rq[p].made)
        BY <4>4, <4>5
      <4> QED BY <4>6, FineAll
    <3>2. CASE ~(list # <<>> /\ Head(list).request = r)
      <4>1. rest = list
        BY <2>6, <3>2
      <4>2. Quiet(u, y)
        BY <2>5, <2>9, <2>10, <4>1 DEF Quiet, OnlyOne
      <4> QED BY <2>4, <4>2, QuietFine
    <3> QED BY <3>1, <3>2
  <2>12. PICK z : z = [y EXCEPT !.active = p]
    OBVIOUS
  <2>13. /\ z \in Worlds /\ z.rq = y.rq /\ z.active = p /\ z.stream = y.stream
         /\ z.posted = y.posted /\ p \in Nat
    <3>1. p \in Nat
      BY <1>2, FineType
    <3> QED BY <2>9, <2>12, <3>1 DEF Worlds
  <2>14. Fine(z)
    <3>1. PostedOK(z)
      BY <2>10, <2>13 DEF PostedOK
    <3>2. y.rq[r].parent = p
      BY <2>5, <2>9 DEF SameMade, SameTree
    <3>3. Good(y, r, y.rq[r].made)
      <4>1. r \in DOMAIN y.rq
        BY <2>5, <2>9 DEF SameMade, SameTree
      <4> QED BY <2>11, <4>1, FineAll
    <3>4. Good(z, r, y.rq[r].made)
      BY <2>7, <2>9, <2>13, <3>1, <3>2, <3>3, LeaveStep
    <3>5. Good(z, r, z.rq[r].made)
      BY <2>13, <3>4
    <3> QED BY <3>5, FineAll
  <2>15. FinalizeSub(w, r) = Post([z EXCEPT !.count = w.count - 1, !.subrequests = w.subrequests + 1], p)
    <3>1. FinalizeSub(w, r) =
            Post([w EXCEPT !.rq[r].done = TRUE, !.rq[p].postponed = rest, !.count = @ - 1,
                           !.subrequests = @ + 1, !.active = p], p)
      BY <1>2, <1>3, <1>5, <2>6 DEF FinalizeSub
    <3>2. PICK rs : rs = y.rq
      OBVIOUS
    <3>3. y = [w EXCEPT !.rq[r].done = TRUE, !.rq[p].postponed = rest]
      BY <2>1, <2>3, <2>8 DEF SetList
    <3>4. z = [w EXCEPT !.rq[r].done = TRUE, !.rq[p].postponed = rest, !.active = p]
      BY <2>12, <3>3
    <3>5. [w EXCEPT !.rq[r].done = TRUE, !.rq[p].postponed = rest, !.count = @ - 1,
                    !.subrequests = @ + 1, !.active = p]
            = [z EXCEPT !.count = w.count - 1, !.subrequests = w.subrequests + 1]
      BY <1>1, <3>4 DEF Worlds
    <3> QED BY <3>1, <3>5
  <2>16. p \in DOMAIN z.rq
    BY <2>5, <2>9, <2>13 DEF SameMade, SameTree
  <2>17. PICK c \in Int, k \in Int : c = w.count - 1 /\ k = w.subrequests + 1
    BY <1>1
  <2>18. FinalizeSub(w, r) = Post([z EXCEPT !.count = c, !.subrequests = k], p)
    BY <2>15, <2>17
  <2> QED BY <2>14, <2>16, <2>18, PostFine
<1>6. CASE w.active # r
  <2>1. PICK x : x = [w.rq[r] EXCEPT !.write_event_handler = "finalizer", !.done = w.rq[r].waited]
    OBVIOUS
  <2>2. /\ x \in Request /\ x.path = w.rq[r].path /\ x.parent = w.rq[r].parent
        /\ x.postponed = w.rq[r].postponed /\ x.made = w.rq[r].made
    BY <1>1, <2>1 DEF Request, Handlers
  <2>3. PICK u : u = [w EXCEPT !.rq = [@ EXCEPT ![r] = x]]
    OBVIOUS
  <2>4. Fine(u) /\ Touched(w, u, r, x)
    BY <2>2, <2>3, TouchFine
  <2>5. u.count \in Int /\ u.subrequests \in Int /\ p \in DOMAIN u.rq
    BY <2>4, FineType DEF Touched
  <2>6. FinalizeSub(w, r) = Post(u, p)
    <3>1. u = [w EXCEPT !.rq[r].write_event_handler = "finalizer", !.rq[r].done = w.rq[r].waited]
      BY <1>1, <2>1, <2>3
    <3> QED BY <1>2, <1>6, <3>1 DEF FinalizeSub
  <2>7. u = [u EXCEPT !.count = u.count, !.subrequests = u.subrequests]
    <3>1. u \in Worlds
      BY <2>4, FineType
    <3> QED BY <3>1 DEF Worlds
  <2>8. Post(u, p) = Post([u EXCEPT !.count = u.count, !.subrequests = u.subrequests], p)
    BY <2>7
  <2> QED BY <2>4, <2>5, <2>6, <2>8, PostFine
<1> QED BY <1>5, <1>6

(* The handler of a request, and whether it is done, do not bear on the    *)
(* order.                                                                  *)
LEMMA HandlerFine ==
  ASSUME NEW w, Fine(w), NEW r \in DOMAIN w.rq, NEW h \in Handlers, NEW d \in BOOLEAN,
         NEW left \in Seq(Items)
  PROVE  LET v == [w EXCEPT !.rq[r].write_event_handler = h, !.rq[r].done = d, !.rq[r].left = left]
         IN  Fine(v) /\ DOMAIN v.rq = DOMAIN w.rq
<1>1. w \in Worlds /\ w.rq \in Seq(Request) /\ w.rq[r] \in Request
  BY FineType
<1>2. PICK x : x = [w.rq[r] EXCEPT !.write_event_handler = h, !.done = d, !.left = left]
  OBVIOUS
<1>3. /\ x \in Request /\ x.path = w.rq[r].path /\ x.parent = w.rq[r].parent
      /\ x.postponed = w.rq[r].postponed /\ x.made = w.rq[r].made
  BY <1>1, <1>2 DEF Request
<1>4. PICK v : v = [w EXCEPT !.rq = [@ EXCEPT ![r] = x]]
  OBVIOUS
<1>5. Fine(v) /\ Touched(w, v, r, x)
  BY <1>3, <1>4, TouchFine
<1>6. v = [w EXCEPT !.rq[r].write_event_handler = h, !.rq[r].done = d, !.rq[r].left = left]
  BY <1>1, <1>2, <1>4
<1> QED BY <1>5, <1>6 DEF Touched

(* ngx_http_finalize_request keeps the order. *)
LEMMA FinalizeFine ==
  ASSUME NEW w, Fine(w), NEW r \in DOMAIN w.rq, NEW rc, NEW fate \in Fates
  PROVE  Fine(Finalize(w, r, rc, fate))
<1>1. w \in Worlds /\ w.rq \in Seq(Request) /\ w.rq[r] \in Request
  BY FineType
<1>2. w.rq[r].done \in BOOLEAN /\ w.rq[r].left \in Seq(Items) /\ {"writer", "empty"} \subseteq Handlers
  BY <1>1 DEF Request, Handlers
<1>3. ASSUME NEW h \in Handlers, NEW d \in BOOLEAN
      PROVE  Fine([w EXCEPT !.rq[r].write_event_handler = h, !.rq[r].done = d])
  <2>1. PICK v : v = [w EXCEPT !.rq[r].write_event_handler = h, !.rq[r].done = d, !.rq[r].left = w.rq[r].left]
    OBVIOUS
  <2>2. Fine(v)
    BY <1>2, <2>1, HandlerFine
  <2>3. v = [w EXCEPT !.rq[r].write_event_handler = h, !.rq[r].done = d]
    BY <1>1, <2>1 DEF Request
  <2> QED BY <2>2, <2>3
<1>4. Fine([w EXCEPT !.rq[r].write_event_handler = "writer"])
  <2>1. Fine([w EXCEPT !.rq[r].write_event_handler = "writer", !.rq[r].done = w.rq[r].done])
    BY <1>2, <1>3
  <2>2. [w EXCEPT !.rq[r].write_event_handler = "writer", !.rq[r].done = w.rq[r].done]
          = [w EXCEPT !.rq[r].write_event_handler = "writer"]
    BY <1>1 DEF Request
  <2> QED BY <2>1, <2>2
<1>5. Fine([w EXCEPT !.rq[r].done = TRUE, !.rq[r].write_event_handler = "empty"])
  <2>1. Fine([w EXCEPT !.rq[r].write_event_handler = "empty", !.rq[r].done = TRUE])
    BY <1>2, <1>3
  <2>2. [w EXCEPT !.rq[r].write_event_handler = "empty", !.rq[r].done = TRUE]
          = [w EXCEPT !.rq[r].done = TRUE, !.rq[r].write_event_handler = "empty"]
    BY <1>1 DEF Request
  <2> QED BY <2>1, <2>2
<1>6. Fine(FinalizeConnection([w EXCEPT !.rq[r].done = TRUE, !.rq[r].write_event_handler = "empty"], fate))
  BY <1>5, CloseFine
<1>7. Fine(Terminate(w, r))
  BY TerminateFine
<1>8. r # Main => Fine(FinalizeSub(w, r))
  BY FinalizeSubFine
<1> QED BY <1>4, <1>6, <1>7, <1>8 DEF Finalize

(* A handler of a request is set before it runs. *)
LEMMA SetHandler ==
  ASSUME NEW w, Fine(w), NEW r \in DOMAIN w.rq, NEW h \in Handlers
  PROVE  LET v == [w EXCEPT !.rq[r].write_event_handler = h]
         IN  Fine(v) /\ DOMAIN v.rq = DOMAIN w.rq
<1>1. w \in Worlds /\ w.rq \in Seq(Request) /\ w.rq[r] \in Request
  BY FineType
<1>2. PICK x : x = [w.rq[r] EXCEPT !.write_event_handler = h]
  OBVIOUS
<1>3. /\ x \in Request /\ x.path = w.rq[r].path /\ x.parent = w.rq[r].parent
      /\ x.postponed = w.rq[r].postponed /\ x.made = w.rq[r].made
  BY <1>1, <1>2 DEF Request
<1>4. PICK v : v = [w EXCEPT !.rq = [@ EXCEPT ![r] = x]]
  OBVIOUS
<1>5. Fine(v) /\ Touched(w, v, r, x)
  BY <1>3, <1>4, TouchFine
<1> QED BY <1>2, <1>4, <1>5 DEF Touched

(* The page of a request is a page. *)
LEMMA PageType ==
  ASSUME site \in Sites, NEW r
  PROVE  /\ Page(r).items \in Seq(Items)
         /\ Page(r).kind \in {"static", "upstream", "failed"}
<1>1. site \in Seq([kind : {"static", "upstream", "failed"}, items : Seq(Items)])
  BY SitesAssumption
<1>2. r \in DOMAIN site => site[r] \in [kind : {"static", "upstream", "failed"}, items : Seq(Items)]
  <2>1. DOMAIN site = 1 .. Len(site)
    BY <1>1, LenProperties
  <2> QED BY <1>1, <2>1, ElementOfSeq
<1> QED BY <1>2 DEF Page

(* A handler that sends output and is finalized keeps the order, whatever  *)
(* became of the output.                                                   *)
LEMMA OutputFine ==
  ASSUME NEW w, Fine(w), NEW r \in DOMAIN w.rq, NEW hasIn \in BOOLEAN, NEW items \in Seq(Items),
         NEW fate \in Fates
  PROVE  LET o == OutputFilter(w, r, hasIn, items)
         IN  /\ Fine(o) /\ r \in DOMAIN o.rq
             /\ \A rc : Fine(Finalize(o, r, rc, fate))
             /\ \A rc : Fine(Finalize([o EXCEPT !.rq[r].write_event_handler = "empty"], r, rc, fate))
<1>1. PICK o : o = OutputFilter(w, r, hasIn, items)
  OBVIOUS
<1>2. Fine(o) /\ r \in DOMAIN o.rq
  BY <1>1, OutputFilterOK
<1>3. \A rc : Fine(Finalize(o, r, rc, fate))
  BY <1>2, FinalizeFine
<1>4. PICK e : e = [o EXCEPT !.rq[r].write_event_handler = "empty"]
  OBVIOUS
<1>5. Fine(e) /\ r \in DOMAIN e.rq
  <2>1. "empty" \in Handlers
    BY DEF Handlers
  <2> QED BY <1>2, <1>4, <2>1, SetHandler
<1>6. \A rc : Fine(Finalize(e, r, rc, fate))
  BY <1>5, FinalizeFine
<1> QED BY <1>1, <1>2, <1>3, <1>4, <1>6

(* ngx_http_handler keeps the order, whatever kind of page it finds. *)
LEMMA StartContentFine ==
  ASSUME site \in Sites, NEW w0, Fine(w0), NEW r \in DOMAIN w0.rq, NEW fate \in Fates
  PROVE  Fine(StartContent(w0, r, fate))
<1>1. PICK w : w = [w0 EXCEPT !.rq[r].write_event_handler = "empty"]
  OBVIOUS
<1>2. Fine(w) /\ DOMAIN w.rq = DOMAIN w0.rq
  <2>1. "empty" \in Handlers
    BY DEF Handlers
  <2> QED BY <1>1, <2>1, SetHandler
<1>3. PICK page : page = Page(r) /\ page.items \in Seq(Items) /\ page.kind \in {"static", "upstream", "failed"}
  BY PageType
<1>4. PICK taken : taken = [w EXCEPT !.count = @ + 1]
  OBVIOUS
<1>5. Fine(taken) /\ DOMAIN taken.rq = DOMAIN w.rq
  <2>1. PICK c \in Int : c = w.count + 1
    BY <1>2, FineType
  <2>2. taken = [w EXCEPT !.count = c]
    BY <1>4, <2>1
  <2> QED BY <1>2, <2>2, CountFine
<1> DEFINE Sent(o) == Finalize(o, r, o.rc, fate)
<1>6. \A y : Once(Sent, y) = Sent(y)
  <2> SUFFICES ASSUME NEW y PROVE Once(Sent, y) = Sent(y)
    OBVIOUS
  <2> HIDE DEF Sent
  <2>1. {Sent(v) : v \in {y}} = {Sent(y)}
    OBVIOUS
  <2> QED BY <2>1, OnlyElement DEF Once
<1>7. StartContent(w0, r, fate) =
        CASE page.kind = "static" -> Once(Sent, OutputFilter(w, r, TRUE, page.items))
          [] page.kind = "upstream" ->
               FinalizeConnection([taken EXCEPT !.rq[r].write_event_handler = "content",
                                                !.rq[r].left = page.items], fate)
          [] page.kind = "failed" ->
               FinalizeConnection(Once(Sent, OutputFilter(taken, r, TRUE, page.items)), fate)
  BY <1>1, <1>3, <1>4 DEF StartContent
<1>8. Fine(Sent(OutputFilter(w, r, TRUE, page.items)))
  <2>1. r \in DOMAIN w.rq
    BY <1>2
  <2> QED BY <1>2, <1>3, <2>1, OutputFine
<1>9. Fine(FinalizeConnection(Sent(OutputFilter(taken, r, TRUE, page.items)), fate))
  <2>1. r \in DOMAIN taken.rq
    BY <1>2, <1>5
  <2>2. Fine(Sent(OutputFilter(taken, r, TRUE, page.items)))
    BY <1>3, <1>5, <2>1, OutputFine
  <2> HIDE DEF Sent
  <2> QED BY <2>2, CloseFine
<1>10. Fine(FinalizeConnection([taken EXCEPT !.rq[r].write_event_handler = "content",
                                             !.rq[r].left = page.items], fate))
  <2>1. r \in DOMAIN taken.rq /\ taken.rq[r] \in Request /\ taken \in Worlds
        /\ taken.rq \in Seq(Request) /\ "content" \in Handlers
    BY <1>2, <1>5, FineType DEF Handlers
  <2>2. PICK d \in BOOLEAN : d = taken.rq[r].done
    BY <2>1 DEF Request
  <2>3. PICK v : v = [taken EXCEPT !.rq[r].write_event_handler = "content", !.rq[r].done = d,
                                   !.rq[r].left = page.items]
    OBVIOUS
  <2>4. Fine(v)
    BY <1>3, <1>5, <2>1, <2>3, HandlerFine
  <2>5. v = [taken EXCEPT !.rq[r].write_event_handler = "content", !.rq[r].left = page.items]
    BY <2>1, <2>2, <2>3 DEF Request
  <2> QED BY <2>4, <2>5, CloseFine
<1> HIDE DEF Sent
<1> QED BY <1>3, <1>6, <1>7, <1>8, <1>9, <1>10

(* ngx_http_writer and the handler of an upstream whose client can be      *)
(* written to keep the order.                                              *)
LEMMA WriterFine ==
  ASSUME NEW w, Fine(w), NEW r \in DOMAIN w.rq, NEW fate \in Fates
  PROVE  Fine(Writer(w, r, fate)) /\ Fine(Downstream(w, r, fate))
<1> DEFINE Written(u) ==
             IF u.rc = "ERROR" THEN Finalize(u, r, "ERROR", fate)
             ELSE IF Unfinished(u, r) \/ (r = Main /\ u.buffered) THEN u
             ELSE Finalize([u EXCEPT !.rq[r].write_event_handler = "empty"], r, u.rc, fate)
           Passed(u) == IF u.rc = "ERROR" THEN Finalize(u, r, "ERROR", fate) ELSE u
<1>1. PICK o : o = OutputFilter(w, r, FALSE, <<>>)
  OBVIOUS
<1>2. Fine(Written(o)) /\ Fine(Passed(o))
  <2>1. FALSE \in BOOLEAN /\ <<>> \in Seq(Items)
    OBVIOUS
  <2>2. /\ Fine(o) /\ \A rc : Fine(Finalize(o, r, rc, fate))
        /\ \A rc : Fine(Finalize([o EXCEPT !.rq[r].write_event_handler = "empty"], r, rc, fate))
    BY <1>1, <2>1, OutputFine
  <2> QED BY <2>2
<1>3. Writer(w, r, fate) = Once(Written, o)
  BY <1>1 DEF Writer
<1>4. Downstream(w, r, fate) = IF w.buffered THEN Once(Passed, o) ELSE w
  BY <1>1 DEF Downstream
<1> HIDE DEF Written, Passed
<1>5. Once(Written, o) = Written(o) /\ Once(Passed, o) = Passed(o)
  <2>1. {Written(v) : v \in {o}} = {Written(o)} /\ {Passed(v) : v \in {o}} = {Passed(o)}
    OBVIOUS
  <2> QED BY <2>1, OnlyElement DEF Once
<1> QED BY <1>2, <1>3, <1>4, <1>5

(* The handler of a request that is posted, or whose turn it is. *)
LEMMA WriteEventHandlerFine ==
  ASSUME site \in Sites, NEW w, Fine(w), NEW r \in DOMAIN w.rq, NEW fate \in Fates
  PROVE  Fine(WriteEventHandler(w, r, fate))
<1>1. w.rq[r].write_event_handler \in Handlers
  <2>1. w.rq[r] \in Request
    BY FineType
  <2> QED BY <2>1 DEF Request
<1>2. Fine(StartContent(w, r, fate))
  BY StartContentFine
<1>3. Fine(Writer(w, r, fate)) /\ Fine(Downstream(w, r, fate))
  BY WriterFine
<1>4. Fine(Finalize(w, r, "OK", fate))
  BY FinalizeFine
<1>5. Fine(CloseRequest([w EXCEPT !.count = 1]))
  <2>1. PICK c \in Int : c = 1
    OBVIOUS
  <2>2. Fine([w EXCEPT !.count = c])
    BY CountFine
  <2> QED BY <2>1, <2>2, CloseFine
<1> QED BY <1>1, <1>2, <1>3, <1>4, <1>5 DEF WriteEventHandler, Handlers

-----------------------------------------------------------------------------
(* The invariant: the state between two handlers is in order.              *)
OrderInv == site \in Sites /\ Fine(World(FALSE, FALSE))

(* What a handler begins with. *)
LEMMA WorldFine ==
  ASSUME OrderInv, NEW slow \in BOOLEAN, NEW fail \in BOOLEAN
  PROVE  /\ Fine(World(slow, fail))
         /\ World(slow, fail).rq = rq /\ World(slow, fail).active = active
         /\ World(slow, fail).posted = posted /\ World(slow, fail).stream = stream
<1>1. PICK w : w = World(FALSE, FALSE)
  OBVIOUS
<1>2. PICK v : v = World(slow, fail)
  OBVIOUS
<1>3. Fine(w) /\ w \in Worlds /\ PostedOK(w)
  BY <1>1, FineType DEF OrderInv
<1>4. /\ v \in Worlds /\ v.rq = w.rq /\ v.active = w.active /\ v.stream = w.stream
      /\ v.posted = w.posted
  BY <1>1, <1>2, <1>3 DEF World, Worlds
<1>5. v.rq = rq /\ v.active = active /\ v.posted = posted /\ v.stream = stream
  BY <1>2 DEF World
<1>6. Quiet(w, v)
  BY <1>3, <1>4 DEF Quiet, SameMade, SameTree, PostedOK
<1> QED BY <1>2, <1>3, <1>5, <1>6, QuietFine

(* What a handler leaves. *)
LEMMA Committed ==
  ASSUME OrderInv, NEW w, Fine(w), Commit(w)
  PROVE  OrderInv'
<1>1. PICK v : v = [rq |-> rq', active |-> active', posted |-> posted', count |-> count',
                    subrequests |-> subrequests', stream |-> stream', buffered |-> buffered',
                    error |-> error', conn |-> conn', rc |-> "OK", slow |-> FALSE, fail |-> FALSE]
  OBVIOUS
<1>2. w \in Worlds /\ PostedOK(w)
  BY FineType
<1>3. /\ v \in Worlds /\ v.rq = w.rq /\ v.active = w.active /\ v.stream = w.stream
      /\ v.posted = w.posted
  BY <1>1, <1>2 DEF Commit, Worlds, Codes
<1>4. Quiet(w, v)
  BY <1>2, <1>3 DEF Quiet, SameMade, SameTree, PostedOK
<1>5. Fine(v)
  BY <1>4, QuietFine
<1>6. World(FALSE, FALSE)' = v
  BY <1>1 DEF World
<1>7. Fine(World(FALSE, FALSE)')
  BY <1>5, <1>6
<1>8. site' \in Sites
  BY DEF Commit, OrderInv
<1> QED BY <1>7, <1>8 DEF OrderInv

(* The client's request, of which nothing was sent. *)
LEMMA OrderInit ==
  ASSUME Init
  PROVE  OrderInv
<1>1. PICK q : q = NewRequest(NoReq, <<>>, FALSE)
  OBVIOUS
<1>2. /\ q \in Request /\ q.parent = NoReq /\ q.path = <<>> /\ q.postponed = <<>>
      /\ q.made = 0
  <2>1. <<>> \in Path /\ <<>> \in Seq(Entry) /\ <<>> \in Seq(Items)
    BY DEF Path
  <2> QED BY <1>1, <2>1 DEF NewRequest, NoReq, Request, Handlers
<1>3. PICK w : w = World(FALSE, FALSE)
  OBVIOUS
<1>4. /\ w.rq = <<q>> /\ w.active = Main /\ w.posted = <<Main>> /\ w.stream = <<>>
      /\ w.count = 1 /\ w.subrequests = MaxSubrequests + 1 /\ w.buffered = FALSE
      /\ w.error = FALSE /\ w.conn = "open"
  BY <1>1, <1>3 DEF Init, World
<1>5. w \in Worlds
  <2>1. /\ <<q>> \in Seq(Request) /\ Main \in Nat /\ <<Main>> \in Seq(Nat) /\ <<>> \in Seq(Path)
        /\ MaxSubrequests + 1 \in Int /\ "open" \in Ends /\ "OK" \in Codes
    BY <1>2, BoundAssumption DEF Main, Ends, Codes
  <2>2. w = [rq |-> <<q>>, active |-> Main, posted |-> <<Main>>, count |-> 1,
             subrequests |-> MaxSubrequests + 1, stream |-> <<>>, buffered |-> FALSE,
             error |-> FALSE, conn |-> "open", rc |-> "OK", slow |-> FALSE, fail |-> FALSE]
    BY <1>1, <1>3 DEF Init, World
  <2> QED BY <2>1, <2>2 DEF Worlds
<1>6. DOMAIN w.rq = {Main} /\ w.rq[Main] = q
  BY <1>4 DEF Main
<1>7. PostedOK(w)
  BY <1>4, <1>6 DEF PostedOK, Main
<1>8. PICK V : V = View(w.rq, Main, 0)
  OBVIOUS
<1>9. /\ DOMAIN V = {Main} /\ V[Main].path = <<>> /\ V[Main].list = <<>> /\ V[Main].given = 0
  BY <1>2, <1>6, <1>8 DEF View
<1>10. Rooted(V)
  BY <1>9 DEF Rooted
<1>11. ListOK(V, Main) /\ FirstOK(V, Main, Main)
  BY <1>9 DEF ListOK, FirstOK
<1>12. Clear(V, Main, <<>>)
  BY <1>9 DEF Clear
<1>13. Sorted(<<>>)
  BY DEF Sorted
<1>14. Ordered(V, Main, <<>>)
  BY <1>9, <1>10, <1>11, <1>12, <1>13 DEF Ordered
<1>15. Good(w, Main, 0)
  BY <1>4, <1>5, <1>6, <1>7, <1>8, <1>14 DEF Good
<1>16. Fine(w)
  BY <1>2, <1>6, <1>15 DEF Fine
<1> QED BY <1>3, <1>16 DEF OrderInv, Init

(* Every step keeps the order. *)
LEMMA OrderStep ==
  ASSUME OrderInv, [Next]_vars
  PROVE  OrderInv'
<1> USE DEF Fates
<1>1. ASSUME NEW slow \in BOOLEAN, RunPosted(slow) PROVE OrderInv'
  <2>1. PICK fail, fate, w :
          /\ fail \in BOOLEAN /\ fate \in Fates
          /\ w = WriteEventHandler([World(slow, fail) EXCEPT !.posted = Tail(@)], Head(posted), fate)
          /\ Commit(w)
    BY <1>1 DEF RunPosted, Handle
  <2>2. /\ Fine(World(slow, fail)) /\ World(slow, fail).rq = rq
        /\ World(slow, fail).posted = posted
    BY <2>1, WorldFine
  <2>3. posted # <<>> /\ posted \in Seq(Nat) /\ \A i \in DOMAIN posted : posted[i] \in DOMAIN rq
    BY <1>1, <2>2, FineType DEF RunPosted, PostedOK
  <2>4. PICK u : u = World(slow, fail)
    OBVIOUS
  <2>5. u \in Worlds /\ u.rq = rq /\ u.posted = posted
    BY <2>2, <2>4, FineType
  <2>6. PICK v : v = [u EXCEPT !.posted = Tail(@)]
    OBVIOUS
  <2>7. /\ Tail(posted) \in Seq(Nat)
        /\ \A i \in DOMAIN Tail(posted) : Tail(posted)[i] \in DOMAIN rq
        /\ Head(posted) \in DOMAIN rq
    <3>1. /\ Tail(posted) \in Seq(Nat) /\ Len(Tail(posted)) = Len(posted) - 1
          /\ \A k \in 1 .. Len(posted) - 1 : Tail(posted)[k] = posted[k + 1]
          /\ Head(posted) = posted[1] /\ Len(posted) \in Nat /\ Len(posted) # 0
      BY <2>3, HeadTailProperties, EmptySeq
    <3>2. 1 \in DOMAIN posted /\ \A k \in 1 .. Len(posted) - 1 : k + 1 \in DOMAIN posted
      BY <2>3, <3>1
    <3>3. DOMAIN Tail(posted) = 1 .. Len(posted) - 1
      BY <3>1, LenProperties
    <3> QED BY <2>3, <3>1, <3>2, <3>3
  <2>8. /\ v \in Worlds /\ v.rq = u.rq /\ v.active = u.active /\ v.stream = u.stream
        /\ v.posted = Tail(posted)
    BY <2>5, <2>6, <2>7 DEF Worlds
  <2>9. Quiet(u, v)
    BY <2>5, <2>7, <2>8 DEF Quiet, SameMade, SameTree, PostedOK
  <2>10. Fine(v) /\ Head(posted) \in DOMAIN v.rq
    BY <2>2, <2>4, <2>5, <2>7, <2>8, <2>9, QuietFine
  <2>11. Fine(w)
    BY <2>1, <2>4, <2>6, <2>10, WriteEventHandlerFine DEF OrderInv
  <2> QED BY <2>1, <2>11, Committed
<1>2. ASSUME NEW slow \in BOOLEAN, WriteEvent(slow) PROVE OrderInv'
  <2>1. PICK fail, fate, w :
          /\ fail \in BOOLEAN /\ fate \in Fates
          /\ w = WriteEventHandler(World(slow, fail), active, fate)
          /\ Commit(w)
    BY <1>2 DEF WriteEvent, Handle
  <2>2. PICK u : u = World(slow, fail)
    OBVIOUS
  <2>3. Fine(u) /\ u.active = active
    BY <2>1, <2>2, WorldFine
  <2>4. active \in DOMAIN u.rq
    BY <2>3, FineType
  <2>5. Fine(w)
    BY <2>1, <2>2, <2>3, <2>4, WriteEventHandlerFine DEF OrderInv
  <2> QED BY <2>1, <2>5, Committed
<1>3. ASSUME NEW r \in 1 .. MaxRequests, NEW slow \in BOOLEAN, UpstreamEvent(r, slow) PROVE OrderInv'
  <2> DEFINE last == rq[r].left = <<>>
             items == IF last THEN <<>> ELSE <<Head(rq[r].left)>>
             rest == IF last THEN <<>> ELSE Tail(rq[r].left)
  <2>1. r \in DOMAIN rq
    BY <1>3 DEF UpstreamEvent
  <2>2. PICK fail, fate, w :
          /\ fail \in BOOLEAN /\ fate \in Fates
          /\ LET Passed(o) ==
                   IF last \/ o.rc = "ERROR"
                   THEN Finalize([o EXCEPT !.rq[r].write_event_handler = "empty"], r, o.rc, fate)
                   ELSE o
             IN  w = Once(Passed, OutputFilter([World(slow, fail) EXCEPT !.rq[r].left = rest],
                                               r, TRUE, items))
          /\ Commit(w)
    BY <1>3 DEF UpstreamEvent, Handle
  <2> DEFINE Passed(o) ==
               IF last \/ o.rc = "ERROR"
               THEN Finalize([o EXCEPT !.rq[r].write_event_handler = "empty"], r, o.rc, fate)
               ELSE o
  <2>3. PICK u : u = World(slow, fail)
    OBVIOUS
  <2>4. Fine(u) /\ u.rq = rq
    BY <2>2, <2>3, WorldFine
  <2>5. u \in Worlds /\ u.rq \in Seq(Request) /\ r \in DOMAIN u.rq /\ u.rq[r] \in Request
    BY <2>1, <2>4, FineType
  <2>6. items \in Seq(Items) /\ rest \in Seq(Items)
    <3>1. PICK left \in Seq(Items) : left = rq[r].left
      BY <2>4, <2>5 DEF Request
    <3>2. left # <<>> => Head(left) \in Items /\ Tail(left) \in Seq(Items)
      BY HeadTailProperties
    <3>3. <<>> \in Seq(Items) /\ \A i \in Items : <<i>> \in Seq(Items)
      OBVIOUS
    <3> QED BY <3>1, <3>2, <3>3
  <2> HIDE DEF last, items, rest
  <2>7. PICK v : v = [u EXCEPT !.rq[r].left = rest]
    OBVIOUS
  <2>8. Fine(v) /\ r \in DOMAIN v.rq
    <3>1. PICK x : x = [u.rq[r] EXCEPT !.left = rest]
      OBVIOUS
    <3>2. /\ x \in Request /\ x.path = u.rq[r].path /\ x.parent = u.rq[r].parent
          /\ x.postponed = u.rq[r].postponed /\ x.made = u.rq[r].made
      BY <2>5, <2>6, <3>1 DEF Request
    <3>3. v = [u EXCEPT !.rq = [@ EXCEPT ![r] = x]]
      BY <2>7, <3>1
    <3> QED BY <2>4, <2>5, <3>2, <3>3, TouchFine DEF Touched
  <2>9. PICK o : o = OutputFilter(v, r, TRUE, items)
    OBVIOUS
  <2>10. Fine(Passed(o))
    <3>1. TRUE \in BOOLEAN /\ fate \in Fates
      BY <2>2
    <3>2. /\ Fine(o)
          /\ \A rc : Fine(Finalize([o EXCEPT !.rq[r].write_event_handler = "empty"], r, rc, fate))
      BY <2>6, <2>8, <2>9, <3>1, OutputFine
    <3> QED BY <3>2
  <2>11. w = Once(Passed, o)
    BY <2>2, <2>3, <2>7, <2>9
  <2>12. Once(Passed, o) = Passed(o)
    <3> HIDE DEF Passed
    <3>1. {Passed(y) : y \in {o}} = {Passed(o)}
      OBVIOUS
    <3> QED BY <3>1, OnlyElement DEF Once
  <2> QED BY <2>2, <2>10, <2>11, <2>12, Committed
<1>4. ASSUME ClientGone PROVE OrderInv'
  <2>1. PICK u : u = World(FALSE, FALSE)
    OBVIOUS
  <2>2. Fine(u) /\ u.rq = rq /\ u.active = active
    BY <2>1, WorldFine
  <2>3. u \in Worlds /\ PostedOK(u) /\ active \in DOMAIN u.rq
    BY <2>2, FineType
  <2>4. PICK v : v = [u EXCEPT !.error = TRUE]
    OBVIOUS
  <2>5. /\ v \in Worlds /\ v.rq = u.rq /\ v.active = u.active /\ v.stream = u.stream
        /\ v.posted = u.posted
    BY <2>3, <2>4 DEF Worlds
  <2>6. Quiet(u, v)
    BY <2>3, <2>5 DEF Quiet, SameMade, SameTree, PostedOK
  <2>7. Fine(v) /\ active \in DOMAIN v.rq
    BY <2>2, <2>3, <2>5, <2>6, QuietFine
  <2>8. PICK x : x = [v EXCEPT !.rq[active].write_event_handler = "empty"]
    OBVIOUS
  <2>9. Fine(x)
    <3>1. "empty" \in Handlers
      BY DEF Handlers
    <3> QED BY <2>7, <2>8, <3>1, SetHandler
  <2>10. PICK w : w = Terminate(x, active)
    OBVIOUS
  <2>11. Fine(w)
    BY <2>9, <2>10, TerminateFine
  <2>12. Commit(w)
    <3>1. x = [World(FALSE, FALSE) EXCEPT !.error = TRUE, !.rq[active].write_event_handler = "empty"]
      BY <2>1, <2>4, <2>8
    <3> QED BY <1>4, <2>10, <3>1 DEF ClientGone
  <2> QED BY <2>11, <2>12, Committed
<1>5. ASSUME LingeringClose PROVE OrderInv'
  <2>1. PICK u : u = World(FALSE, FALSE)
    OBVIOUS
  <2>2. Fine(u)
    BY <2>1, WorldFine
  <2>3. PICK w : w = CloseRequest(u)
    OBVIOUS
  <2>4. Fine(w)
    BY <2>2, <2>3, CloseFine
  <2>5. Commit(w)
    BY <1>5, <2>1, <2>3 DEF LingeringClose
  <2> QED BY <2>4, <2>5, Committed
<1>6. CASE UNCHANGED vars
  <2>1. World(FALSE, FALSE)' = World(FALSE, FALSE) /\ site' = site
    BY <1>6 DEF vars, World
  <2>2. Fine(World(FALSE, FALSE)')
    BY <2>1 DEF OrderInv
  <2> QED BY <2>1, <2>2 DEF OrderInv
<1> QED BY <1>1, <1>2, <1>3, <1>4, <1>5, <1>6 DEF Next

(* The response is put together in the order of the pages. *)
THEOREM OrderCorrect == Spec => []InOrder
<1>1. OrderInv => InOrder
  <2> SUFFICES ASSUME OrderInv PROVE InOrder
    OBVIOUS
  <2>1. PICK u : u = World(FALSE, FALSE)
    OBVIOUS
  <2>2. Fine(u) /\ u.stream = stream
    BY <2>1, WorldFine
  <2>3. Sorted(u.stream)
    BY <2>2 DEF Fine, Good, Ordered
  <2> QED BY <2>2, <2>3 DEF Sorted, InOrder
<1> QED BY OrderInit, OrderStep, <1>1, PTL DEF Spec

=============================================================================
