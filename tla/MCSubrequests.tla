--------------------------- MODULE MCSubrequests ----------------------------
EXTENDS Subrequests

Static(items) == [kind |-> "static", items |-> items]
Proxied(items) == [kind |-> "upstream", items |-> items]
Refused(items) == [kind |-> "failed", items |-> items]

T == "text"
I == "include"
W == "wait"

(* Includes side by side and nested, waited for or not, each page sent at  *)
(* once or by an upstream; one site asks for more subrequests than there   *)
(* may be.                                                                 *)
MCSites == {
  <<Static(<<T, I, T, I, T>>), Proxied(<<T, T>>), Proxied(<<T>>)>>,
  <<Proxied(<<I, T, I>>), Static(<<T>>), Proxied(<<T, T>>)>>,
  <<Proxied(<<T, I, I, T>>), Proxied(<<T, I, T>>), Refused(<<T>>), Proxied(<<T>>)>>,
  <<Static(<<W, T, I>>), Proxied(<<T>>), Static(<<T>>)>>,
  <<Proxied(<<I, I, T>>), Proxied(<<T>>), Proxied(<<T, W, T>>), Proxied(<<T>>)>>,
  <<Static(<<I, W, T>>), Proxied(<<I, T>>), Proxied(<<T>>), Refused(<<T, T>>)>>,
  <<Static(<<I, T, I, T, I>>), Proxied(<<T, W, T>>), Proxied(<<T, T>>), Proxied(<<T>>),
    Proxied(<<T>>)>>,
  <<Proxied(<<I, W, I, T, I>>), Proxied(<<T, T>>), Proxied(<<I, T>>), Proxied(<<T>>),
    Static(<<T>>), Static(<<T>>)>>,
  <<Refused(<<T, I, I>>), Proxied(<<I, T>>), Proxied(<<T, I>>), Static(<<T>>), Static(<<T>>)>>}
=============================================================================
