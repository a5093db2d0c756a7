----------------------------- MODULE MCRequests -----------------------------
(* An instance of Requests for TLC. *)
EXTENDS Requests

\* A checkout by a signed-in shopper; the variations below change one thing each.
Request ==
    [route |-> "checkout", method |-> "POST", key |-> "k", bearer |-> "user", session |-> None,
     csrf |-> None, cookie |-> None, size |-> 1, tenant |-> None, subdomain |-> "shop"]

Administrator == [Request EXCEPT !.route = "admin", !.key = None, !.bearer = None,
                                 !.session = "admin", !.csrf = "c", !.cookie = "c"]

MCTraffic ==
    {Request, Administrator,
     [Request EXCEPT !.route = "intent"],
     [Request EXCEPT !.bearer = "expired"],
     [Request EXCEPT !.size = 3],
     [Administrator EXCEPT !.csrf = "d"],
     [Administrator EXCEPT !.session = "user"],
     [Administrator EXCEPT !.subdomain = None]}
=============================================================================
