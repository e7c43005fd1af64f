----------------------------- MODULE MCSessions -----------------------------
(* Sessions on a small instance. *)
EXTENDS Sessions

\* The first request makes a session or an OIDC provider; the others refresh it, revoke it, or change what it is about.
MCOpsOf == [r \in Requests |->
    CASE r = 1 -> {"login", "oidc", "start"}
      [] r = 2 -> {"refresh", "password", "settings", "role"}
      [] r = 3 -> {"refresh", "login", "oidc", "start", "logout", "logoutAll", "adminToken"}
      [] OTHER -> {"refresh", "adminToken"}]
=============================================================================
