--------------------------- MODULE MCAsgiLifecycle ---------------------------
(***************************************************************************)
(* AsgiLifecycle for TLC: the sets of settings a server may be started     *)
(* with.  Two runs in one process may have different settings.             *)
(***************************************************************************)
EXTENDS AsgiLifecycle

(* Every ASGI setting, and WSGI with each handling of Ctrl-C. *)
AllConfigs ==
  {c \in Settings : ~c.asgi => c.mode = "off" /\ ~c.fose}

(* One ASGI server with the default settings of fastpysgi.py. *)
DefaultConfig ==
  {c \in AllConfigs : c.asgi /\ c.mode = "auto" /\ ~c.fose /\ c.hook_sigint = 1}
=============================================================================
