----------------------------- MODULE MCPlugins ------------------------------
(* Two administrators, two readers, one external plugin with two manifests.   *)
(* Each plan makes one part of the server busy and leaves the rest alone.     *)
EXTENDS Plugins
CONSTANTS a1, a2, r1, r2, f1, f2, p1, v1, v2

Quiet == [traffic |-> {}, setting |-> 0, patch |-> 0, plugin |-> 0, restore |-> 0,
          fault |-> 0, restart |-> 0]

\* Changes of the cached settings, of the subtitle configuration, the captcha service
\* failing under logins, and requests at the plugin centre; a restart, a restore and a
\* fault among them.
MCPlans == {
    [Quiet EXCEPT !.traffic = {"extensions"}, !.setting = 2, !.restore = 1, !.fault = 1],
    [Quiet EXCEPT !.traffic = {"rateLimit"}, !.setting = 2, !.restore = 1, !.fault = 1],
    [Quiet EXCEPT !.traffic = {"captcha"}, !.setting = 2, !.fault = 3, !.restart = 1],
    [Quiet EXCEPT !.patch = 3, !.restore = 1, !.fault = 1, !.restart = 1],
    [Quiet EXCEPT !.traffic = {"list"}, !.plugin = 4, !.fault = 1, !.restart = 1]}
=============================================================================
