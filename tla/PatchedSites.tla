----------------------------- MODULE PatchedSites -----------------------------
(***************************************************************************)
(* What raw patching does to the image, as the threads of the game find    *)
(* it: sites go from the original to the replacement as a whole, several   *)
(* of them at once, and never from anything but the original; the rest is  *)
(* the game's.  RawPatch does it byte by byte in a suspension window,      *)
(* Startup by layers that discover long before they commit.  A site is     *)
(* "torn" if it holds some of its replacement but not all: the game may    *)
(* tear a replaced site, nobody tears an original one.                     *)
(***************************************************************************)
CONSTANT Sites

VARIABLE site  \* site -> "original", "replaced", "torn" or "other"

Holds == {"original", "replaced", "torn", "other"}

Rewrite(s) ==
  \E b \in {"original", "other", "torn"} :
    /\ b = "torn" => site[s] \in {"replaced", "torn"}
    /\ site' = [site EXCEPT ![s] = b]

\* A window closes: some of the original sites are replaced.
Replace ==
  /\ site' \in [Sites -> Holds]
  /\ \A s \in Sites : site'[s] # site[s] => site[s] = "original" /\ site'[s] = "replaced"

SitesInit == site \in [Sites -> {"original", "other"}]

SitesNext == (\E s \in Sites : Rewrite(s)) \/ Replace

SitesSpec == SitesInit /\ [][SitesNext]_site
=============================================================================
