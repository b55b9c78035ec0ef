-------------------------- MODULE MCBrowserSession --------------------------
(* Two pages of the application, one outside, and the two pages of the    *)
(* browser itself. about:blank stands for blob: and data: URLs too: like   *)
(* them it has another scheme and no host, and actions navigate to it.   *)
EXTENDS BrowserSessionProofs

MCHttpUrls == {"home", "page", "away"}

MCUrls == MCHttpUrls \cup {"about:blank", "error"}

MCDomainOf ==
  [u \in MCUrls |-> CASE u \in {"home", "page"} -> "app"
                      [] u = "away"            -> "elsewhere"
                      [] u = "error"           -> "chromewebdata"
                      [] OTHER                 -> ""]

\* A load of "page" may be redirected out of the application.
MCLandsAt ==
  [u \in MCUrls |-> IF u = "page" THEN {"page", "away"} ELSE {u}]

\* The theorems about the guard speak of this instance.
ASSUME InstanceIsCovered == EntersInside /\ HostsApart
=============================================================================
