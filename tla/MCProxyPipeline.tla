-------------------------- MODULE MCProxyPipeline --------------------------
\* Instances of ProxyPipeline for TLC.
EXTENDS ProxyPipeline, TLC

CONSTANTS u1, s1, s2, page, archive, program

\* One user with two sessions.
OneUser == [s \in Sessions |-> u1]

Files == [u \in Urls |-> CASE u = archive -> "SUSPICIOUS"
                           [] u = program -> "MALICIOUS"
                           [] OTHER       -> None]

\* Rules on a single page, of each kind.
PageRules == [user: {u1}, url: {page}, kind: {"DOMAIN", "IP"},
              action: {"ALLOW", "BLOCK"}]
NoRules == {}

\* The page and the archive pass inspection.
Public == Urls \ {program}
Everything == Urls

Symmetric == Permutations(Requests) \cup Permutations(Tokens)
               \cup Permutations(Sessions)
=============================================================================
