----------------------------- MODULE JavaRuntimes -----------------------------
(***************************************************************************)
(* Java for servers and proxies (java_runtime_service.py,                  *)
(* java_profile_service.py and their pages): the JDKs on the machine, the  *)
(* cache of what each answered to "-version", the profiles in the database *)
(* and the seekers that need one of at least some major version.           *)
(*                                                                         *)
(* A keeper is a server about to start: it has a profile of its own.  The  *)
(* other seekers (Velocity, the plugin build) take any profile that fits.  *)
(* A seeker that finds none downloads a JDK, under one lock; the settings  *)
(* page downloads under the same lock.  The scan that turns JDKs into      *)
(* profiles takes no lock: it reads the profiles, probes, then writes.     *)
(***************************************************************************)
EXTENDS FiniteSetsExt, Naturals

CONSTANTS
  Majors,       \* Java versions
  Elsewhere,    \* JDKs of other origin, under a root that is scanned
  Unscanned,    \* paths outside of every such root, known by hand only
  Keepers,      \* servers
  Others,       \* the proxy and the plugin build
  Visitors,     \* requests of the settings page
  Need,         \* the version each seeker needs, and each request of the page asks for
  MaxProfiles,  \* bound on profile numbers
  MaxEdits      \* bound on what is done by hand

Seekers == Keepers \cup Others
JavaUsers == Seekers \cup Visitors
Paths == Majors \cup Elsewhere \cup Unscanned   \* a major stands for the managed folder of its JDK

\* There is a newest version; the page's requests are no starts.
ASSUME JavaAssumption ==
  /\ Majors \subseteq Nat \ {0} /\ \E top \in Majors : \A m \in Majors : m <= top
  /\ IsFiniteSet(Paths) /\ Majors \cap (Elsewhere \cup Unscanned) = {}
  /\ "free" \notin JavaUsers /\ Seekers \cap Visitors = {} /\ Need \in [JavaUsers -> Majors]
  /\ MaxProfiles \in Nat /\ Cardinality(Elsewhere) <= MaxProfiles

VARIABLES
  jdks,         \* what Java lies at each path, 0 for none
  probed,       \* the cache of probes: Unasked, 0 when the probe failed, or a version
  profiles,     \* rows of java_profiles
  installLock,  \* who holds _JAVA_INSTALL_LOCK
  chosen,       \* the profile in the row of each server, 0 for none
  user,         \* the calls at work
  fetched,      \* how often the manager downloaded each JDK since it was last removed
  edits         \* how much was done by hand

javaVars == <<jdks, probed, profiles, installLock, chosen, user, fetched, edits>>

Unasked == Max(Majors) + 1
Resting == [pc |-> "rest", found |-> {}, seen |-> {}, got |-> 0]

JavaTypeOK ==
  /\ \A p \in Paths : jdks[p] \in Majors \cup {0} /\ probed[p] \in Majors \cup {0, Unasked}
  /\ \A r \in profiles : r.id \in 1..MaxProfiles /\ r.path \in Paths /\ r.label \in Majors \cup {0}
  /\ \A r, q \in profiles : r.id = q.id => r = q
  /\ installLock \in JavaUsers \cup {"free"}
  /\ \A s \in Keepers : chosen[s] = 0 \/ \E r \in profiles : r.id = chosen[s]
  /\ \A u \in JavaUsers : user[u].pc \in
       {"rest", "scan", "scanned", "choose", "lock", "rescan", "rescanned", "fetch", "fetching",
        "settle", "settled", "assign", "ready"}

\* Profiles for some paths with what is known of them, numbered after the number "last".
Orders(ps) ==
  {order \in [ps -> 1..Cardinality(ps)] : \A p, q \in ps : order[p] = order[q] => p = q}
Entries(ps, order, last, known) ==
  {[id |-> last + order[p], path |-> p, label |-> known[p]] : p \in ps}

\* init_db has scanned: what lies at the other paths has its profile.
JavaInit ==
  /\ jdks \in {f \in [Paths -> Majors \cup {0}] : \A p \in Paths \ Elsewhere : f[p] = 0}
  /\ probed = [p \in Paths |-> IF jdks[p] = 0 THEN Unasked ELSE jdks[p]]
  /\ LET here == {p \in Paths : jdks[p] # 0} IN
     \E order \in Orders(here) : profiles = Entries(here, order, 0, jdks)
  /\ installLock = "free"
  /\ chosen \in [Keepers -> {0} \cup {r.id : r \in profiles}]
  /\ user = [u \in JavaUsers |-> Resting]
  /\ fetched = [m \in Majors |-> 0]
  /\ edits = 0

Profile(i) == CHOOSE r \in profiles : r.id = i
NewProfileId == 1 + Max({r.id : r \in profiles} \cup {0})

\* The number in the label counts first; a profile without one is probed.
MajorOf(r) == IF r.label # 0 THEN r.label
              ELSE IF probed[r.path] = Unasked THEN jdks[r.path] ELSE probed[r.path]
FitFor(need) == {r \in profiles : jdks[r.path] # 0 /\ MajorOf(r) >= need}
OwnFits(s, need) == \E r \in FitFor(need) : r.id = chosen[s]
\* The nearest version; that the default profile goes before others of its version is left out.
Best(need) == {r \in FitFor(need) : \A q \in FitFor(need) : MajorOf(r) <= MajorOf(q)}

Goto(u, pc) == user' = [user EXCEPT ![u].pc = pc]
Free(u) == installLock' = IF installLock = u THEN "free" ELSE installLock
\* An exception or an answer "no Java": the call is over, the lock given back.
GiveUp(u) == user' = [user EXCEPT ![u] = Resting] /\ Free(u)

\* Each of these is done by hand, and MaxEdits bounds how often.
Edit == edits < MaxEdits /\ edits' = edits + 1

\* A start, a proxy's start or a build begins; a scan younger than five minutes
\* is not repeated, and any scan may be of that age.
Seek(u) ==
  /\ u \in Seekers /\ user[u].pc = "rest"
  /\ \E pc \in {"scan", "choose"} : user' = [user EXCEPT ![u] = [Resting EXCEPT !.pc = pc]]
  /\ UNCHANGED <<jdks, probed, profiles, installLock, chosen, fetched, edits>>

\* The page: look for JDKs, or install one.
Visit(u) ==
  /\ u \in Visitors /\ user[u].pc = "rest" /\ Edit
  /\ \E pc \in {"lock", "settle"} :
       user' = [user EXCEPT ![u] = [Resting EXCEPT !.pc = pc]]
  /\ UNCHANGED <<jdks, probed, profiles, installLock, chosen, fetched>>

\* detect_java_installations: a path is asked once, and the answer kept for good.
Scan(u) ==
  /\ user[u].pc \in {"scan", "rescan", "settle"}
  /\ LET here == {p \in Paths \ Unscanned : jdks[p] # 0} IN
     \E silent \in SUBSET {p \in here : probed[p] = Unasked} :
       /\ probed' = [p \in Paths |->
            IF p \in here /\ probed[p] = Unasked THEN (IF p \in silent THEN 0 ELSE jdks[p])
            ELSE probed[p]]
       /\ user' = [user EXCEPT ![u].pc = CASE @ = "scan" -> "scanned" [] @ = "rescan" -> "rescanned"
                                           [] OTHER -> "settled",
                               ![u].found = {p \in here : probed'[p] # 0},
                               ![u].seen = {r.path : r \in profiles}]
  /\ UNCHANGED <<jdks, profiles, installLock, chosen, fetched, edits>>

Labelled(u) == {IF r.path \in user[u].found /\ probed[r.path] # 0
                THEN [r EXCEPT !.label = probed[r.path]] ELSE r : r \in profiles}

\* The scan writes what the profiles it read do not have.
Enter(u) ==
  /\ user[u].pc \in {"scanned", "rescanned", "settled"}
  /\ LET news == user[u].found \ user[u].seen IN
     /\ NewProfileId + Cardinality(news) <= MaxProfiles + 1
     /\ \E order \in Orders(news) :
          profiles' = Labelled(u) \cup Entries(news, order, NewProfileId - 1, probed)
  /\ user' = [user EXCEPT ![u].pc = CASE @ = "scanned" -> "choose" [] @ = "rescanned" -> "fetch"
                                      [] OTHER -> IF u \in Visitors THEN "rest" ELSE "assign",
                           ![u].found = {}, ![u].seen = {}]
  /\ installLock' = IF user[u].pc = "settled" /\ installLock = u THEN "free" ELSE installLock
  /\ UNCHANGED <<jdks, probed, chosen, fetched, edits>>

\* Another scan entered one of them first, under the name this one chose: the
\* database refuses it, and the session is of no use to its caller any more.
EnterFails(u) ==
  /\ user[u].pc \in {"scanned", "rescanned", "settled"}
  /\ \E p \in user[u].found \ user[u].seen : \E r \in profiles : r.label = probed[p]
  /\ GiveUp(u)
  /\ UNCHANGED <<jdks, probed, profiles, chosen, fetched, edits>>

Ready(u, r) == user' = [user EXCEPT ![u].pc = "ready", ![u].got = jdks[r.path]]

\* ensure_server_java_profile, resolve_java_binary and ensure_java_available up to
\* the lock: the server's own profile, else the best one, for a proxy any that fits.
Choose(u) ==
  /\ user[u].pc = "choose"
  /\ IF u \in Keepers /\ OwnFits(u, Need[u])
     THEN Ready(u, Profile(chosen[u]))
     ELSE Goto(u, IF FitFor(Need[u]) # {} THEN "assign" ELSE "lock")
  /\ UNCHANGED <<jdks, probed, profiles, installLock, chosen, fetched, edits>>

Lock(u) ==
  /\ user[u].pc = "lock" /\ installLock = "free"
  /\ installLock' = u
  /\ Goto(u, IF u \in Visitors THEN "fetch" ELSE "rescan")
  /\ UNCHANGED <<jdks, probed, profiles, chosen, fetched, edits>>

\* The second look under the lock, then install_java_from_adoptium's own.
PresentAsFound(u) == Need[u] \in user[u].found
Present(u) == jdks[Need[u]] # 0
Fetch(u) ==
  /\ user[u].pc = "fetch"
  /\ IF u \in Seekers /\ FitFor(Need[u]) # {}
     THEN Goto(u, "assign") /\ Free(u) /\ UNCHANGED fetched
     ELSE IF Present(u)
     THEN Goto(u, "settle") /\ UNCHANGED fetched
          /\ IF u \in Visitors THEN Free(u) ELSE UNCHANGED installLock
     ELSE /\ Goto(u, "fetching")
          /\ fetched' = [fetched EXCEPT ![Need[u]] = @ + 1]
          /\ UNCHANGED installLock
  /\ UNCHANGED <<jdks, probed, profiles, chosen, edits>>

\* The whole JDK is moved to its place at once; the page has given the lock back then.
Fetched(u) ==
  /\ user[u].pc = "fetching"
  /\ jdks' = [jdks EXCEPT ![Need[u]] = Need[u]]
  /\ Goto(u, "settle")
  /\ IF u \in Visitors THEN Free(u) ELSE UNCHANGED installLock
  /\ UNCHANGED <<probed, profiles, chosen, fetched, edits>>

\* What lies at a path is replaced by newer versions only; an older one in the
\* place of a newer is left out, neither label nor probe would notice it.
Newer(p, m) ==
  /\ jdks[p] < m /\ \A r \in profiles : r.path = p => r.label <= m
  /\ probed[p] \in 0..m \cup {Unasked}

\* No answer, a wrong check sum, a full disk; the page tries winget then.
FetchFails(u) ==
  /\ user[u].pc = "fetching"
  /\ fetched' = [fetched EXCEPT ![Need[u]] = @ - 1]
  /\ \/ GiveUp(u) /\ UNCHANGED jdks
     \/ /\ u \in Visitors
        /\ \E p \in Elsewhere : Newer(p, Need[u]) /\ jdks' = [jdks EXCEPT ![p] = Need[u]]
        /\ Goto(u, "settle") /\ Free(u)
  /\ UNCHANGED <<probed, profiles, chosen, edits>>

\* choose_best_java_profile into the server's row, and the Java of that profile.
Assign(u) ==
  /\ user[u].pc = "assign" /\ installLock # u
  /\ \/ /\ u \in Keepers
        /\ \E r \in Best(Need[u]) : chosen' = [chosen EXCEPT ![u] = r.id] /\ Ready(u, r)
     \/ /\ u \in Others
        /\ \E r \in FitFor(Need[u]) : Ready(u, r)
        /\ UNCHANGED chosen
     \/ /\ FitFor(Need[u]) = {}
        /\ user' = [user EXCEPT ![u] = Resting]
        /\ UNCHANGED chosen
  /\ UNCHANGED <<jdks, probed, profiles, installLock, fetched, edits>>

\* The seeker starts its process with what it got.
Done(u) ==
  /\ user[u].pc = "ready" /\ user' = [user EXCEPT ![u] = Resting]
  /\ UNCHANGED <<jdks, probed, profiles, installLock, chosen, fetched, edits>>

\* create_java_profile: a path by hand, with a true label or none.
CreateProfile(p) ==
  /\ Edit
  /\ NewProfileId <= MaxProfiles
  /\ \E label \in {0, jdks[p]} :
       profiles' = profiles \cup {[id |-> NewProfileId, path |-> p, label |-> label]}
  /\ UNCHANGED <<jdks, probed, installLock, chosen, user, fetched>>

\* The servers that name the profile are left without one (ON DELETE SET NULL).
DeleteProfile(i) ==
  /\ Edit
  /\ \E r \in profiles : r.id = i
  /\ profiles' = {r \in profiles : r.id # i}
  /\ chosen' = [s \in Keepers |-> IF chosen[s] = i THEN 0 ELSE chosen[s]]
  /\ UNCHANGED <<jdks, probed, installLock, user, fetched>>

\* The settings of a server name a profile, fitting or not.
SettingsNameJava(s) ==
  /\ Edit
  /\ \E r \in profiles : chosen' = [chosen EXCEPT ![s] = r.id]
  /\ UNCHANGED <<jdks, probed, profiles, installLock, user, fetched>>

\* A JDK is installed by hand or brought up to date.
Arrives(p, m) ==
  /\ Edit
  /\ Newer(p, m)
  /\ jdks' = [jdks EXCEPT ![p] = m]
  /\ UNCHANGED <<probed, profiles, installLock, chosen, user, fetched>>

RemovedByHand(p) ==
  /\ Edit
  /\ jdks[p] # 0
  /\ \A u \in JavaUsers : user[u].pc # "fetching"
  /\ jdks' = [jdks EXCEPT ![p] = 0]
  /\ fetched' = [m \in Majors |-> IF m = p THEN 0 ELSE fetched[m]]
  /\ UNCHANGED <<probed, profiles, installLock, chosen, user>>

JavaStep(u) ==
  \/ Scan(u) \/ Enter(u) \/ EnterFails(u) \/ Choose(u) \/ Lock(u) \/ Fetch(u)
  \/ Fetched(u) \/ FetchFails(u) \/ Assign(u) \/ Done(u)

JavaNext ==
  \/ \E u \in JavaUsers : Seek(u) \/ Visit(u) \/ JavaStep(u)
  \/ \E p \in Elsewhere \cup Unscanned : CreateProfile(p)
  \/ \E i \in 1..MaxProfiles : DeleteProfile(i)
  \/ \E s \in Keepers : SettingsNameJava(s)
  \/ \E p \in Elsewhere \cup Unscanned, m \in Majors : Arrives(p, m)
  \/ \E p \in Paths : RemovedByHand(p)

JavaSpec == JavaInit /\ [][JavaNext]_javaVars
-----------------------------------------------------------------------------
\* Whoever is about to start a process has a Java that is new enough for it,
\* whatever the settings, the scans and other seekers did in the meantime.
ReadyJavaFits == \A u \in Seekers : user[u].pc = "ready" => user[u].got >= Need[u]

\* "Bei mehreren gleichzeitigen Starts wird nur einmal heruntergeladen": no JDK is
\* downloaded again while it lies there, by no number of starts and requests.
OneDownload == \A m \in Majors : fetched[m] <= 1

\* Both at once, over all starts, scans and requests.
StartsGetTheirJava == ReadyJavaFits /\ OneDownload
=============================================================================
