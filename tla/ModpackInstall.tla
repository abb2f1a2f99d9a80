--------------------------- MODULE ModpackInstall ---------------------------
(***************************************************************************)
(* The modpack of one server (modpack_service.py, the modpacks router):    *)
(* a preview is fetched and kept as a folder, queued as the one pending    *)
(* install of the server, and carried out by the next start or at once.    *)
(* Requests and starts run in threads of their own; nothing locks the      *)
(* pending row, the preview or the server's mods.  A preview stands for    *)
(* the version it fetched.                                                 *)
(***************************************************************************)
EXTENDS Naturals, FiniteSets

CONSTANTS
  Previews,     \* tokens, each fetched at most once
  Installers,         \* threads: requests and starts
  NoPreview

VARIABLES
  stored,       \* preview folders on disk, and those older than a day
  pending,      \* the row of pending_modpack_installs: its number and token
  pack,         \* the row of server_modpack_states
  mods,         \* what lies in mods/ and plugins/
  installer,         \* the threads
  overlapped    \* two installs ran at once at some time

packVars == <<stored, pending, pack, mods, installer, overlapped>>

NoRow == [id |-> 0, token |-> NoPreview, error |-> FALSE]
NoInstall == [pc |-> "idle", token |-> NoPreview, id |-> 0, now |-> FALSE, prev |-> NoPreview]
ModsFolders == {[of |-> k, whole |-> w] : k \in Previews \cup {NoPreview}, w \in BOOLEAN}
Installing(u) == installer[u].pc \in {"reset", "entries", "overrides", "clear", "record"}

PackTypeOK ==
  /\ stored.fresh \subseteq Previews /\ stored.old \subseteq Previews
  /\ pending.token \in Previews \cup {NoPreview}
  /\ pack.current \in Previews \cup {NoPreview} /\ pack.next \in Previews \cup {NoPreview}
  /\ mods \in ModsFolders

PackInit ==
  /\ stored = [fresh |-> {}, old |-> {}, ever |-> {}]
  /\ pending = NoRow
  /\ pack = [current |-> NoPreview, next |-> NoPreview]
  /\ mods = [of |-> NoPreview, whole |-> TRUE]
  /\ installer = [u \in Installers |-> NoInstall]
  /\ overlapped = FALSE

KeptPreviews == stored.fresh \cup stored.old
Discarded(k) == stored' = [stored EXCEPT !.fresh = @ \ {k}, !.old = @ \ {k}]
Proceeds(u, c) == installer' = [installer EXCEPT ![u] = c]

\* Nothing touches a preview for 24 hours (the folder's mtime counts).
PreviewAges ==
  /\ stored.fresh # {}
  /\ \E k \in stored.fresh :
       stored' = [stored EXCEPT !.fresh = @ \ {k}, !.old = @ \cup {k}]
  /\ UNCHANGED <<pending, pack, mods, installer, overlapped>>

\* create_preview sweeps old folders, whoever may still want them, and keeps its own
\* if the archive is fetched and parsed.
PreviewMade(u) ==
  /\ installer[u].pc = "idle"
  /\ \E k \in Previews \ stored.ever, now \in BOOLEAN, ok \in BOOLEAN :
       /\ stored' = [stored EXCEPT !.old = {}, !.ever = @ \cup {k},
                                   !.fresh = IF ok THEN @ \cup {k} ELSE @]
       /\ IF ok THEN Proceeds(u, [NoInstall EXCEPT !.pc = "queue", !.token = k, !.now = now])
                ELSE UNCHANGED installer
  /\ UNCHANGED <<pending, pack, mods, overlapped>>

\* modpack_import_execute: a preview made before, for a server that is created meanwhile.
ImportExecutes(u) ==
  /\ installer[u].pc = "idle"
  /\ \E k \in KeptPreviews : Proceeds(u, [NoInstall EXCEPT !.pc = "queue", !.token = k])
  /\ UNCHANGED <<stored, pending, pack, mods, overlapped>>

\* queue_pending_install: look, then insert or overwrite; the UNIQUE column refuses a
\* second row, and a row that is gone cannot be overwritten.
QueueLooks(u) ==
  /\ installer[u].pc = "queue"
  /\ Proceeds(u, [installer[u] EXCEPT !.pc = "enter", !.id = pending.id,
                                    !.prev = pending.token])
  /\ UNCHANGED <<stored, pending, pack, mods, overlapped>>

QueueEnters(u) ==
  /\ installer[u].pc = "enter"
  /\ LET mine == installer[u].token
     IN \/ /\ installer[u].id = 0 /\ pending = NoRow
           /\ \E i \in 1..2 : pending' = [id |-> i, token |-> mine, error |-> FALSE]
           /\ Proceeds(u, [installer[u] EXCEPT !.pc = "note"])
           /\ UNCHANGED stored
        \/ /\ installer[u].id # 0 /\ pending.id = installer[u].id
           /\ pending' = [pending EXCEPT !.token = mine, !.error = FALSE]
           /\ Discarded(installer[u].prev)
           /\ Proceeds(u, [installer[u] EXCEPT !.pc = "note"])
        \/ /\ (installer[u].id = 0) # (pending = NoRow) \/ (installer[u].id # 0 /\ pending.id # installer[u].id)
           /\ Proceeds(u, NoInstall)
           /\ UNCHANGED <<pending, stored>>
  /\ UNCHANGED <<pack, mods, overlapped>>

QueueNotes(u) ==
  /\ installer[u].pc = "note"
  /\ pack' = [pack EXCEPT !.next = installer[u].token]
  /\ Proceeds(u, IF installer[u].now THEN [NoInstall EXCEPT !.pc = "load"] ELSE NoInstall)
  /\ UNCHANGED <<stored, pending, mods, overlapped>>

\* The server is started.
ServerStarts(u) ==
  /\ installer[u].pc = "idle"
  /\ Proceeds(u, [NoInstall EXCEPT !.pc = "load"])
  /\ UNCHANGED <<stored, pending, pack, mods, overlapped>>

\* run_pending_install_for_server: the row and its snapshot are read once.
RunLoads(u) ==
  /\ installer[u].pc = "load"
  /\ IF pending = NoRow
     THEN Proceeds(u, NoInstall) /\ UNCHANGED pending
     ELSE IF pending.token \in KeptPreviews
          THEN /\ Proceeds(u, [NoInstall EXCEPT !.pc = "reset", !.token = pending.token, !.id = pending.id])
               /\ UNCHANGED pending
          ELSE /\ pending' = [pending EXCEPT !.error = TRUE]
               /\ Proceeds(u, NoInstall)
  /\ overlapped' = (overlapped \/ (pending.token \in KeptPreviews /\ \E v \in Installers \ {u} : Installing(v)))
  /\ UNCHANGED <<stored, pack, mods>>

\* The row goes by its number, whatever it holds by now; the folder by the token read.
Cleared(u) == IF pending.id = installer[u].id THEN NoRow ELSE pending

\* A bug: a failed install is not pending any more.
RunFailsForGood(u) ==
  /\ pending' = Cleared(u)
  /\ Proceeds(u, NoInstall)

\* The error is noted at the row, which stays for the next start.
RunFails(u) ==
  /\ pending' = IF pending.id = installer[u].id THEN [pending EXCEPT !.error = TRUE] ELSE pending
  /\ Proceeds(u, NoInstall)

\* _reset_server_content_before_install: mods and plugins are emptied.
RunResets(u) ==
  /\ installer[u].pc = "reset"
  /\ mods' = [of |-> installer[u].token, whole |-> FALSE]
  /\ Proceeds(u, [installer[u] EXCEPT !.pc = "entries"])
  /\ UNCHANGED <<stored, pending, pack, overlapped>>

\* execute_preview: the archive must be there before the entries and for the overrides.
RunInstalls(u) ==
  /\ installer[u].pc = "entries"
  /\ \/ /\ installer[u].token \in KeptPreviews
        /\ Proceeds(u, [installer[u] EXCEPT !.pc = "overrides"])
        /\ UNCHANGED pending
     \/ RunFails(u)
  /\ UNCHANGED <<stored, pack, mods, overlapped>>

RunOverrides(u) ==
  /\ installer[u].pc = "overrides"
  /\ \/ /\ installer[u].token \in KeptPreviews
        /\ mods' = IF mods.of = installer[u].token THEN [mods EXCEPT !.whole = TRUE] ELSE mods
        /\ Proceeds(u, [installer[u] EXCEPT !.pc = "clear"])
        /\ UNCHANGED pending
     \/ RunFails(u) /\ UNCHANGED mods
  /\ UNCHANGED <<stored, pack, overlapped>>

RunClears(u) ==
  /\ installer[u].pc = "clear"
  /\ pending' = Cleared(u)
  /\ Discarded(installer[u].token)
  /\ Proceeds(u, [installer[u] EXCEPT !.pc = "record"])
  /\ UNCHANGED <<pack, mods, overlapped>>

RunRecords(u) ==
  /\ installer[u].pc = "record"
  /\ pack' = [current |-> installer[u].token, next |-> NoPreview]
  /\ Proceeds(u, NoInstall)
  /\ UNCHANGED <<stored, pending, mods, overlapped>>

PackNext ==
  \/ PreviewAges
  \/ \E u \in Installers : \/ PreviewMade(u) \/ ImportExecutes(u) \/ QueueLooks(u) \/ QueueEnters(u) \/ QueueNotes(u)
                     \/ ServerStarts(u) \/ RunLoads(u) \/ RunResets(u) \/ RunInstalls(u)
                     \/ RunOverrides(u) \/ RunClears(u) \/ RunRecords(u)

PackSpec == PackInit /\ [][PackNext]_packVars

---------------------------------------------------------------------------
(* Properties.                                                             *)

\* A server whose mods an install left half done still has a pending install, so the next
\* start does it over from the beginning - whatever was queued meanwhile, as long as no two
\* installs ran at once.
HalfDoneIsPending ==
  ~overlapped /\ ~mods.whole /\ (\A u \in Installers : ~Installing(u)) => pending # NoRow

\* The version the state names is the one in the folder, unless an install is at work or
\* left its work half done.
CurrentIsInstalled ==
  ~overlapped /\ mods.whole /\ (\A u \in Installers : ~Installing(u)) => pack.current = mods.of

\* A preview that waits for the next start is still there when the start comes.
QueuedPreviewIsKept == pending # NoRow => pending.token \in KeptPreviews

\* What the database says of the modpack can be relied on when mods are looked at: it names
\* what is installed, or that an install is due.
ModsFollowInstalls == HalfDoneIsPending /\ CurrentIsInstalled

=============================================================================
