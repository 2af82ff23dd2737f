------------------------------ MODULE Configs ------------------------------
(***************************************************************************)
(* The panel's config files (src/web/gpb_web.py): which one the bridge     *)
(* runs is a line of the env file, which a request of each open page may   *)
(* replace, while others write new configs, delete them, or work the       *)
(* bridge's unit.  The server has a thread for each request; a step is the *)
(* code between two accesses to a file or to the unit.                     *)
(*                                                                         *)
(* A file is known by who wrote it.  systemctl succeeds; the disk may      *)
(* refuse a write; the panel may die and be started again.                 *)
(***************************************************************************)
CONSTANTS Pages,      \* pages, with one request each at a time
          Names,      \* names of files in config/
          Shipped,    \* the ones that are there from the start
          NoFile,     \* no such file, or no process
          Half        \* an env file that names no config, cut short

ASSUME NameAssumption == Shipped \subseteq Names /\ {NoFile, Half} \cap (Names \cup Pages) = {} /\ NoFile # "shipped"

VARIABLES files,    \* who wrote the file of that name: a page, "shipped", or NoFile
          env,      \* the config the env file names
          tmp,      \* the temporary file next to it
          lock,     \* the page whose request holds _env_lock
          pc, arg,  \* where the request of a page is, and the config it is about
          unit,     \* the config the bridge was started with, or NoFile
          crossed,  \* history: a select and a delete were handled at the same time
          torn      \* history: a replaced env file whose restart was lost with the panel

requests == <<pc, arg>>
configsVars == <<files, env, tmp, lock, requests, unit, crossed, torn>>

ConfigsInit ==
  /\ files = [n \in Names |-> IF n \in Shipped THEN "shipped" ELSE NoFile]
  /\ env \in Shipped /\ tmp = NoFile /\ lock = NoFile
  /\ pc = [p \in Pages |-> "none"] /\ arg = [p \in Pages |-> NoFile]
  /\ unit \in {env, NoFile} /\ crossed = FALSE /\ torn = FALSE

At(p, l) == pc[p] = l
Go(p, l) ==
  /\ pc' = [pc EXCEPT ![p] = l]
  /\ arg' = IF l = "none" THEN [arg EXCEPT ![p] = NoFile] ELSE arg

Selects(p) == pc[p] \in {"select", "lock", "open", "write", "replace"}
Deletes(p) == pc[p] \in {"delete", "remove"}
Crosses(p, l) ==
  \E q \in Pages \ {p} : (l = "select" /\ Deletes(q)) \/ (l = "delete" /\ Selects(q))

(* A page asks. *)
Asks(p, n, l) ==
  /\ At(p, "none")
  /\ pc' = [pc EXCEPT ![p] = l] /\ arg' = [arg EXCEPT ![p] = n]
  /\ crossed' = (crossed \/ Crosses(p, l))
  /\ UNCHANGED <<files, env, tmp, lock, unit, torn>>

AsksSelect(p) == \E n \in Names : Asks(p, n, "select")
AsksDelete(p) == \E n \in Names : Asks(p, n, "delete")
AsksSave(p) == \E n \in Names : Asks(p, n, "save")

Known(n) == files[n] # NoFile

-----------------------------------------------------------------------------
(* write_env(), and the restart of /api/select *)

(* mutant: the env file is replaced without the lock *)
ChecksOnly(p) ==
  /\ At(p, "select")
  /\ Go(p, IF Known(arg[p]) THEN "open" ELSE "none")
  /\ UNCHANGED <<files, env, tmp, lock, unit, crossed, torn>>
SelectChecks(p) ==
  /\ At(p, "select")
  /\ Go(p, IF Known(arg[p]) THEN "lock" ELSE "none")
  /\ UNCHANGED <<files, env, tmp, lock, unit, crossed, torn>>

Locks(p) ==
  /\ At(p, "lock") /\ lock = NoFile
  /\ lock' = p /\ Go(p, "open")
  /\ UNCHANGED <<files, env, tmp, unit, crossed, torn>>

Unlocked(p) == IF lock = p THEN NoFile ELSE lock

(* write_text() opens and empties the file, writes, and closes it; either may fail. *)
OpensTmp(p) ==
  /\ At(p, "open")
  /\ \/ tmp' = Half /\ Go(p, "write") /\ UNCHANGED lock
     \/ lock' = Unlocked(p) /\ Go(p, "none") /\ UNCHANGED tmp
  /\ UNCHANGED <<files, env, unit, crossed, torn>>

WritesTmp(p) ==
  /\ At(p, "write")
  /\ \/ tmp' = arg[p] /\ Go(p, "replace") /\ UNCHANGED lock
     \/ lock' = Unlocked(p) /\ Go(p, "none") /\ UNCHANGED tmp
  /\ UNCHANGED <<files, env, unit, crossed, torn>>

(* mutant: the bridge is started before the file is in its place *)
RestartsFirst(p) ==
  /\ At(p, "replace")
  /\ unit' = IF Known(env) THEN env ELSE NoFile
  /\ env' = tmp /\ tmp' = NoFile
  /\ lock' = Unlocked(p) /\ Go(p, "none")
  /\ UNCHANGED <<files, crossed, torn>>
(* os.replace() *)
Replaces(p) ==
  /\ At(p, "replace")
  /\ \/ tmp # NoFile /\ env' = tmp /\ tmp' = NoFile /\ Go(p, "restart")
     \/ Go(p, "none") /\ UNCHANGED <<env, tmp>>
  /\ lock' = Unlocked(p)
  /\ UNCHANGED <<files, unit, crossed, torn>>

(* systemctl restart: the process reads the env file, and the config it names. *)
Started == unit' = IF env # Half /\ Known(env) THEN env ELSE NoFile

SelectRestarts(p) ==
  /\ At(p, "restart")
  /\ Started /\ Go(p, "none")
  /\ torn' = FALSE
  /\ UNCHANGED <<files, env, tmp, lock, crossed>>

-----------------------------------------------------------------------------
(* mutant: what is selected is not looked at *)
DeletesAny(p) ==
  /\ At(p, "delete")
  /\ Go(p, IF Known(arg[p]) THEN "remove" ELSE "none")
  /\ UNCHANGED <<files, env, tmp, lock, unit, crossed, torn>>
(* delete_config(): known, and not selected *)
DeleteChecks(p) ==
  /\ At(p, "delete")
  /\ Go(p, IF Known(arg[p]) /\ arg[p] # env THEN "remove" ELSE "none")
  /\ UNCHANGED <<files, env, tmp, lock, unit, crossed, torn>>

Removes(p) ==
  /\ At(p, "remove")
  /\ files' = [files EXCEPT ![arg[p]] = NoFile] \/ UNCHANGED files
  /\ Go(p, "none")
  /\ UNCHANGED <<env, tmp, lock, unit, crossed, torn>>

(* save_config() *)
SaveChecks(p) ==
  /\ At(p, "save")
  /\ Go(p, IF Known(arg[p]) THEN "none" ELSE "store")
  /\ UNCHANGED <<files, env, tmp, lock, unit, crossed, torn>>

Stores(p) ==
  /\ At(p, "store")
  /\ files' = [files EXCEPT ![arg[p]] = p] \/ UNCHANGED files
  /\ Go(p, "none")
  /\ UNCHANGED <<env, tmp, lock, unit, crossed, torn>>

-----------------------------------------------------------------------------
(* The unit is started or stopped from a page, or the bridge fails and systemd starts it. *)
UnitStarts ==
  /\ Started /\ torn' = FALSE
  /\ UNCHANGED <<files, env, tmp, lock, requests, crossed>>
UnitStops ==
  /\ unit' = NoFile /\ torn' = FALSE
  /\ UNCHANGED <<files, env, tmp, lock, requests, crossed>>

(* The panel is gone with its threads and its lock, and comes back. *)
PanelDies ==
  /\ \E p \in Pages : ~At(p, "none")
  /\ pc' = [p \in Pages |-> "none"] /\ arg' = [p \in Pages |-> NoFile] /\ lock' = NoFile
  /\ torn' = (torn \/ \E p \in Pages : At(p, "restart"))
  /\ UNCHANGED <<files, env, tmp, unit, crossed>>

Handles(p) ==
  \/ SelectChecks(p) \/ Locks(p) \/ OpensTmp(p) \/ WritesTmp(p) \/ Replaces(p) \/ SelectRestarts(p)
  \/ DeleteChecks(p) \/ Removes(p)
  \/ SaveChecks(p) \/ Stores(p)

ConfigsNext ==
  \/ \E p \in Pages : AsksSelect(p) \/ AsksDelete(p) \/ AsksSave(p) \/ Handles(p)
  \/ UnitStarts \/ UnitStops \/ PanelDies

ConfigsSpec == ConfigsInit /\ [][ConfigsNext]_configsVars

-----------------------------------------------------------------------------
ConfigsTypeOK ==
  /\ files \in [Names -> Pages \cup {"shipped", NoFile}]
  /\ env \in Names \cup {Half} /\ tmp \in Names \cup {Half, NoFile}
  /\ lock \in Pages \cup {NoFile}
  /\ pc \in [Pages -> {"none", "select", "lock", "open", "write", "replace", "restart",
                       "delete", "remove", "save", "store"}]
  /\ arg \in [Pages -> Names \cup {NoFile}] /\ unit \in Names \cup {NoFile}
  /\ {crossed, torn} \subseteq BOOLEAN

(***************************************************************************)
(* "Atomic: never leave a half-written env file" (gpb_web.py:151): two     *)
(* selections use the same temporary file, and either may fail or die at   *)
(* any point of it.                                                        *)
(***************************************************************************)
EnvIsWhole == env # Half

(***************************************************************************)
(* "The running source is a property of the selected config ... so the two *)
(* cannot disagree" (gpb_web.py:970-971): whoever selects, starts or stops *)
(* at the same time, a bridge that runs was started with the config that   *)
(* is selected, once the selections are done and if the panel did not die  *)
(* between the file and the restart.                                       *)
(***************************************************************************)
RunsTheSelected ==
  unit # NoFile /\ ~torn /\ (\A p \in Pages : ~At(p, "restart")) => unit = env

(***************************************************************************)
(* The selected config is there (gpb_web.py:581-582, README.md:151-152),   *)
(* however requests come and the panel dies, unless a selection and a      *)
(* deletion are handled at the same time.                                  *)
(***************************************************************************)
SelectedIsThere == ~crossed => env \in Names /\ Known(env)
=============================================================================
