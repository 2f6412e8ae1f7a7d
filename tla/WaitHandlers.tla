---------------------------- MODULE WaitHandlers ----------------------------
(***************************************************************************)
(* The server commands of internal/cli that start a background operation   *)
(* and, with --wait, poll until it is over.  Each handler is written as    *)
(* the record of its choices; module ServerWait gives them their behaviour *)
(*                                                                         *)
(*   steps     the actions requested of each server, one after the other   *)
(*   many      whether the handler takes several servers                   *)
(*   wait      whether it polls                                            *)
(*   targets   the statuses that end a poll well                           *)
(*   failures  the statuses that end it badly                              *)
(*   task      whether a target counts only once no task is going on       *)
(*   reread    whether the server is read once more after the wait         *)
(***************************************************************************)

Actions == {"reboot", "resize", "confirmResize", "revertResize", "migrate",
            "live-migrate", "rebuild", "evacuate", "shelve", "shelveOffload",
            "unshelve", "create", "image"}

\* waitForServerStatus looks at the status and the task.
One(action, wait, targets) ==
  [steps |-> <<action>>, many |-> FALSE, wait |-> wait, targets |-> targets,
   failures |-> {"ERROR"}, task |-> TRUE, reread |-> FALSE]

\* waitForImageStatus has only a status to look at.
Imaging(wait) ==
  [One("image", wait, {"active"}) EXCEPT !.failures = {"killed", "deleted"}, !.task = FALSE]

serverReboot(wait) == One("reboot", wait, {"ACTIVE"})

\* --confirm and --revert return before the wait.
serverResize(wait) == One("resize", wait, {"VERIFY_RESIZE"})
serverResizeConfirm == One("confirmResize", FALSE, {"VERIFY_RESIZE"})
serverResizeRevert == One("revertResize", FALSE, {"VERIFY_RESIZE"})

serverMigrate(live, wait) ==
  IF live THEN One("live-migrate", wait, {"ACTIVE"})
  ELSE One("migrate", wait, {"VERIFY_RESIZE"})

serverRebuild(wait) == [One("rebuild", wait, {"ACTIVE"}) EXCEPT !.reread = wait]
serverEvacuate(wait) == One("evacuate", wait, {"ACTIVE"})
serverCreate(wait) == [One("create", wait, {"ACTIVE"}) EXCEPT !.reread = wait]
serverImageCreate(wait) == Imaging(wait)
serverBackupCreate(wait) == Imaging(wait)

serverShelve(offload, wait) ==
  [One("shelve", wait, {"SHELVED_OFFLOADED"} \cup IF offload THEN {} ELSE {"SHELVED"})
     EXCEPT !.many = TRUE,
            !.steps = IF offload THEN <<"shelve", "shelveOffload">> ELSE <<"shelve">>]

serverUnshelve(wait) == [One("unshelve", wait, {"ACTIVE"}) EXCEPT !.many = TRUE]
=============================================================================
