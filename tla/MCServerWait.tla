---------------------------- MODULE MCServerWait ----------------------------
(* Instances of ServerWait for TLC. *)
EXTENDS ServerWait

MCWaiting ==
  {serverReboot(TRUE), serverResize(TRUE), serverMigrate(FALSE, TRUE), serverMigrate(TRUE, TRUE),
   serverRebuild(TRUE), serverEvacuate(TRUE), serverCreate(TRUE), serverImageCreate(TRUE),
   serverBackupCreate(TRUE), serverShelve(FALSE, TRUE), serverShelve(TRUE, TRUE), serverUnshelve(TRUE)}

\* Without --wait the handlers differ in their actions only.
MCNotWaiting ==
  {serverResizeConfirm, serverResizeRevert, serverReboot(FALSE), serverCreate(FALSE),
   serverShelve(FALSE, FALSE), serverShelve(TRUE, FALSE), serverUnshelve(FALSE)}

MCHandlers == MCWaiting \cup MCNotWaiting

\* The handlers that may wait in vain for an operation that has succeeded.
ASSUME OneStatusOnly ==
  {h \in MCWaiting : ~Expects(h)} = {serverUnshelve(TRUE), serverRebuild(TRUE), serverEvacuate(TRUE)}

MCUnshelve == {serverUnshelve(TRUE)}
=============================================================================
