-------------------------------- MODULE Cli --------------------------------
(***************************************************************************)
(* hcvctl in several terminals of one user.  A command is what it does     *)
(* with the answer: whether it sends credentials, looks at the status, and *)
(* which JSON it decodes.  What it prints is left out.  The terminals      *)
(* share ~/.hcvctl/token, which a login truncates and then writes.         *)
(* Of the controller only what hcvctl sees is here: it grants and drops    *)
(* tokens, and answers a command with its result or with an error, whose   *)
(* body is an object.                                                      *)
(***************************************************************************)
EXTENDS Api

CONSTANTS Terminals,
          MaxLogins     \* bound: tokens granted

VARIABLES rbac,         \* the controller asks for credentials
          tokenFile,    \* the token on disk; NoToken if absent or empty; Torn
          accepted,     \* tokens the controller takes
          logins,       \* tokens granted so far
          shells,       \* terminals inside hcvctl shell
          run,          \* terminal -> command under way
          ended         \* how the last command ended

cliVars == <<rbac, tokenFile, accepted, logins, shells, run, ended>>

NoToken == 0
BasicAuth == -1
Torn == -2              \* part of a token, or one with the tail of another

-----------------------------------------------------------------------------
(* The commands.  gives is the body of a good answer, wants what the       *)
(* command decodes, "" for nothing; flag: it insists on a flag.            *)

Command(auth, check, wants, gives, flag) ==
    [auth |-> auth, check |-> check, wants |-> wants, gives |-> gives, flag |-> flag]

Lists == Command(TRUE, FALSE, "array", "array", FALSE)
ListsChecked == Command(TRUE, TRUE, "array", "array", FALSE)
ListsPage == Command(TRUE, FALSE, "object", "object", FALSE)
Changes == Command(TRUE, TRUE, "", "", FALSE)
ChangesNamed == Command(TRUE, TRUE, "", "", TRUE)

vmList == ListsPage
vmCreate == Changes
vmAction == Command(FALSE, FALSE, "", "object", FALSE)
vmMigrate == ChangesNamed
containerList == ListsPage
containerCreate == ChangesNamed
containerExec == Command(TRUE, TRUE, "object", "object", TRUE)
nodeList == Lists
storagePoolList == Lists
storageVolumeList == Lists
storageVolumeCreate == Changes
networkZoneList == Lists
networkVnetList == Lists
networkFirewallList == Lists
deviceList == Lists
deviceAttach == ChangesNamed
deviceDetach == ChangesNamed
clusterStatus == ListsPage
clusterNodeList == Lists
clusterFence == ChangesNamed
backupList == Command(TRUE, FALSE, "array", "object", FALSE)
backupCreate == Changes
backupDelete == ChangesNamed
handleShellStatus == Command(TRUE, TRUE, "object", "object", FALSE)
systemStatus == handleShellStatus
templateList == Command(TRUE, TRUE, "array", "object", FALSE)
templateCreate == ChangesNamed
templateDelete == ChangesNamed
templateDeploy == ChangesNamed
imageList == ListsChecked
imageRegister == ChangesNamed
imageDelete == ChangesNamed
snapshotListCLI == ListsChecked
snapshotCreateCLI == Changes
snapshotDeleteCLI == ChangesNamed
snapshotRestoreCLI == ChangesNamed
containerDelete == Changes

\* The command tree that main builds.
vmCmd == {vmList, vmCreate, vmAction, vmMigrate}
nodeCmd == {nodeList}
storageCmd == {storagePoolList, storageVolumeList, storageVolumeCreate}
networkCmd == {networkZoneList, networkVnetList, networkFirewallList}
deviceCmd == {deviceList, deviceAttach, deviceDetach}
clusterCmd == {clusterStatus, clusterNodeList, clusterFence}
backupCmd == {backupList, backupCreate, backupDelete}
statusCmd == {systemStatus}
templateCmd == {templateList, templateCreate, templateDelete, templateDeploy}
imageCmd == {imageList, imageRegister, imageDelete}
snapshotCmd == {snapshotListCLI, snapshotCreateCLI, snapshotDeleteCLI, snapshotRestoreCLI}
containerCmd == {containerList, containerCreate, vmAction, containerDelete, containerExec}
main == vmCmd \cup nodeCmd \cup storageCmd \cup networkCmd \cup deviceCmd \cup clusterCmd
            \cup backupCmd \cup statusCmd \cup templateCmd \cup imageCmd \cup snapshotCmd
            \cup containerCmd

\* The shell's own tree: no login, and vm list is apart (ShellVMList).  The
\* arguments it insists on stand for the flags.
Asks(cmd) == [cmd EXCEPT !.flag = TRUE]
shellDeviceList == Lists
handleShellVM == {Asks(Changes), Asks(vmAction)}
handleShellStorage == {Asks(storagePoolList), Asks(storageVolumeList)}
handleShellNetwork == {Asks(networkZoneList), Asks(networkVnetList), Asks(networkFirewallList)}
handleShellDevice == {Asks(shellDeviceList)}
handleShellCluster == {Asks(clusterStatus), Asks(clusterNodeList)}
handleShellBackup == {Asks(backupList)}
executeShellCommand == handleShellVM \cup handleShellStorage \cup handleShellNetwork
                           \cup handleShellDevice \cup handleShellCluster \cup handleShellBackup
                           \cup {handleShellStatus}

-----------------------------------------------------------------------------
\* Its answer is an object that holds the token.
Login == Command(TRUE, TRUE, "token", "token", TRUE)
Nothing == [ok |-> TRUE, code |-> Pending, cmd |-> Login]

CliInit ==
    /\ answer = Pending /\ rbac \in BOOLEAN
    /\ tokenFile = NoToken /\ accepted = {} /\ logins = 0
    /\ shells = {} /\ run = Empty /\ ended = Nothing

CliIdle(t) == t \notin DOMAIN run
Ends(t, cmd, code, ok) ==
    /\ run' = Del(run, t) /\ ended' = [ok |-> ok, code |-> code, cmd |-> cmd]
    /\ Reply(code)

\* os.ReadFile of the token file; whatever fails counts as no token.
loadStoredToken == tokenFile

\* --user before the stored token.
newRequest(user) == IF user THEN BasicAuth ELSE loadStoredToken

\* Flags and arguments are checked before anything is sent; the request
\* carries the token read now.
Invoke(t, cmd) ==
    /\ CliIdle(t)
    /\ \/ cmd.flag /\ Ends(t, cmd, Pending, FALSE)
       \/ \E user \in BOOLEAN :
             /\ run' = Put(run, t, [at |-> "sent", cmd |-> cmd, token |-> NoToken,
                                    cred |-> IF cmd.auth THEN newRequest(user) ELSE NoToken])
             /\ Reply(Pending) /\ UNCHANGED ended
    /\ UNCHANGED <<rbac, tokenFile, accepted, logins, shells>>

\* What the middleware may let through: a password, or a token that holds.
Authorised(cred) == cred = BasicAuth \/ cred \in accepted

\* The codes of the middleware and of the handlers: 401 for credentials that
\* do not hold, 403 for a role, 404 and 500 for what a handler refuses.
Codes(cmd, cred) ==
    CASE cmd = Login -> {200, 400, 401, 429, 500}
      [] ~rbac -> {200, 404, 500}
      [] rbac /\ Authorised(cred) -> {200, 401, 403, 404, 500}
      [] OTHER -> {401}

\* Mutant: only the controller's own errors are looked at.
checkResponseLax(cmd, code) == cmd.check /\ code >= 500
checkResponse(cmd, code) == cmd.check /\ code >= 400

\* Decoding fails on a body of the other kind.
Decodes(cmd, code) ==
    cmd.wants \in {"", IF IsError(code) THEN "object" ELSE cmd.gives}

Concludes(t) ==
    LET cmd == run[t].cmd
    IN  /\ ~CliIdle(t) /\ run[t].at = "sent" /\ cmd # Login
        /\ \E code \in Codes(cmd, run[t].cred) :
              Ends(t, cmd, code, ~checkResponse(cmd, code) /\ Decodes(cmd, code))
        /\ UNCHANGED <<rbac, tokenFile, accepted, logins, shells>>

\* httpClient.Do fails: nothing was answered.
Fails(t) ==
    /\ ~CliIdle(t) /\ run[t].at = "sent" /\ Ends(t, run[t].cmd, Pending, FALSE)
    /\ UNCHANGED <<rbac, tokenFile, accepted, logins, shells>>

-----------------------------------------------------------------------------
(* loginRun after its request: status, decoding, then os.WriteFile, which  *)
(* opens with O_TRUNC and writes.                                          *)

\* The truncation; token is what will be written.
OpenTokenFile(t, token) ==
    /\ run' = [run EXCEPT ![t].at = "opened", ![t].token = token]
    /\ tokenFile' = NoToken /\ Reply(Pending) /\ UNCHANGED ended

Granted(t) ==
    /\ logins < MaxLogins /\ logins' = logins + 1 /\ accepted' = accepted \cup {logins + 1}
    /\ \/ OpenTokenFile(t, logins + 1)
       \/ Ends(t, Login, 200, FALSE) /\ UNCHANGED tokenFile

\* The home directory may be unknown, or mkdir or open may fail.
loginRun(t) ==
    /\ ~CliIdle(t) /\ run[t].at = "sent" /\ run[t].cmd = Login
    /\ \/ 200 \in Codes(Login, NoToken) /\ Granted(t)
       \/ \E code \in Codes(Login, NoToken) :
             checkResponse(Login, code) /\ Ends(t, Login, code, FALSE)
             /\ UNCHANGED <<tokenFile, accepted, logins>>
    /\ UNCHANGED <<rbac, shells>>

\* It writes from offset 0 whatever another login wrote since the truncation,
\* the tail of a longer token stays; a write that fails may have written a part.
WriteTokenFile(t) ==
    /\ ~CliIdle(t) /\ run[t].at = "opened"
    /\ \/ /\ tokenFile' \in {run[t].token} \cup (IF tokenFile = NoToken THEN {} ELSE {Torn})
          /\ Ends(t, Login, 200, TRUE)
       \/ tokenFile' \in {tokenFile, Torn} /\ Ends(t, Login, 200, FALSE)
    /\ UNCHANGED <<rbac, accepted, logins, shells>>

-----------------------------------------------------------------------------
\* hcvctl shell: a failed command is reported and the loop goes on.
runShell(t) ==
    /\ CliIdle(t)
    /\ shells' = IF t \in shells THEN shells \ {t} ELSE shells \cup {t}
    /\ Reply(Pending) /\ UNCHANGED <<rbac, tokenFile, accepted, logins, run, ended>>

\* vm list in the shell: vmList asks a nil command for its flags and panics.
ShellVMList(t) ==
    /\ CliIdle(t) /\ t \in shells /\ shells' = shells \ {t}
    /\ Ends(t, vmList, Pending, FALSE) /\ UNCHANGED <<rbac, tokenFile, accepted, logins>>

\* A token expires, is revoked by a logout, or goes with the signing key.
TokenDropped ==
    /\ \E n \in accepted : accepted' = accepted \ {n}
    /\ Reply(Pending) /\ UNCHANGED <<rbac, tokenFile, logins, shells, run, ended>>

CliNext ==
    \/ \E t \in Terminals :
          \/ t \notin shells /\ \E cmd \in main \cup {Login} : Invoke(t, cmd)
          \/ t \in shells /\ \E cmd \in executeShellCommand : Invoke(t, cmd)
          \/ Concludes(t) \/ Fails(t) \/ loginRun(t) \/ WriteTokenFile(t)
          \/ runShell(t) \/ ShellVMList(t)
    \/ TokenDropped

CliSpec == CliInit /\ [][CliNext]_<<cliVars, answer>>

-----------------------------------------------------------------------------
\* Commands that neither look at the status nor decode a list.
Silent == {vmAction, vmList, containerList, clusterStatus}

\* checkResponse and the decoding after it: a command that reports success
\* was served.  Not so for vm start and stop, vm list, container list and
\* cluster status.
SuccessIsServed ==
    ended.ok /\ IsError(ended.code) =>
        \E cmd \in Silent : ended.cmd \in {cmd, Asks(cmd)}
============================================================================
