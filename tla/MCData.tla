--------------------------------- MODULE MCData ---------------------------------
(* Ten independent machines that must not lose or mix up what they carry,     *)
(* in one run: `part` says which of them a behaviour is about, and the others *)
(* rest.                                                                      *)
EXTENDS BrowserShares, RollingScan, DeltaTransfer, ConfigStore, SftpPool, PortForwards,
        Telnet, NetworkScan, FileUploads, SftpDownloads

VARIABLE part

restVars == <<shareVars, scanVars, deltaVars, storeVars, poolVars, forwardVars,
              telnetVars, scanNetVars, uploadVars, downloadVars>>
dataVars == <<part, restVars>>

(* The actors of the machines (browsers, clients, threads, requests, uploads)  *)
(* have the same names, and so one symmetry: they and what blocks hold are     *)
(* only ever compared.                                                        *)
Symmetry == Permutations(Clients) \cup Permutations(Contents)

(* What the clients of a resting transfer have, which no step looks at.        *)
AnyFile == CHOOSE f \in Files : TRUE

(* The other files of the server hold one kind of block each: which blocks    *)
(* can be found in a file is all that matters, and the destination may hold   *)
(* both kinds.                                                                *)
Uniform == {f \in Files : \A i, k \in Numbers : f[i] = f[k]}

Init ==
  /\ part \in {"shares", "scan", "delta", "store", "pool", "forward", "telnet", "network",
             "upload", "download"}
  /\ SharesInit /\ StoreInit /\ PoolInit /\ ForwardInit /\ TelnetInit /\ NetworkInit
  /\ UploadInit /\ DownloadInit
  /\ part # "pool" => inStore = CHOOSE i \in [Parts -> Settings] : TRUE
  /\ ScanInit
  /\ part # "scan" => /\ candidate = <<>>
                      /\ block = CHOOSE b \in Blocks : TRUE
  /\ IF part = "delta"
       THEN destination \in Files \cup {NoFile} /\ basis \in Uniform \cup {NoFile}
       ELSE destination = NoFile /\ basis = NoFile
  /\ overwrite \in (IF part = "delta" THEN BOOLEAN ELSE {FALSE})
  /\ source \in (IF part = "delta" THEN [Clients -> Files] ELSE {[c \in Clients |-> AnyFile]})
  /\ DeltaInit

Next ==
  /\ UNCHANGED part
  /\ \/ /\ part = "shares" /\ SharesNext
        /\ UNCHANGED <<scanVars, deltaVars, storeVars, poolVars, forwardVars,
                       telnetVars, scanNetVars, uploadVars, downloadVars>>
     \/ /\ part = "scan" /\ ScanNext
        /\ UNCHANGED <<shareVars, deltaVars, storeVars, poolVars, forwardVars,
                       telnetVars, scanNetVars, uploadVars, downloadVars>>
     \/ /\ part = "delta" /\ DeltaNext
        /\ UNCHANGED <<shareVars, scanVars, storeVars, poolVars, forwardVars,
                       telnetVars, scanNetVars, uploadVars, downloadVars>>
     \/ /\ part = "store" /\ StoreNext
        /\ UNCHANGED <<shareVars, scanVars, deltaVars, poolVars, forwardVars,
                       telnetVars, scanNetVars, uploadVars, downloadVars>>
     \/ /\ part = "pool" /\ PoolNext
        /\ UNCHANGED <<shareVars, scanVars, deltaVars, storeVars, forwardVars,
                       telnetVars, scanNetVars, uploadVars, downloadVars>>
     \/ /\ part = "forward" /\ ForwardNext
        /\ UNCHANGED <<shareVars, scanVars, deltaVars, storeVars, poolVars,
                       telnetVars, scanNetVars, uploadVars, downloadVars>>
     \/ /\ part = "telnet" /\ TelnetNext
        /\ UNCHANGED <<shareVars, scanVars, deltaVars, storeVars, poolVars,
                       forwardVars, scanNetVars, uploadVars, downloadVars>>
     \/ /\ part = "network" /\ NetworkNext
        /\ UNCHANGED <<shareVars, scanVars, deltaVars, storeVars, poolVars,
                       forwardVars, telnetVars, uploadVars, downloadVars>>
     \/ /\ part = "upload" /\ UploadNext
        /\ UNCHANGED <<shareVars, scanVars, deltaVars, storeVars, poolVars,
                       forwardVars, telnetVars, scanNetVars, downloadVars>>
     \/ /\ part = "download" /\ DownloadNext
        /\ UNCHANGED <<shareVars, scanVars, deltaVars, storeVars, poolVars,
                       forwardVars, telnetVars, scanNetVars, uploadVars>>

Spec == Init /\ [][Next]_dataVars

(* The types of the ten machines.                                             *)
TypeOK ==
  /\ SharesTypeOK /\ ScanTypeOK /\ DeltaTypeOK /\ StoreTypeOK
  /\ PoolTypeOK /\ ForwardTypeOK /\ TelnetTypeOK /\ NetworkTypeOK
  /\ UploadTypeOK /\ DownloadTypeOK

(* A Telnet session and a forwarded port deliver exactly what was meant, in    *)
(* both directions, however the streams are cut.                              *)
StreamsAreTransparent == TelnetIsTransparent /\ RelayedInOrder

(* What is searched in a file or downloaded is that file exactly, also when    *)
(* chunks come twice, too late or cut short.  What is uploaded is, too, up to  *)
(* what is lost unnoticed when the last chunk is closed.                      *)
FilesArrive == ScanIsExact /\ UploadedWholeOrLostAtClose /\ DownloadedIsWhole
=============================================================================
