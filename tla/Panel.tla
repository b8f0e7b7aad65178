------------------------------- MODULE Panel -------------------------------
(***************************************************************************)
(* Five components of the backend that share no state with each other:     *)
(* the versions of a runbook, the rules of a firewall, the secrets of a    *)
(* vault, a file that is edited, and the certificate of a domain.  Each    *)
(* has a module of its own.  A behaviour of this module is one of one of   *)
(* them, with the others at rest: steps of two of them commute, so that    *)
(* their interleavings have nothing to add.                                *)
(***************************************************************************)
EXTENDS RunbookVersions, Firewall, Vault, Files, Certificates

VARIABLE part    \* the component that is looked at

vars == <<part, versionVars, fwVars, vaultVars, fileVars, certVars>>

Init ==
    /\ part \in {"versions", "firewall", "vault", "files", "certificates"}
    /\ VersionsInit /\ FirewallInit /\ VaultInit /\ FilesInit /\ CertificatesInit
    /\ part # "firewall" => active

Next ==
    /\ \/ part = "versions" /\ VersionsNext
          /\ UNCHANGED <<fwVars, vaultVars, fileVars, certVars>>
       \/ part = "firewall" /\ FirewallNext
          /\ UNCHANGED <<versionVars, vaultVars, fileVars, certVars>>
       \/ part = "vault" /\ VaultNext
          /\ UNCHANGED <<versionVars, fwVars, fileVars, certVars>>
       \/ part = "files" /\ FilesNext
          /\ UNCHANGED <<versionVars, fwVars, vaultVars, certVars>>
       \/ part = "certificates" /\ CertificatesNext
          /\ UNCHANGED <<versionVars, fwVars, vaultVars, fileVars>>
    /\ UNCHANGED part

Spec == Init /\ [][Next]_vars

\* The types of the component that is looked at; the others stay as they began.
PanelTypeOK ==
    CASE part = "versions"     -> VersionsTypeOK
      [] part = "firewall"     -> FirewallTypeOK
      [] part = "vault"        -> VaultTypeOK
      [] part = "files"        -> FilesTypeOK
      [] part = "certificates" -> CertificatesTypeOK

=============================================================================
