----------------------------- MODULE MCZipCache -----------------------------
(* The menu and a second process, two packages, and a chain for each of    *)
(* the three files that can exist without sharing one.                     *)
EXTENDS ZipCache

MCNames == {ZIP, PART, BAK, TXN, TMP, JBK}
MCChains == {1, 2, 3}
MCClients == {"menu", "other"}
MCVersions == {"v1", "v2"}
=============================================================================
