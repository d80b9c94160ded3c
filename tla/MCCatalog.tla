------------------------------- MODULE MCCatalog -------------------------------
(* Finite values for Catalog. *)
EXTENDS CatalogClients
================================================================================
