------------------------------ MODULE ProxyRequests ------------------------------
(***************************************************************************)
(* The requests of internal/stream/proxy.go, which StreamProxy and         *)
(* Descriptors model from two sides: the bytes they get and the URLs they   *)
(* get them from.                                                          *)
(***************************************************************************)
CONSTANTS
  Requests,  \* each is served once
  None       \* no request; in other places no object, descriptor or error

ASSUME NoneAssumption == None \notin Requests
==================================================================================
