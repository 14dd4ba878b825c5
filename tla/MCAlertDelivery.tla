---------------------------- MODULE MCAlertDelivery ----------------------------
(* AlertDelivery with one e-mail rule and one in-app rule: the two channels *)
(* differ in what a rollback takes back.                                    *)
EXTENDS AlertDelivery

CONSTANTS byMail, inApp

MCRules == {byMail, inApp}
MCEmailRules == {byMail}
=============================================================================
