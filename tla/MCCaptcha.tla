------------------------------ MODULE MCCaptcha ------------------------------
(* Captcha on two browsers, two addresses and two challenges; without      *)
(* replay protection, when challenges have nothing to do with one another, *)
(* on one.                                                                 *)
EXTENDS Captcha

OneUnprotected == ReplayProtection \/ Len(issued) <= 1
=============================================================================
