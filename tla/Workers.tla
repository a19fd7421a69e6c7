------------------------------ MODULE Workers ------------------------------
(***************************************************************************)
(* What the models of the smaller components share.  Requests are handled  *)
(* by threads of the gunicorn workers (Dockerfile, render.yaml); periodic  *)
(* tasks by one Celery worker (config/celery.py).  A model gives each slot *)
(* a record of the request it is handling; one slot handles one at a time. *)
(***************************************************************************)
EXTENDS Naturals, FiniteSets

CONSTANTS
    Worker,   \* threads that handle requests
    Celery,   \* the thread that runs the periodic tasks
    None      \* no value; no holder of a lock

ASSUME WorkersAssumption == Celery \notin Worker /\ None \notin Worker \cup {Celery}

Slot == Worker \cup {Celery}

Least(a, b) == IF a <= b THEN a ELSE b
=============================================================================
