SPECIFICATION Spec
PROPERTIES CallsReturn EveryAccountIsServed EveryMailSettles
\* Nobody has to call again.
CHECK_DEADLOCK FALSE
