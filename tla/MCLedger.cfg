SPECIFICATION Spec
CONSTANT Runs = {r1, r2, r3}
INVARIANTS NoFalseAlarm EditDetected HeadCommits
PROPERTY DeploysEnd
