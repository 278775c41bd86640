SPECIFICATION FairSpec
\* The form may be closed with every chain settled.
CHECK_DEADLOCK FALSE
CONSTANTS
  beach = beach
  car = car
  Photos = {beach, car}
  MaxTaps = 2
INVARIANTS TypeOK PhotoIsAsTapped UrlLeadsToPhoto
 
