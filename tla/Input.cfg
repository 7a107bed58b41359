SPECIFICATION InputSpec
CHECK_DEADLOCK FALSE
INVARIANTS
  InputTypeOK
  PointerSound
  ConstraintsSound
  PopupsSound
  TextInputsSound
  PopupPlaced
  TextsRight
  ConfinesExactly
